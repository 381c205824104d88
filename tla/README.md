# Verification of soarm101-console

TLA+ models of the parts of soarm101-console in which several threads, processes or people meet, the TLC runs that check
them on small instances, and TLAPS proofs of what they promise for every instance. All source paths below are relative to
the repository; `src/hubq` and `src/soarm_console` are its two Python packages.

The console drives an SO-ARM101 robot arm. A person moves it with a second arm (the *leader*), with a phone or with the
screen (the *virtual leader*), records episodes of that as a dataset, replays them, and lets a policy drive the arm. Each of
these is a *job*: a worker process started by the HUBq daemon on behalf of the console, holding the kernel locks of the
devices it drives.

- [Inventory](#inventory): the parts, their state, their operations and what makes them correct
- [The modules](#the-modules): how state and actions correspond to the code, and what is left out
- [The runs](#the-runs): what each shows, its bounds and why they are enough, and the fairness
- [The proofs](#the-proofs)
- [Where the code and its documents disagree](#where-the-code-and-its-documents-disagree)
- [What is not modelled](#what-is-not-modelled) and [the plan](#the-plan)

## Inventory

| Part | Source | State | Operations | Works with | Hard because of |
|---|---|---|---|---|---|
| Owner locks | `owner_lock.py` | one lock file per device: the kernel's flock and the owner's name in it | acquire a set of devices, release, inherit | every program that opens a device | processes take overlapping sets one device at a time, die or fail in between |
| HUBq job registry | `hubq/jobs.py`, `hubq/app.py` | a record per job on disk and in memory, child processes, lock descriptors, a watcher thread per job | start, list, stop, heartbeat, mobile heartbeat, expire, reconcile | owner locks (held for and inherited by workers), signals, HTTP from the console and phones | crash of HUBq under living workers, watcher against readers, stop calls that wait without the lock, leases |
| Phone guard | `mobile_watchdog.py` | reads the job's record | interrupts its own worker | the record HUBq writes | HUBq notices the same expiry, or is down |
| HUBq client | `hubq_client.py` | handles of running jobs | start, stop, renew, emergency stop | HTTP to HUBq, signals to the worker | HUBq unreachable while a stop or a start is under way |
| Virtual leader | `vleader/` | state, fault, goal and held goal, pending torque request, the lease, the feel | start, stop, arm, release torque, grant, release, hold, resume, command, tune | control-loop thread against HTTP and WebSocket threads | the bus is used off the lock; people, expiry, trips and bus errors in any order |
| Virtual leader teleoperator | `vleader/teleoperator.py` | the last goal and its time | get_action | polls the console from the recording worker, sets LeRobot's events | the console or the person goes away during a recording |
| Recording worker | `recording.py`, `sensors.py` | LeRobot's dictionary of events, counters, the episode buffer | the episode loop, resets, re-recording, saving, the control listener | control file and status file shared with the console; LeRobot calls back | keys between loops, bus errors, interrupts in the middle of a save |
| Recording manager | `record_manager.py` | the job handle, the session's provenance and quality | start, control, stop, status, archive | HUBq client, the worker's status file | a watcher thread of the last session against the next start |
| Replay | `replaying.py`, `replay_manager.py` | phase, stop flag, goal of the servos | align, replay, stop | the stop file, HUBq | a stop at any phase, a servo that still has an old goal |
| Policy | `policying.py`, `policy_manager.py` | phase of a trial, signal handlers, the client of the server, job and side job | start, align, load, run, return, stop, adopt | remote server, HUBq, the training host's queue | time limit, broken connection and a person's stop race; the start holds a lock for minutes |
| Leader teleoperation | `teleop.py`, `teleoperating.py`, `follower_start.py` | job, alignment | start, align, stop | HUBq, phone lease | the first tick must not jump |
| Console | `app.py` | one manager per mode, the relay | the HTTP handlers, shutdown, restart | all managers | order of claim, hand-over and start; stop of everything against starts |
| Claims | `hubq/claims.py` | none | look at the lock ledger | console, scripts | a look is not a lock |
| Cameras | `cameras.py` | a capture thread per camera, the count of its clients | stream, change the profile, stop for a mode | owner locks, modes | viewers, the thread and a mode's start |
| Perception | `perception/` | the rig file, the views of a board, the calibration's samples | collect, solve, discard, calibrate, stop | the hub and the calibration job write one file | each loads, changes and saves it on its own |
| Datasets and models | `datasets.py`, `models.py` | directories | resume, delete an episode, throw away, list, remove | LeRobot's editor, the recording | commands that fail half way |
| Training host | `spark.py` | directories on another machine | push a dataset, pull a checkpoint, the side job | rsync and ssh | lost answers and repeated attempts |
| Others | diagnostics, calibration files, sensors' controls, screens, scripts | files and devices | sequential, or device I/O | | see [What is not modelled](#what-is-not-modelled) |

What makes the parts correct, in words:

- **Owner locks.** A device has one owner at a time; a call gets all the devices it asked for or none; competitors cannot
  refuse each other for ever; what is released or belonged to a dead process can be taken again.
- **HUBq.** A living worker owns its devices through crashes and restarts of HUBq, and is on record so that it can be
  listed, renewed, expired and stopped; the verdict on an ended job stays; devices come back; leases are enforced; stop
  calls return and a worker of a kind that may be killed is.
- **Virtual leader.** An arm that is told to stop stays where it is, whatever overtakes what; a late command never moves
  it; nobody takes over from afar; the state tells whether the motors hold; an unattended arm stops; a retreat ends. The
  force on a blocked joint has a bound, a trip needs its window, and a feel that was tuned is the one in force after a restart.
- **Recording.** Broken and aborted attempts never get into the dataset, the status tells the truth, nothing is silently
  lost, a dead bus does not keep the session for ever, and what is told of the quality adds up.
- **Replay.** The arm is never given a goal off the path from where it stands to and through the episode; a stop is obeyed
  at once and leaves the torque on.
- **Policy.** A break of the connection ends in a hold and at most one late action; a person's stop is not mistaken for a
  break; a policy starts only near its home pose; a stop is obeyed while the checkpoint loads and, unless the server keeps an
  observation for ever, in the rollout; the side job of a living trial stays.
- **Console.** Stop means everything; a late stop of one phone spares another's session; a relay is always attended.
- **Cameras.** A viewer who leaves does not take the picture from another; a camera that is told to stop comes free.
- **Perception.** A camera's place is never used with another lens than the one it was found through; a lens that nobody
  discarded stays on file.
- **Datasets, models, training host.** No request destroys a demonstration; what is listed is whole, here and on the
  training machine.

The hazards behind these, each at its line, are listed in `PROJECT.json` with the properties that would catch them.

## The modules

| Module | What | Uses |
|---|---|---|
| `ExclusiveGrants` | The promise of a lock: owners are granted disjoint sets of devices, all at once | |
| `OwnerLock` | `DeviceLockSet.acquire` and `release` in several processes | refines `ExclusiveGrants` |
| `HubqJobs` | the job registry, its threads, its workers and callers | refines `ExclusiveGrants` |
| `SafetyStates` | What SAFETY.md asks of whoever commands the follower: its states, one authority, nothing goes on after a stop | |
| `VLeader` | the control loop, the leases and the handlers of the virtual leader | refines `SafetyStates` |
| `Ladder`, `Tuning` | the virtual leader's arithmetic: leases, checks of a command, leads, end stops, retreats, trips; profiles and tunables | |
| `Recording` | a recording session: main thread, control listener, keys | |
| `Quality` | what a recording counts, samples and adds up | |
| `Alignment` | the interpolation every automatic movement shares | |
| `Replay` | the replay worker, its listener, the servos and the manager | `Alignment` |
| `PolicyTrial` | one rollout: main thread, signals, the client of the remote server | |
| `PolicyManager` | the console's side of trials, the side job, restarts | `PolicyTrial` |
| `Console` | the requests that start and stop modes, over HUBq and the managers' handles | |
| `Cameras` | one camera: capture thread, streams, hand-over to a mode | |
| `Perception` | the hub and the calibration job over one rig file | |
| `Storage` | datasets and models on this machine and the training host | |
| `LadderChecks`, `QualityChecks` | assumptions about the operators of `Ladder`, `Tuning` and `Quality` over bounded inputs | |
| `MC…` | the small instances for TLC | the module of that name |
| `…_proof` | the theorems; those about `Ladder` and `Tuning` are in `VLeader_proof`, about `Storage` in `Recording_proof`, about `Perception` in `Cameras_proof` | the modules it proves about, TLAPS |

A definition whose comment begins with "mutant:" is a plausible bug, listed in `PROJECT.json` with the property that must
notice it; no specification uses one.

### ExclusiveGrants

`grant` gives each owner the set of devices it has. `Grant` gives a set of free devices at once, `Revoke` takes everything
back. It is what ADR 0003 asks of device ownership, and two modules at different levels are shown to implement it.

### OwnerLock (`src/soarm_console/owner_lock.py`)

A process `p` calls `acquire` for any non-empty set (`Begin`), takes the flocks one by one in the order of the sorted
paths (`Lock`, `IsNext`), each followed by truncating and writing the owner's name (`Truncate`, `Write`); a flock that is
taken ends the attempt (`Conflict`), and the clean-up returns one device a step (`ReleaseOne`, `Refused`). Writing the name
can fail (`WriteFails`, `Failed`), and a process can die anywhere (`Die`), upon which the kernel releases its flocks.
`flock` is the kernel's state, `meta` the name in each file, `held` the list `locks` of the call, `pc` where the call is.
The ledger's readers and its wording are left out; the inheritance of descriptors is modelled in `HubqJobs`.

### HubqJobs (`src/hubq/jobs.py`, `src/hubq/app.py`, `mobile_watchdog.py`, `hubq_client.py`)

A member of `Job` is one start request and the record it leaves. The variables `state`, `lease` (ticks until
`lease_expires_at`) and `asked` (`expiry_stop_requested_at`) are that record, on disk and in memory: the code changes and
writes it under one lock. Only the record that calls a job running may fail to be written: `unwritten` has the jobs that are
running in memory and still "starting", without a process, on disk, until a later change writes the record anew (`Saved`).
A crash leaves what is on disk (`Forgotten`), and the restart takes that for the job. `proc` tells whether the worker is alive, dead but not waited for, or gone; `flock` and `fds` are
the kernel's locks and the descriptors HUBq has open. The registry lock is a variable only where it is held over several
steps: from `StartLock` to `StartCommit` or `StartFail`, and from `StopEnter` to `StopSignal`.

| Code | Actions |
|---|---|
| `start` | `StartLock` (refresh, conflict, device locks, durable "starting"), `StartLeaks` (the same, but the log's directory or the record cannot be written), `StartSpawn`, `StartCommit` (pid, "running", watcher, or a record that is not written and no watcher), `StartFail` |
| `_watch` | `WatchReap` (wait returns), `WatchRecord` (under the lock), `WatchUnlock` |
| `_refresh`, `list`, `describe` | `Refreshed`, `Observe`: a record whose process is gone is lost |
| `heartbeat`, `mobile_heartbeat` | `Heartbeat`, `MobileHeartbeat` |
| `stop` | `StopEnter`, `StopSignal`, `StopPoll`, `StopTimeout`, `StopGiveUp`, `StopKill`, `StopFinish`, for any caller |
| `expire_due` | `ExpireScan` (marks all due jobs), then `stop` on each, `ExpireRearm`, `ExpireRaised` |
| `reconcile` | `Restart` |
| `mobile_watchdog` | `MobileWatch` |
| `emergency_stop` | `EmergencyStop` |
| HUBq dies, another program takes a device, time passes | `Crash`, `OtherTakes`, `Tick` |

`Faults` chooses what may fail: HUBq dies, at any moment ("crash"), the mark of the inherited locks raises ("mark"), writing
the first record of a job raises ("record"), or the running one ("commit"). Left out: sidecar processes, the tail of the log, the
validation of requests, and reuse of process ids (the code compares start times, `_alive`).

### VLeader (`src/soarm_console/vleader`)

The control loop (`pc`) takes pending requests under the lock, sets the torque on the bus off the lock, reads the arm,
decides under the lock and writes off the lock; the HTTP and WebSocket handlers come in between. Reading and deciding are
one step: between them the code touches nothing that others share. `Submit` is the whole path of a command through
`authority.active`, `CommandValidator` and `_submit`; a refused command changes nothing and has no action. `POST /lease` and
`DELETE /lease` are the steps they are in the API, each under a lock of its own: `GrantAsk` looks at the loop and its state,
`Grant` takes the lease, however late, `GrantLook` and `GrantResume` resume an arm whose operator went away; `Release` and
then `ReleaseHold`. `stop()` asks the loop to end (`LoopEnd`) and cleans up after it (`StopFinish`).

`torque` is what the backend set last with success and what the code goes by; `stiff` is what the motors have. The two part
when `set_torque` raises after some or all motors took the write (`LoopTorqueFails`), or when a start fails after
`configure()` (`StartFails`); the next start reads the motors.

The arm is one joint with poses `0..Top`. The servo moves one pose per written tick or is blocked; a limp arm is moved by
hand when it is read. One pose is the lead and the sync tolerance: what the code clamps to, and what it demands of a new
leaseholder. A lease may expire at any time. `age` tells how old the last command is, in the two steps the loop
distinguishes. Telemetry and a `stop` whose join times out are left out; relay mode (the arm belongs to the recording
worker) is in `Console`, and the numbers are in the next two modules.

### SafetyStates (`SAFETY.md`, and what `VLeader` makes of it)

`mode` is SAFETY.md's state, with STOPPED when there is no loop; `authority` is who may command the arm, if anybody; and
`matched` tells whether that one has commanded it from where it is. `Command` makes the arm ACTIVE, for the authority only and
never from HOLD, FAULT or STOPPED; `Halt` takes the match away and may take the authority; `Entrust` gives the authority when
nobody has it, unmatched, in any mode: a grant that was checked before the loop stopped is given after it, and begins from
the arm's pose like any other. `VLeader` implements it (`Modes`): RETREATING is a way to be in HOLD, the authority is the holder
of the lease, and the match is the lease without `needs_sync`. That every step of the loop, of the bus and of the handlers is
one of these few steps or none of them is what rules out a path that stops without `require_resync`, that goes from a stop
to motion at once, or that changes the lease and keeps the match (`StoppedIsUnsynced`, proved by itself, is what
`NothingGoesOn` says of `VLeader`). The document also has SAFE refuse commands, which the code does not do in every case
(see the disagreements below); `Command` does not exclude SAFE for that reason.

### Ladder and Tuning (`vleader/authority.py`, `safety.py`, `spec.py`, parts of `owner.py` and `api.py`)

What `VLeader` abstracts, as operators over integers: `authority` (a lease is a set of at most one record), the checks of
one command in their order, `clamp_lead`, the speed written to a servo, the end stop's latch, the goal of a retreat, the
detector of trips and warnings as a function of the times since which each condition holds, and profiles, tunables and the
lines they leave in `config/soarm.env`. Rounding tolerances are zero, since integers need none. `LadderChecks` states what
they promise as assumptions over bounded inputs; the run `VLeader` evaluates them before it explores.

### Recording (`src/soarm_console/recording.py`, `record_manager.py`, `vleader/teleoperator.py`)

The main thread is LeRobot's `record()` and `record_loop()` as this repository uses them, external code modelled from
`recording.py`'s wrapper, its comments and its tests, and the parts that the repository replaces: `_record_loop_with_status`
(`Enter`, `Clear`, `Open`, `Failed`, `FailedAgain`, `Close`), `_save_episode_with_status` (`Save`, `SaveDone`,
`SaveFails`), the keyboard listener (`ListenRead`, `ListenUnlink`, `ListenLook`, `ListenWrite`) and `main` (`Start`,
`Over`). The two threads share the events `exit`, `rerecord` and `stop` without a lock: the listener looks at
`_loop_running` in one step and sets each event in another (`todo`). `Press` is `RecordManager.control`, which replaces the
control file. `Dies` is `RecordManager.stop`'s interrupt or any other error. A tick is a frame, in which the virtual leader's
`get_action` may end the session once (with a leader arm it never does).

`broken`, `hit`, `condemned` and `extra` are history variables: the bus failed during the episode in the buffer, the loop
at which the listener looked still runs, abort has struck the episode in the buffer, and how many episodes began after the
end was asked for. When the process ends, what it had in memory is forgotten, so `Over` resets it.

### Quality (`recording.py`, `sensors.py`, `record_manager.py`)

The counts of one frame (stale cameras, failed and implausible readings), the loop's rate over a window of samples, the
slow ticks told in the log, the throttled previews, and `_merge_session_quality`, which joins a session's counts with those
on file. `QualityChecks` compares them with counts over all frames; the run `Recording` evaluates it.

### Alignment and Replay (`replaying.py`, `replay_manager.py`)

`Alignment` has `alignment_seconds`, `alignment_frames` and `smoothstep` without rounding except where the code rounds. In
`Replay` the main thread goes from its checks over the connection (`SyncGoal` writes the present pose as goal, `Configure`
turns the torque off for a moment and `Enable` on again) through the alignment and the episode, one look at the listener
(`Look`) and one command (`Send`) a frame; `Raises` is any error or interrupt on the way, also between the two steps of the
torque. `Listen` is `_StopListener`: it takes the file, then sets the event. The manager's `Start`, `Adopt`, `RequestStop` and `Stop` run in request threads; `Stop` waits, interrupts (`StopSignals`) and
gives up. `Handled` is a person or another mode moving the arm between replays. Poses are named by where they are on the
path; `after` counts commands sent after the listener had heard the stop.

### PolicyTrial and PolicyManager (`policying.py`, `policy_manager.py`)

`PolicyTrial` is one process. `handler` is what SIGTERM does at the moment: the process starts with the default, then sets a
flag, then interrupts the rollout, then sets the flag of the way home. `al` is `align_home` with its frames, its settling and
its deadline, `client` is `FailSafeRobotClient` with the helper that connects, the receiver, the watchdog of the time limit
and the queue of actions. `Break` is the connection failing under any of its users, `Cancelled` the errors our own end of
the channel causes. `client.sending` is the main thread inside `SendObservations`, which it calls itself between two actions:
while it is there neither an action nor a stop is looked at, until the call returns (`Sent`) or the connection ends. A pose is its distance from the alignment's target. `saw` is history: the policy moved the arm, the
connection broke, actions since.

`PolicyManager` adds the console: `lock` is its re-entrant lock, `call` where each request thread is, `watchers` the threads
that wait for a trial, `side` the job on the training host and `sideFlag` what the console believes of it. A start prepares,
asks for the side job, asks HUBq and is answered or not; a stop signals, waits, kills. A poll that takes over an unknown
trial asks HUBq (`AdoptAsk`) and puts the answer into the manager (`AdoptLands`), without the lock and whatever happened in
between: `answers` has those on their way. `Restart` is a restart of the console. Two handles of one trial are distinct objects in the code (`is`), so a
handle says who made it.

### Console (`app.py`, with the managers' `start`, `stop`, `running`, and `hubq/claims.py`)

HUBq's registry is reduced to what the console can tell of it: the newest job, the devices it holds, whether HUBq answers.
`Claim` asks for the devices, `Doctor` is the check that takes the arms for itself, `Relay` makes the virtual leader hand
the follower over, `Spawn`, `Answered`, `Failed` and `Refused` are what a manager's start comes to, with the answer
possibly lost. `StopAll`, `StopLook`, `StopJob`, `StopAnswers` are `mode/stop`, manager by manager; `PhoneStop` compares the
session and `PhoneSignals` stops the job, with the lock let go in between. `WatchExit` is the watcher of a virtual
recording, `Restart` a restart of the console. A manager without a handle that is polled asks HUBq (`PollAsks`) and puts the
answer in its place later (`PollLands`), also one that says there is no job, and also over the handle of a start that came
in between. `Relay` may refuse after the follower was let go of, and a second relay leaves the loop of the first one running
(`stray`), which the console does not know any more.

### Cameras (`cameras.py`)

`th` is the capture thread's place, `letgo` the last step of a thread that has cleared itself but not yet returned the
device's lock. `Acquire`, `Release`, `StreamEnds` and `StreamRaises` are the streams, `Configure` a change of the profile,
`StopWorker`, `StopReturns`, `StopTimesOut`, `ModeStarts` and `ModeEnds` the hand-over to a mode, `Unplugged` a camera that
fails. The thread forgets a change that it saw before it opens the device (`Profile`, then `Open`), so that one that comes
during the opening opens it again. A stream that ends in the camera's error does not get to `release`: the web framework is external, and whether it
runs the background task then is left open.

### Perception (`perception/`)

Hub and job each load, change and save the rig. A save is three steps: opening empties `rig.tmp` (`Truncate`, `SaveOpen`),
then the text is written (`Write`, `SaveWrite`), then the file is renamed (`Replace`, `SaveReplace`); both use the same name.
`dest` tells where the file a process has open is by then: still `rig.tmp`, already `rig.json`, or nothing with a name, when
the other one's rename came first. A file is what `store.load` makes of it, so an empty or torn one is a rig without
anything. `crossed` is history: one began to save while the other was at it. The hub's lock is `op` where it is held over several steps. `Detect` and `Collect` are the worker, which
detects off the lock; `SolveEnds` is the thread of `_solve`; `Reload` compares the file's time. The job boots, moves,
captures, solves places, saves and returns; it may be killed anywhere. Lenses are numbers, one per solution; a place is
the number of the lens it was found through.

### Storage (`datasets.py`, `models.py`, `spark.py`)

A copy of a dataset says for each file which version of the dataset it is of. `Push` checks, `Mkdir`, `Rsync` (file by file,
in any order), `Remove` (file by file, then `Removed`) and `Move` are the commands of `push_dataset`; each can fail half way
(`PushFails`), and an `rm -rf` may go on on the host after its request gave up (`LateRemove`). `cut` tells that an `rm -rf`
began on the copy in place and did not get through. The editor of episodes removes an `_old` that is there (`EditClears`),
moves the dataset to `_old`, writes the new one and tidies up; it may fail or be killed in between, and the request after
that is not refused. Pulls of one model by several requests, in which rsync looks at each file (`PullLook`), receives those
that differ and may leave a piece in their place (`PullBreaks`), and removals (file by file) interleave. `cleared`, `shrunk`
and `torn` are history: the backups an edit removed, whether the dataset shrank between pushes, and what took from the
model. `half` chooses whether a
behaviour is about the dataset or the model: they share no state.

## The runs

| Run | Instance | Distinct states | Shows |
|---|---|---|---|
| `OwnerLock` | three processes, two devices, all sets | @OwnerLock@ | nothing is kept after a refusal, release or death; sorted try-locks let somebody win; `ExclusiveGrants` is implemented |
| `HubqJobs` | a phone teleop and a policy over one arm, a policy over another; crash and commit faults | @HubqJobs@ | a living worker owns its devices and is on record, or its record was never written; verdicts stay |
| `HubqLive` | a phone teleop and a policy over one arm; crash and record faults | @HubqLive@ | devices come back; expired jobs are stopped, and again when they outlive it; killable workers die; a phone's worker stops itself while HUBq is down |
| `VLeader` | two people, three poses, retreat of one tick; the assumptions of `LadderChecks` | @VLeader@ | a held arm stays; the state tells the torque; `SafetyStates` is implemented, so that stopping takes the sync away; an unattended arm stops |
| `Recording` | resumed dataset, two episodes of up to two ticks, two failures; the assumptions of `QualityChecks` | @Recording@ | what gets into the dataset and what the status says; a dead bus ends the session |
| `Policy` | two trials, remote with a home pose or local without, one request thread, one restart | @Policy@ | a break holds and lets at most one late action through; our own end is no break; a policy starts aligned; a living trial's side job stays, but for a start that fails after a poll adopted the trial; a stop ends a remote trial, but for an observation that stays with the server |
| `Replay` | two replays of two frames over four distances; the assumption `PeakSpeed` | @Replay@ | the arm follows the path frame by frame; at most one command after the stop |
| `ReplayStop` | one replay | found at once | what the documents say and the code does not do, see below |
| `Console` | two starting requests, one phone and the Mac, two jobs, one restart | @Console@ | stop-all stops all it could know; a late stop spares other sessions; a relay is attended |
| `Cameras` | two viewers, two streams that break | @Cameras@ | the last viewer and only the last ends the capture; a camera told to stop comes free |
| `Perception` | two cameras, one view and one pose, two lenses and one calibration | @Perception@ | no place beside a lens it was not found through; no lens lost that nobody discarded, while no two saves crossed |
| `Storage` | three episodes, three pushes one at a time, three pulls (two at once) and removals | @Storage@ | the training machine lists whole datasets, except one that is being removed; no demonstration is destroyed; offered models are whole |

Deadlock checking is off where the system may stop: processes all die, no more requests arrive, a session ends, the bound
on what may be started is reached. `Cameras` checks for deadlock: there something is always possible.

**The assumptions about operators.** TLC evaluates them before the run that extends their module.

| Module | Assumption | What it says |
|---|---|---|
| `LadderChecks` | `LeadIsBounded`, `SpeedIsALimit` | the goal that is written stays within the limits and within the lead of the arm; the written speed is never 0, and a faster setting is never slower |
| | `AcceptedIsSafe`, `LeaseIsExclusive` | an accepted command is of the leaseholder, newer than all before, and within limits and sync; a lease is never taken from a living holder |
| | `EndStopLatches`, `RetreatOpposes` | a joint at its end is not pushed on and comes free when turned back; a retreat goes against the push, bounded and in range |
| | `TripsAreSustained`, `WarningsAreSustained`, `CurrentIsIgnored` | nothing trips or warns before its window is over, and what lasts does; a threshold of 0 switches off |
| | `ProfilesAreConsistent`, `TuningSurvives` | a profile is within what may be tuned and stops a blocked joint before the lead is used up; a tuned feel is the one after a restart, except in the case told below |
| `QualityChecks` | `SessionsAddUp`, `OldFilesJoin`, `EachRunIsTold` | joined sessions count what all frames would, whichever format the file had |
| | `DeadWorkerCountsTwice` | what the code does when a worker dies before its first status, told below |
| | `FirstSlowTickIsLeftOut`, `PercentileTookPlace`, `WindowsAreShort` | the rate's samples and previews |
| | `RepeatedReadsAreMarked`, `SameBufferIsStale`, `UnknownIsNotEmpty` | a repeated reading or image is marked as such, and an episode of unknown length is not skipped |
| `MCReplay` | `PeakSpeed` | the alignment's speed limit and its times, also proved (`SpeedLimit`, `FramesFit`, `CurveAdvances`) |

**Bounds, and why they are enough.**

- *OwnerLock*: a wrong order or clean-up needs two devices asked for from both ends, and a third process that comes while
  one of them cleans up.
- *HubqJobs*: two jobs compete for an arm; a third of the same kind on another arm is what only the registry's own check can
  refuse. `MobileLimit` and `Grace` are one tick: the code compares with the deadline and does nothing at intermediate
  times. One client and the expirer stop jobs at the same time; clients share nothing but the record.
- *VLeader*: three poses let the arm be at, next to and away from a pose, with an end of the range on both sides; two people
  are enough for a lease that changes hands while the first one's call is half done. `RetreatTicks` 1 lets a retreat end by
  its time as well as at its goal. `asked` stands for any number of grants that have passed the check. The people are not symmetric in the configuration, because a refinement and a
  liveness property are checked in the run.
- *Recording*: two episodes give a reset in the middle and the last episode, which has none; two ticks tell a first frame
  from a later one and let frames of a discarded attempt overflow into the next; two failures (the code has three) give one
  that is forgiven and one that is not. Keys are not bounded. One earlier episode tells a resumed session's count from
  that of a new one.
- *Policy*: the second trial meets what the first one left: its watcher, its side job, its handle. Answers of one action
  (`Chunk` 1) fill and empty the queue; the two modes differ in both of their aspects, and the properties distinguish each
  aspect only in a mode that has it. One request thread holds the lock while the watcher waits for it; a second
  one could only wait too. Polls that ask about one trial at the same time are one in `answers`: they get the same answer,
  and may put it in place again and again. The proofs are for any of these numbers.
- *Replay*: `Hz` 10 keeps the shortest alignment at twenty frames; the distances are chosen so that the shortest time, the
  limit of degrees, the limit of percents and the longest time decide in turn. The second replay finds what the first one
  left in the servos and the control file.
- *Console*: two starts race for the same arm or hand over to each other; the second job is what a late stop or an old
  watcher may hit by mistake. One poll is on its way at a time: that one lands late is what matters, and two that do would
  land one after the other. A poll of any manager may be the one; `PollAsks` of a manager that finds nothing is in the model
  where it changes the handle (teleop; the others leave it alone then).
- *Cameras*: one viewer leaves while another watches; two broken streams let the count of clients drift twice.
- *Perception*: two cameras, since the calibration needs all lenses but places each camera alone; the second lens is the
  one that is not the one a place was found through; one calibration meets any number of saves of the hub. The cameras are
  symmetric.
- *Storage*: from three episodes one can be taken out and another recorded after it, so that versions of the same length
  with other contents exist; the third push meets what two failed ones left in `.incoming`. Two requests that pull the one
  model run beside each other, and a third pull or removal comes after or between. Episodes and requests are symmetric.

**Fairness.** It is assumed only of what runs by itself.

- *HubqJobs*: HUBq's threads run, time passes, the phone's guard thread runs, and a worker that was sent SIGKILL dies. Steps
  that need the registry lock, which others take again and again, have strong fairness: Python's `RLock` gives no order, but
  every holder lets go and the waiting threads are few. Not assumed: that HUBq is restarted, that a worker obeys SIGINT or
  SIGTERM or ends by itself, that a heartbeat or a stop arrives.
- *VLeader*: the control loop runs, and when it has ended the `stop` that waits for it cleans up (the two are one thread
  after the other: WF of `LoopStep \/ StopEnds`); the clock advances. Nothing is assumed of people.
- *Recording*: the main thread runs. Nothing is assumed of the listener, of keys, of the bus; that the worker dies or a save
  fails is possible, never required. `DeadBusEnds` excepts a person who presses keys for ever: discarding each attempt before
  its first tick goes on as long as they do.
- *Policy*: the main thread runs where it does not wait for the server, the alignment's deadline passes, and the watchdog acts
  once a stop was heard. Nothing is assumed of the server, of the connection, of HUBq or of people. While the main thread is
  inside `SendObservations` it does not run, for as long as the server likes, so that `RemoteStopEnds` has the premise that
  no observation stays there for ever; during the load it needs none, since a helper thread waits for the server.
- *Cameras*: the thread goes on from where it waits for nothing but the kernel (`TakeLock`, `Halted`, `Cleared`,
  `GiveBack`), an opening returns (`Open`), and a stream that is told to stop ends and is released. That a camera delivers
  is not assumed.
- *OwnerLock, Replay, Console, Perception, Storage*: safety only, no fairness.

## The proofs

All of them hold for every value of the constants that the modules' named assumptions allow (names are distinct, limits are
positive), hence for any number of processes, jobs, people, poses, episodes, trials, viewers and devices.

| Module | Theorems | Along which invariant |
|---|---|---|
| `OwnerLock_proof` | `TypeCorrect`, `HoldersOwn`, `NothingIsKept`, `ImplementsGrants`, `GrantsAreExclusive`, `NoTwoHolders`, `OrderLetsSomeoneWin` | a device in the list of the call is locked and names the process (`Owned`), as is the one whose name is being written (`Taking`); the list is all of the set while it holds (`Whole`) and empty after a refusal, release or death (`Empty`); any other flock is that of an acquire that is writing, or failed to write, its metadata (`Kept`). That somebody wins: what a process has is below what it has still to take (`Sorted`), and while anybody is refused, somebody has won or has a device above all that the refused still have (`SomeoneAhead`) |
| `HubqJobs_proof` | `TypeCorrect`, `LiveChildrenOwn`, `LiveJobsManaged`, `VerdictsKept`, `ImplementsGrants`, `GrantsAreExclusive`, `NoTwoDrivers` | HUBq's descriptor or a living worker keeps each device of a job (`Owns`); what HUBq's steps may still do to the descriptors: a start in progress (`Starting`), a watcher (`Watching`), a job not yet asked for (`Unstarted`); what is running in memory and not on disk (`Promised`); every stop call is on a job (`OnJob`) |
| `VLeader_proof` | `TypeCorrect`, `HeldArmStays`, `StateIsTorque`, `StopsUnsync`, `StoppedArmStays`, `FirstReasonShown`, `ImplementsStates`, `StatesLetNothingGoOn` | what the loop knows between its steps (the arm is where it was read; a request that did not raise took effect; once armed there is torque, once released none), and that a write which is under way in HOLD goes to the held pose or was decided while the arm had not left it. For the refinement also: without a loop nobody has the lease (`Off`); then each group of steps is mapped (`PeopleStand`, `LeaseStands`, `AroundStands`, `DecisionStands`) to the step of `SafetyStates` it does |
| | on the operators of `Ladder`: `LeadIsBounded`, `SpeedIsALimit`, `RetreatOpposes`, `AcceptedIsSafe`, `GrantIsExclusive`, `CommandsCountOnce`, `LeaseStaysWithHolder`, `EndStopLatches`, `TripsAreSustained`, `LastingTrips`, `WarningsLast`; of `Tuning`: `TuningSurvives` | no invariant: for all limits, readings, settings, times and requests. That there is a first condition to trip is the well-foundedness of the naturals (`LeastNatural`, `FirstCheck`); `TuningSurvives` is a step of an induction over changes: a file from which the start reads what is in force becomes another such file |
| `Recording_proof` | `TypeCorrect`, `BrokenNeverSaved`, `AbortedNeverSaved`, `NeverMixed`, `ReportIsTrue`, `AllAccounted`, `OneMoreAtMost` | what has to be thrown away is marked by `rerecord_episode` from the failed tick, or from the first event of abort, until `record()` has thrown it away; the frames in the buffer are the ticks of the loop; every episode counted by `record()` is saved or was empty; after an episode was begun too late none is on its way |
| | on `Storage`: `StoreTypeCorrect`, `DemonstrationsStay`, `PushedDatasetsAreWhole`, `ListedModelsAreWhole` | `StoreInv`: what is under the dataset's name and its backup is each one version of it, and an edit meets no recording and makes a version of what it found (`OneVersion`, `Editing`); of one push at a time, what is not left to send is on the other side as the dataset has it (`Alone`, `Arrived`), and while the dataset did not shrink there is nothing else there (`Within`); a removal marks every pull it meets (`Met`), what a pull does not want any more is whole unless something took from it since (`Known`), and pulls that overlap know it (`Beside`) |
| `Replay_proof` | `FramesFit`, `CurveAdvances`, `SpeedLimit`; `TypeCorrect`, `OneAfterStop`, `ArmDoesNotLeap`, `TorqueIsKept` | the goal of the servos is the one before the frame the main thread is at (`Path`); only a frame looked at before the stop is sent after it (`Heard`) |
| `Policy_proof` | `TypeCorrect`, `BreakHolds`, `OwnEndIsNoBreak`, `OneAfterBreak`, `StartsAligned`, `SideStays` | the client's threads live only while the policy drives (`ClientLives`); our own end is marked before the channel is closed (`Marked`), so a failure is recorded only by a break, and every break is recorded (`Recorded`); after the way home has begun no break can follow the policy's motion (`Moved`); at most the action in hand goes out late (`Late`); the distance at the start is the alignment's (`Near`); the request that has the lock while it starts a trial meets a trial in the manager only if a poll put it there (`Own`) |
| `Cameras_proof` | `TypeCorrect`, `WatchersStay` | no later thread has the lock while the last step of an earlier one still has it (`OneThread`); the count of clients is that of the streams and of those an error ended (`Counted`) |
| | on `Perception`: `RigTypeCorrect`, `NoPlaceOfAnotherLens`, `LensesStay` | `RigInv`: while no two saves met, the temporary file is that of the one who saves (`Alone`), and what may be written over a rig, from memory or by the job, has lost no lens but a discarded one (`Kept`); every lens anybody knows was solved before (`Solved`); the job works with a rig without gaps (`ReadWhole`) |
| `Console_proof` | `TypeCorrect`, `RelayIsAttended`, `StopStopsEverything`, `LateStopSpares` | a job holds exactly what its mode needs (`Holding`); the relay has a watcher or a request that has passed it (`Attended`); while the job that stop-all promised to stop lives, the stop has not passed its manager, which knows it or has no handle, and no late answer is on its way to it (`Promised`); a phone's stop is on its own job or an older one (`OwnTarget`) |

Why the invariants have to be stronger than the properties: a step that saves tests `rerecord_episode` and nothing else, so
that a broken episode is not saved follows only from the mark being set wherever it was broken and never cleared in
between; a held arm stays only because of what is known of the write that was decided before the hold; a living worker
keeps its lock only because of who else could have the descriptor; a policy's way home tests the client's `failure` and
not the connection, so that a break suppresses it follows only from the failure being recorded by whoever meets the break
first, and by nobody else. That no lens is lost although two processes save the rig unasked follows from what each of
them may have read before the other wrote, and that somebody wins from who is ahead of whom, which no single process knows.

`LiveChildrenOwn`, `LiveJobsManaged` and what follows from them assume `"mark" \notin Faults`: if the mark of the inherited
locks raised after the spawn, HUBq would close its descriptors and call the job failed. The workers whose running record was
never written are excepted in `LiveJobsAreManaged` itself (see below).

`PushedDatasetsAreWhole` assumes `~Shared`, one push at a time of a dataset that nobody records into, edits or throws away
meanwhile; with `Shared` TRUE it is false, as told below. Between pushes the dataset may be edited. `LeadIsBounded` bounds the distance from the arm only for a joint that stands within its limits,
`TripsAreSustained` is about joints that are numbered, and `TuningSurvives` excepts a request with a profile and a value of
its own, for which it is false. Each of these is the range in which the code keeps the promise.

`Cameras_proof` and `Recording_proof` each extend two modules of the model; the definitions of `Perception` and `Storage`
therefore have names of their own (`RigSpec`, `RigTypes`, `StoreSpec`, `StoreTypes`, ...).

`FramesFit`, `CurveAdvances` and `SpeedLimit` are about the operators of `Alignment`, for every rate of frames and every
distance: the speed limit is kept up to the half frame by which the number of frames is rounded.

Each module's proof has one lemma per part of the invariant and one case per group of steps, so that a change of an action
shows which promise it touches.

Every invariant and every action property of the runs is proved, so that only these are model-checked: the liveness
properties, `DevicesComeBack`, `ExpiredIsStopped`, `StopKills`, `PhoneLossStops`, `UnattendedStops`, `DeadBusEnds`,
`RemoteStopEnds` and `StopFreesCamera`, which need fairness and ENABLED, out of the prover's reach; and, over bounded
inputs, the assumptions of `QualityChecks` (they count over a session's frames, and what a recursive definition computes for
every input needs induction over data), and of `LadderChecks` `CurrentIsIgnored`, `ProfilesAreConsistent` and what
`TripsAreSustained` says of three readings in a row: the theorems say what one reading does to any clocks, not what a whole
run of readings does.

## Where the code and its documents disagree

One disagreement has a run of its own. `ReplayStop` finds `StopNotLost` violated: `run` deletes the control file when the
replay's process boots (`replaying.py:512`), so a stop that was asked for between the start of the job and that moment is
gone, the listener never hears it, and the arm goes on to align and replay. `POST /api/replay/stop` (`app.py:1054`) and
`_StopListener` (`replaying.py:373`) say that it stops where it is.

The models have the following as well. The properties of the passing runs are stated so that they hold in spite of them.

| What happens | Where | Says who |
|---|---|---|
| An acquire whose metadata write raises keeps the flock it has just taken until the process ends: it is not yet in the list the clean-up returns | `owner_lock.py:226` | `ADR/0003-device-owner-lock.md:36`: whatever was taken is returned when one fails |
| HUBq dies between the spawn and the running record, or that record cannot be written and HUBq dies later: what is on disk says "starting" without a process, the restart calls it lost, and nothing leads to the worker that drives the arm | `hubq/jobs.py:281`, `300-309` | `docs/HUBq.md:40-44`: a matching live process becomes a running job |
| A start whose log directory or first record cannot be written keeps the devices' locks, with no job to stop, until HUBq dies | `hubq/jobs.py:220`, `255` | `ADR/0003-device-owner-lock.md:36` |
| A phone session that expired can be renewed again after the stop of its worker timed out | `hubq/jobs.py:422` | `docs/HUBq.md:66-67`: late heartbeats never resurrect |
| HUBq dies between the durable expiry request and the signal: after the restart nobody stops a job that has no guard of its own | `hubq/jobs.py:400` | `hubq/jobs.py:417-418`, `docs/HUBq.md:56-57` |
| A hold that is pressed while the loop is setting the torque is overwritten by READY | `vleader/owner.py:725-733` | `SAFETY.md:194-197`: HOLD is left by a new lease or an explicit transition |
| A grant that was checked before the loop stopped, or went to SAFE, is given after it; its first command still has to match the arm | `vleader/api.py:525-532` | `vleader/api.py:526-529`: enable torque first |
| After a bus error the loop drives the arm back to the pose of the last hold, arm or resume | `vleader/owner.py:870` | `vleader/owner.py:868-869`: it keeps writing where the arm is now |
| In SAFE a command is refused by the lack of torque, not by the state: a lease taken in HOLD outlives a resume into SAFE, and a command of it that comes when the servos already have torque but the loop has not yet written READY is accepted, takes SAFE to ACTIVE and is then overwritten | `vleader/owner.py:332` | `SAFETY.md:179`: SAFE refuses motion commands |
| esc or abort during the alignment before an episode lets that episode be recorded whole and saved | `recording.py:806` | `recording.py:793-795`, `RUNBOOK.md:131` |
| The status counts frames of discarded attempts | `recording.py:574` | its own comment, lines 577-581: equal to what the dataset has |
| A worker that dies before its first status leaves that of the session before, which is archived a second time, into whichever dataset it names | `record_manager.py:357` | the quality file's purpose |
| `configure()` of the replay's robot turns the torque off and on again; an error or a kill in between leaves the arm limp | `replaying.py:364`, `follower_start.py:60-62` | `replaying.py:375`: the torque stays on |
| A stop does not reach the main thread of a rollout that waits for the server inside `SendObservations`: the channel is closed only after the loop has returned; the manager's SIGKILL ends it | `policying.py:716-730` | `policying.py:718-719`: the end is ours, be it the time limit or a person |
| A poll adopts a trial that lives while a start of another one is on its way (HUBq was silent when it began); when HUBq refuses that start, its failure takes the side job the living trial uses | `policy_manager.py:179-190`, `366` | `policy_manager.py:539`: not the side of a newer rollout |
| A side job of a policy stays up after a trial that ended with an error when the training host does not answer the one call that stops it | `policy_manager.py:542` | `docs/design-notes.md:130`: taken down on errors and stops |
| Discarding a lens is undone by a calibration that was running: its save brings back the lens and the place with it | `perception/` | `app.py:1175`: the place is thrown away with it |
| The hub and the calibration write the same `rig.tmp`: opening it empties it, so that a rename of the other one in between puts an empty or torn file in place, which loads as a rig without cameras or lenses | `perception/store.py:185-189`, `166-177` | `perception/store.py:181`: no half-written file is left |
| The hub stores a new lens and drops the place found through the old one in two assignments, on an object that the estimator and the status read without the lock | `perception/hub.py:188-190` | its own comment: such a place does not fit any more |
| Two pushes of one dataset share `.incoming/<name>`: one moves what the other is still sending (with `Shared` TRUE `PushedIsWhole` fails) | `spark.py:638` | `spark.py:614-617`: this state does not arise |
| An `rm -rf` on the training host that is cut off, by its 60 s or by the host, leaves a copy that is still listed and lacks files | `spark.py:638` | `spark.py:614-617` |
| Files of an earlier version of the dataset that a broken push left in `.incoming` move along with a later one, after an edit took them out here | `spark.py:606`, `638` | `spark.py:606`: a dataset does not shrink |
| After an edit that was killed, or whose backup was not tidied away, the next edit's editor removes the `_old` that is there, the only copy of what was taken out | `datasets.py:288-309` | `datasets.py:284`: it goes to the trash |
| Two pulls of one checkpoint at a time: one that breaks off leaves a part of a file in the place of the other's complete one, after its manifest | `app.py:640-646`, `spark.py:665-676` | `models.py:214`: the manifest is built from the files received |
| A push during a recording that was resumed sends a dataset that grows | `spark.py:603` | `spark.py:606`: a dataset does not grow after recording |
| A poll that asked HUBq before a start puts its answer over the handle of that start: a stop, or stop-all, answers while the job lives; so does a start whose answer was lost | `teleop.py:98-103`, `record_manager.py:138-145`, `policy_manager.py:179-190` | `app.py:1253-1254`: the modes are all stopped |
| A relay that is started twice leaves the first one's loop running, which nobody can stop any more, and a relay that is refused has let go of the follower before | `vleader/api.py:340-369` | its own comment, lines 341-345 |
| `stop` returns when the thread has cleared itself, one step before it gives the device's lock back, so the start it was done for may be refused | `cameras.py:237-244` | `cameras.py:176-177`: until the lock is returned |
| A profile with a value of its own in one request leaves a file from which the next start reads another feel | `vleader/api.py` | `vleader/api.py:99`: it must live through the next restart |

Also seen while reading: `ReplayManager.stop` calls `_release_locks`, which the class does not have
(`replay_manager.py:119`), so a stop that is obeyed ends in an exception (`StopObeyed` has the outcome "raised"); a stream
that ends in its camera's error may stay counted as a client (`cameras.py:209`), and the camera is then captured for
nobody; `FAILURE_MODES.md:36` counts the reset among the times in which `right` and `left` are ignored, but during a reset
the loop runs and they are applied.

## What is not modelled

- *Several joints, images, URDF and calibration files*: data, numerical code, or files read once.
- *Virtual leader*: telemetry; a `stop` whose join times out while the loop hangs on the bus; for how many ticks the limits
  of two feels mix while a change is applied. In relay mode only who attends the relay is modelled.
- *Recording*: previews' encoding, sensor columns, file names, provenance, what `disconnect` does at the end, and the log.
- *Policy*: building the configuration, measured rates, the trace's content.
- *Console*: the handlers that only read, the log streams, static files. A relay whose recording ended while the console was
  down is left to the worker's own guard.
- *Cameras*: controls and modes of the kernel's driver; what the web framework does when a client disconnects is external.
- *Datasets*: playable clips (which share one partial file), descriptions, the checks of names. That LeRobot's editor removes
  an `_old` that is there before it moves the dataset is external code. Two edits of one dataset at once are not in the
  model; a push overlaps an edit, a removal, a recording or another push only with `Shared` TRUE, and the console's claims do
  not keep them apart. `DELETE` of a dataset on the training host is not in the model, and neither is an `mv` that takes
  effect there after its request gave up.
- *Training host*: starting, pausing and listing trainings, where the queue on the host is another program; the gap between
  the preflight of a start and its tmux session, the minute in a run's name, and the removal of a run that trains.
- *Diagnostics, torque release, calibration*: one-shot device I/O under the owner locks; the doctor is a step of `Console`.
- *HTTP, SSH, screens*: their requests are the environment of the models. *Scripts*: programs that take owner locks
  (`OtherTakes` in `HubqJobs`) and offline tools.

## The plan

The order is by how much goes wrong when the part does. Done: owner locks, HUBq, the virtual leader with the ladder's
arithmetic, recording, policy and replay, the console's modes, cameras, perception and storage, each with proofs; the
quality file, model-checked. What would add most next:

1. The detector of trips over a run of readings as a state machine, so that what lasts is shown to trip by an invariant.
2. That `LiveJobsManaged` and `LiveChildrenOwn` give back devices: the safety half of `DevicesComeBack`.
3. Several sessions of the recording manager in one state machine: which session's status, log and provenance are archived
   with which dataset, where `Quality` has only the operators.

## Running it

`tlc -workers 2 -config X.cfg M` checks the run `X` of module `M` (`PROJECT.json` lists the pairs), and `tlapm M_proof.tla`
checks the proofs of module `M`. The longest run takes about three minutes on two cores and the longest proof about three.
