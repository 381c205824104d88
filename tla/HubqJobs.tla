------------------------------ MODULE HubqJobs ------------------------------
(***************************************************************************)
(* HUBq's job registry: hubq/jobs.py, the expiry thread of hubq/app.py,    *)
(* the worker-side guard soarm_console/mobile_watchdog.py and the console's *)
(* emergency_stop.  HUBq takes the device locks of a job, spawns a worker  *)
(* that inherits the lock descriptors, watches it, renews and expires its  *)
(* lease, stops it, and finds it again after a restart.                    *)
(*                                                                         *)
(* A member of Job is one start request and the record it leaves.  state,  *)
(* lease and asked are that record, on disk and in memory: every change is *)
(* made and written under the registry lock, so a crash between the two is *)
(* a crash before the change.  Only the record that calls a job running may *)
(* fail to be written (unwritten); the one on disk then still says         *)
(* "starting", until a later change writes the record anew.  lease counts  *)
(* the ticks left.  The registry lock is a variable only where it is held  *)
(* over several steps.                                                     *)
(***************************************************************************)
EXTENDS Naturals, FiniteSets

CONSTANTS
  Job,         \* start requests
  Device,      \* hardware devices
  KindOf,      \* the kind of each job
  Needs,       \* the devices of each job
  LimitedJob,  \* jobs whose record has a lease: limit_seconds, mobile_session
  KillJob,     \* jobs of a kind with kill_after_timeout
  MobileJob,   \* teleop jobs with a mobile_session
  Client,      \* HTTP requests that stop jobs
  Expirer,     \* the thread that runs expire_due
  Nobody,      \* the registry lock is free
  Free,        \* the flock of a device is free
  Other,       \* it belongs to another program of the repository
  Limit,       \* ticks of limit_seconds
  MobileLimit, \* ticks of MOBILE_TELEOP_TIMEOUT
  Grace,       \* ticks of stop_timeout, granted after a stop that timed out
  Faults       \* what may fail, see below

ASSUME NamesAssumption ==
  /\ {Free, Other} \cap Job = {} /\ Free # Other
  /\ Nobody \notin Job \cup Client \cup {Expirer}
  /\ Expirer \notin Client /\ Job \cap (Client \cup {Expirer}) = {}
ASSUME NeedsAssumption == Needs \in [Job -> SUBSET Device]
ASSUME LeaseAssumption ==
  /\ Limit \in Nat \ {0} /\ MobileLimit \in Nat \ {0} /\ Grace \in Nat \ {0}
ASSUME KindsAssumption == MobileJob \subseteq LimitedJob /\ LimitedJob \subseteq Job

(* "crash": HUBq dies, at any moment, and is restarted; "mark":            *)
(* mark_inherited_owner raises after the worker was spawned; "record" and  *)
(* "commit": writing the first record, and the running one, raises.        *)
ASSUME FaultsAssumption == Faults \subseteq {"crash", "mark", "record", "commit"}

VARIABLES
  up,       \* HUBq is running
  state,    \* record["state"]; "none" before the request
  lease,    \* ticks until lease_expires_at
  asked,    \* expiry_stop_requested_at is set
  unwritten, \* jobs that are running in memory and still starting on disk
  loaded,   \* the records in JobRegistry._records
  proc,     \* the worker: "none", "alive", "zombie" (dead, not waited for), "gone"
  sig,      \* the strongest signal it was sent: "none", "stop", "kill"
  fds,      \* HUBq has the lock descriptors of the job open
  flock,    \* the kernel: who has the flock of each device
  watcher,  \* the _watch thread: "none", "wait", "reaped", "unlock"
  lock,     \* who holds JobRegistry._lock over several steps
  pc, on,   \* where each stop() call is, and the job it stops
  due       \* the rest of expire_due's list

registry == <<up, loaded, watcher, lock>>
record   == <<state, lease, asked, unwritten>>
worker   == <<proc, sig>>
locks    == <<fds, flock>>
calls    == <<pc, on, due>>
vars     == <<registry, record, worker, locks, calls>>

Caller   == Client \cup {Expirer}
Ended    == {"exited", "lost", "stopped", "failed"}

TypeOK ==
  /\ up \in BOOLEAN
  /\ state \in [Job -> {"none", "starting", "running"} \cup Ended]
  /\ lease \in [Job -> Nat]
  /\ asked \in [Job -> BOOLEAN]
  /\ unwritten \subseteq Job
  /\ loaded \subseteq Job
  /\ proc \in [Job -> {"none", "alive", "zombie", "gone"}]
  /\ sig \in [Job -> {"none", "stop", "kill"}]
  /\ fds \in [Job -> BOOLEAN]
  /\ flock \in [Device -> Job \cup {Free, Other}]
  /\ watcher \in [Job -> {"none", "wait", "reaped", "unlock"}]
  /\ lock \in Job \cup Caller \cup {Nobody}
  /\ pc \in [Caller -> {"idle", "signal", "poll", "giveup", "kill", "reap",
                        "rearm", "raised"}]
  /\ on \in [Caller -> Job \cup {Nobody}]
  /\ due \subseteq Job

Init ==
  /\ up = TRUE /\ loaded = {} /\ lock = Nobody /\ due = {} /\ unwritten = {}
  /\ state = [j \in Job |-> "none"]
  /\ lease = [j \in Job |-> 0]
  /\ asked = [j \in Job |-> FALSE]
  /\ proc = [j \in Job |-> "none"]
  /\ sig = [j \in Job |-> "none"]
  /\ fds = [j \in Job |-> FALSE]
  /\ flock = [d \in Device |-> Free]
  /\ watcher = [j \in Job |-> "none"]
  /\ pc = [c \in Caller |-> "idle"]
  /\ on = [c \in Caller |-> Nobody]

-----------------------------------------------------------------------------
(* _alive: the pid still has the start ticks of the record.  A dead worker *)
(* keeps its pid until the watcher has waited for it.                      *)
Exists(j) == proc[j] \in {"alive", "zombie"}

(* A registry operation that takes the lock and gives it back in one step. *)
Enter == up /\ lock = Nobody

(* _refresh of the records in S, given the record's state. *)
Refreshed(S) ==
  [j \in Job |-> IF j \in S /\ state[j] = "running" /\ ~Exists(j)
                   THEN "lost" ELSE state[j]]

(* A record that changes is written, and with it all that was not. *)
Saved == unwritten' = {j \in unwritten : state'[j] = state[j]}

Freed(j) == [d \in Device |-> IF flock[d] = j THEN Free ELSE flock[d]]

LeaseOf(j) == IF j \in MobileJob THEN MobileLimit
              ELSE IF j \in LimitedJob THEN Limit ELSE 0

-----------------------------------------------------------------------------
(* start(), under the registry lock from here to StartCommit: refresh all, *)
(* refuse a second job of the kind, take every device or none (OwnerLock), *)
(* write the record.  A refused start is List: it only refreshes.          *)
StartLock(j) ==
  /\ Enter /\ state[j] = "none"
  /\ \A i \in loaded : Refreshed(loaded)[i] = "running" => KindOf[i] # KindOf[j]
  /\ \A d \in Needs[j] : flock[d] = Free
  /\ flock' = [d \in Device |-> IF d \in Needs[j] THEN j ELSE flock[d]]
  /\ fds' = [fds EXCEPT ![j] = TRUE]
  /\ state' = [Refreshed(loaded) EXCEPT ![j] = "starting"]
  /\ lease' = [lease EXCEPT ![j] = LeaseOf(j)]
  /\ lock' = j /\ Saved
  /\ UNCHANGED <<up, loaded, watcher, asked, worker, calls>>

(* Making the log's directory or writing the record raises, before the try *)
(* that returns the devices: HUBq keeps their locks until it dies.         *)
StartLeaks(j) ==
  /\ Enter /\ state[j] = "none" /\ "record" \in Faults
  /\ \A i \in loaded : Refreshed(loaded)[i] = "running" => KindOf[i] # KindOf[j]
  /\ \A d \in Needs[j] : flock[d] = Free
  /\ flock' = [d \in Device |-> IF d \in Needs[j] THEN j ELSE flock[d]]
  /\ fds' = [fds EXCEPT ![j] = TRUE]
  /\ state' = Refreshed(loaded) /\ Saved
  /\ UNCHANGED <<registry, lease, asked, worker, calls>>

(* Popen: the worker inherits the descriptors. *)
StartSpawn(j) ==
  /\ up /\ lock = j /\ proc[j] = "none"
  /\ proc' = [proc EXCEPT ![j] = "alive"]
  /\ UNCHANGED <<registry, record, sig, locks, calls>>

(* Popen, or mark_inherited_owner after it, raises.  release() unlocks the *)
(* open file descriptions, which a worker that was spawned shares.         *)
StartFail(j) ==
  /\ up /\ lock = j /\ (proc[j] = "none" \/ "mark" \in Faults)
  /\ flock' = Freed(j)
  /\ fds' = [fds EXCEPT ![j] = FALSE]
  /\ state' = [state EXCEPT ![j] = "failed"]
  /\ proc' = [proc EXCEPT ![j] = IF proc[j] = "zombie" THEN "gone" ELSE proc[j]]
  /\ lock' = Nobody
  /\ UNCHANGED <<up, loaded, watcher, lease, asked, unwritten, sig, calls>>

(* The record becomes running, is loaded and written, and a watcher starts. *)
(* If the write raises, no watcher is ever started for the job, and what   *)
(* is on disk knows neither its pid nor that it runs.                      *)
StartCommit(j) ==
  /\ up /\ lock = j /\ proc[j] # "none"
  /\ state' = [state EXCEPT ![j] = "running"]
  /\ loaded' = loaded \cup {j}
  /\ \/ watcher' = [watcher EXCEPT ![j] = "wait"] /\ UNCHANGED unwritten
     \/ "commit" \in Faults /\ unwritten' = unwritten \cup {j} /\ UNCHANGED watcher
  /\ lock' = Nobody
  /\ UNCHANGED <<up, lease, asked, worker, locks, calls>>

(* GET /jobs, a refused start and GET /jobs/{id}. *)
Observe(S) ==
  /\ Enter
  /\ state' = Refreshed(S) /\ Saved
  /\ UNCHANGED <<registry, lease, asked, worker, locks, calls>>

-----------------------------------------------------------------------------
(* _watch: process.wait() returns before the thread has the registry lock. *)
WatchReap(j) ==
  /\ up /\ watcher[j] = "wait" /\ proc[j] = "zombie"
  /\ watcher' = [watcher EXCEPT ![j] = "reaped"]
  /\ proc' = [proc EXCEPT ![j] = "gone"]
  /\ UNCHANGED <<up, loaded, lock, record, sig, locks, calls>>

(* mutant: the verdict of a refresh or a stop is overwritten *)
WatchRecordAlways(j) ==
  /\ Enter /\ watcher[j] = "reaped"
  /\ state' = [state EXCEPT ![j] = "exited"]
  /\ watcher' = [watcher EXCEPT ![j] = "unlock"]
  /\ Saved
  /\ UNCHANGED <<up, loaded, lock, lease, asked, worker, locks, calls>>

(* mutant: the thread returns when somebody else has settled the record *)
WatchRecordReturns(j) ==
  /\ Enter /\ watcher[j] = "reaped"
  /\ state' = [state EXCEPT ![j] = IF @ = "running" THEN "exited" ELSE @]
  /\ watcher' = [watcher EXCEPT ![j] = IF state[j] = "running" THEN "unlock" ELSE "none"]
  /\ Saved
  /\ UNCHANGED <<up, loaded, lock, lease, asked, worker, locks, calls>>

WatchRecord(j) ==
  /\ Enter /\ watcher[j] = "reaped"
  /\ state' = [state EXCEPT ![j] = IF @ = "running" THEN "exited" ELSE @]
  /\ watcher' = [watcher EXCEPT ![j] = "unlock"]
  /\ Saved
  /\ UNCHANGED <<up, loaded, lock, lease, asked, worker, locks, calls>>

(* locks.release(), after the registry lock was given back. *)
WatchUnlock(j) ==
  /\ up /\ watcher[j] = "unlock"
  /\ flock' = Freed(j)
  /\ fds' = [fds EXCEPT ![j] = FALSE]
  /\ watcher' = [watcher EXCEPT ![j] = "none"]
  /\ UNCHANGED <<up, loaded, lock, record, worker, calls>>

-----------------------------------------------------------------------------
(* heartbeat(): the console renews every job but those of a phone. *)
Heartbeat ==
  /\ Enter
  /\ state' = Refreshed(loaded)
  /\ LET renewed == {j \in (loaded \cap LimitedJob) \ MobileJob :
                       state'[j] = "running" /\ ~asked[j]}
     IN  /\ lease' = [j \in Job |-> IF j \in renewed THEN Limit ELSE lease[j]]
         /\ unwritten' = {j \in unwritten \ renewed : state'[j] = state[j]}
  /\ UNCHANGED <<registry, asked, worker, locks, calls>>

(* mobile_heartbeat() with the job's session; refused, it only refreshes.  *)
MobileHeartbeat(j) ==
  /\ Enter /\ j \in loaded \cap MobileJob
  /\ state' = Refreshed({j})
  /\ state'[j] = "running" /\ ~asked[j] /\ lease[j] > 0
  /\ lease' = [lease EXCEPT ![j] = MobileLimit]
  /\ unwritten' = unwritten \ {j}
  /\ UNCHANGED <<registry, asked, worker, locks, calls>>

(* mutant: the guard trusts the state and forgets the deadline *)
LeaseAliveByState(j) == state[j] \in {"starting", "running"} /\ ~asked[j]

(* The worker of a phone reads the durable record every 200 ms and stops   *)
(* itself when the record no longer promises a lease.                      *)
LeaseAlive(j) == state[j] \in {"starting", "running"} /\ ~asked[j] /\ lease[j] > 0

MobileWatch(j) ==
  /\ j \in MobileJob /\ proc[j] = "alive" /\ sig[j] = "none" /\ ~LeaseAlive(j)
  /\ sig' = [sig EXCEPT ![j] = "stop"]
  /\ UNCHANGED <<registry, record, proc, locks, calls>>

-----------------------------------------------------------------------------
(* stop(): caller c leaves the call with the record's state as the result. *)
(* expire_due goes on only if it is not "running".                         *)
Goto(c, to)  == pc' = [pc EXCEPT ![c] = to] /\ UNCHANGED <<on, due>>
Leave(c)     == /\ pc' = [pc EXCEPT ![c] = "idle"]
                /\ on' = [on EXCEPT ![c] = Nobody]
                /\ due' = IF c = Expirer THEN due \ {on[c]} ELSE due
Return(c, result) == IF c = Expirer /\ result = "running"
                     THEN Goto(c, "rearm") ELSE Leave(c)
Raise(c)     == IF c = Expirer THEN Goto(c, "raised") ELSE Leave(c)

(* mutant: stop() calls the job stopped because it was told to stop *)
SettledAnyway(j) ==
  [Refreshed({j}) EXCEPT ![j] = IF @ \in {"running", "lost"} THEN "stopped" ELSE @]

(* A record the caller finds lost becomes stopped: nothing else changes a  *)
(* lost record between describe() and that write.                          *)
Settled(j) == [Refreshed({j}) EXCEPT ![j] = IF @ = "lost" THEN "stopped" ELSE @]

(* describe, under the lock that is kept until the signal is sent. *)
StopEnter(c, j) ==
  /\ Enter /\ pc[c] = "idle" /\ j \in loaded
  /\ c = Expirer => j \in due
  /\ state' = Refreshed({j}) /\ Saved
  /\ IF state'[j] = "running"
     THEN /\ lock' = c
          /\ pc' = [pc EXCEPT ![c] = "signal"]
          /\ on' = [on EXCEPT ![c] = j]
          /\ UNCHANGED due
     ELSE /\ due' = IF c = Expirer THEN due \ {j} ELSE due
          /\ UNCHANGED <<lock, pc, on>>
  /\ UNCHANGED <<up, loaded, watcher, lease, asked, worker, locks>>

(* killpg.  If the watcher has waited for the worker in the meantime,      *)
(* either _alive sees it and describe() says lost, or killpg raises.       *)
StopSignal(c) ==
  /\ up /\ lock = c /\ pc[c] = "signal"
  /\ lock' = Nobody
  /\ \/ /\ Exists(on[c])
        /\ sig' = [sig EXCEPT ![on[c]] = IF @ = "none" THEN "stop" ELSE @]
        /\ Goto(c, "poll") /\ UNCHANGED state
     \/ /\ ~Exists(on[c])
        /\ state' = Refreshed({on[c]})
        /\ Leave(c) /\ UNCHANGED sig
     \/ /\ ~Exists(on[c])
        /\ Raise(c) /\ UNCHANGED <<state, sig>>
  /\ Saved
  /\ UNCHANGED <<up, loaded, watcher, lease, asked, proc, locks>>

(* The polling loop sees an ended job. *)
StopPoll(c) ==
  /\ Enter /\ pc[c] = "poll"
  /\ Settled(on[c])[on[c]] # "running"
  /\ state' = Settled(on[c]) /\ Saved
  /\ Leave(c)
  /\ UNCHANGED <<registry, lease, asked, worker, locks>>

(* mutant: kill_after_timeout is ignored *)
StopTimeoutGentle(c) ==
  /\ up /\ pc[c] = "poll"
  /\ Goto(c, IF Exists(on[c]) THEN "giveup" ELSE "reap")
  /\ UNCHANGED <<registry, record, worker, locks>>

(* The deadline has passed: what follows reads /proc without the lock. *)
StopTimeout(c) ==
  /\ up /\ pc[c] = "poll"
  /\ Goto(c, IF ~Exists(on[c]) THEN "reap"
             ELSE IF on[c] \in KillJob THEN "kill" ELSE "giveup")
  /\ UNCHANGED <<registry, record, worker, locks>>

(* No SIGKILL for this kind: answer with the record as it is. *)
StopGiveUp(c) ==
  /\ Enter /\ pc[c] = "giveup"
  /\ state' = Refreshed({on[c]}) /\ Saved
  /\ Return(c, state'[on[c]])
  /\ UNCHANGED <<registry, lease, asked, worker, locks>>

StopKill(c) ==
  /\ up /\ pc[c] = "kill"
  /\ IF Exists(on[c])
     THEN sig' = [sig EXCEPT ![on[c]] = "kill"] /\ Goto(c, "reap")
     ELSE Raise(c) /\ UNCHANGED sig
  /\ UNCHANGED <<registry, record, proc, locks>>

(* Up to 5 s for the worker to go, then the last describe(). *)
StopFinish(c) ==
  /\ Enter /\ pc[c] = "reap"
  /\ state' = Settled(on[c]) /\ Saved
  /\ Return(c, state'[on[c]])
  /\ UNCHANGED <<registry, lease, asked, worker, locks>>

-----------------------------------------------------------------------------
(* mutant: the request is recorded, and the list lost with an exception *)
ExpireScanOnly ==
  /\ Enter /\ pc[Expirer] = "idle" /\ due = {}
  /\ state' = Refreshed(loaded)
  /\ asked' = [j \in Job |-> asked[j] \/
                 (j \in loaded \cap LimitedJob /\ state'[j] = "running" /\ lease[j] = 0)]
  /\ unwritten' = {j \in unwritten : state'[j] = state[j] /\ ~asked'[j]}
  /\ UNCHANGED <<registry, lease, worker, locks, calls>>

(* expire_due: the pass of the expiry thread begins. *)
ExpireScan ==
  /\ Enter /\ pc[Expirer] = "idle" /\ due = {}
  /\ state' = Refreshed(loaded)
  /\ due' = {j \in loaded \cap LimitedJob :
               state'[j] = "running" /\ lease[j] = 0 /\ ~asked[j]}
  /\ asked' = [j \in Job |-> asked[j] \/ j \in due']
  /\ unwritten' = {j \in unwritten \ due' : state'[j] = state[j]}
  /\ UNCHANGED <<registry, lease, worker, locks, pc, on>>

(* stop() answered "running": try again after another stop interval. *)
ExpireRearm ==
  /\ Enter /\ pc[Expirer] = "rearm"
  /\ asked' = [asked EXCEPT ![on[Expirer]] = FALSE]
  /\ lease' = [lease EXCEPT ![on[Expirer]] = Grace]
  /\ unwritten' = unwritten \ {on[Expirer]}
  /\ Leave(Expirer)
  /\ UNCHANGED <<registry, state, worker, locks>>

(* stop() raised: re-arm this job and abandon the rest of the pass. *)
ExpireRaised ==
  /\ Enter /\ pc[Expirer] = "raised"
  /\ IF state[on[Expirer]] = "running"
     THEN /\ asked' = [asked EXCEPT ![on[Expirer]] = FALSE]
          /\ lease' = [lease EXCEPT ![on[Expirer]] = 1]
     ELSE UNCHANGED <<asked, lease>>
  /\ pc' = [pc EXCEPT ![Expirer] = "idle"]
  /\ on' = [on EXCEPT ![Expirer] = Nobody]
  /\ due' = {}
  /\ unwritten' = unwritten \ {on[Expirer]}
  /\ UNCHANGED <<registry, state, worker, locks>>

-----------------------------------------------------------------------------
(* The console signals the process group itself when HUBq does not answer. *)
(* Whether it learned of a job that HUBq lost in its start is left open.   *)
EmergencyStop(j) ==
  /\ state[j] \notin {"none", "failed"} /\ lock # j
  /\ proc[j] = "alive" /\ sig[j] = "none"
  /\ sig' = [sig EXCEPT ![j] = "stop"]
  /\ UNCHANGED <<registry, record, proc, locks, calls>>

(* The worker ends by itself or by a signal.  It is a zombie while HUBq is *)
(* its parent; its copies of the descriptors are closed.                   *)
WorkerExit(j) ==
  /\ proc[j] = "alive"
  /\ proc' = [proc EXCEPT ![j] = IF fds[j] THEN "zombie" ELSE "gone"]
  /\ flock' = IF fds[j] THEN flock ELSE Freed(j)
  /\ UNCHANGED <<registry, record, sig, fds, calls>>

(* Of the records, what is on disk is left. *)
Forgotten ==
  /\ state' = [j \in Job |-> IF j \in unwritten THEN "starting" ELSE state[j]]
  /\ unwritten' = {}

(* mutant: HUBq unlocks what it has on its way out *)
CrashUnlocking ==
  /\ up /\ "crash" \in Faults /\ lock \notin Job
  /\ up' = FALSE /\ loaded' = {} /\ lock' = Nobody
  /\ watcher' = [j \in Job |-> "none"]
  /\ fds' = [j \in Job |-> FALSE]
  /\ flock' = [d \in Device |-> IF flock[d] \in Job /\ fds[flock[d]] THEN Free ELSE flock[d]]
  /\ proc' = [j \in Job |-> IF proc[j] = "zombie" THEN "gone" ELSE proc[j]]
  /\ pc' = [c \in Caller |-> "idle"] /\ on' = [c \in Caller |-> Nobody]
  /\ due' = {}
  /\ Forgotten /\ UNCHANGED <<lease, asked, sig>>

(* HUBq dies: its threads, calls and descriptors go, its workers stay.     *)
Crash ==
  /\ up /\ "crash" \in Faults
  /\ up' = FALSE /\ loaded' = {} /\ lock' = Nobody
  /\ watcher' = [j \in Job |-> "none"]
  /\ fds' = [j \in Job |-> FALSE]
  /\ flock' = [d \in Device |->
       IF flock[d] \in Job /\ proc[flock[d]] # "alive" THEN Free ELSE flock[d]]
  /\ proc' = [j \in Job |-> IF proc[j] = "zombie" THEN "gone" ELSE proc[j]]
  /\ pc' = [c \in Caller |-> "idle"] /\ on' = [c \in Caller |-> Nobody]
  /\ due' = {}
  /\ Forgotten /\ UNCHANGED <<lease, asked, sig>>

(* reconcile(): a running record without its process becomes lost; every   *)
(* record is loaded, and a live worker is matched but not watched.         *)
Restart ==
  /\ ~up /\ up' = TRUE
  /\ loaded' = {j \in Job : state[j] # "none"}
  /\ state' = Refreshed(Job)
  /\ UNCHANGED <<watcher, lock, lease, asked, unwritten, worker, locks, calls>>

(* Another program of the repository takes or returns a device. *)
OtherTakes(d) ==
  /\ flock' = [flock EXCEPT ![d] = IF @ = Free THEN Other ELSE Free]
  /\ flock[d] \in {Free, Other}
  /\ UNCHANGED <<registry, record, worker, fds, calls>>

(* A tick of the clock, while a lease is running. *)
Tick ==
  /\ \E j \in Job : lease[j] > 0 /\ state[j] \in {"starting", "running"}
  /\ lease' = [j \in Job |->
       IF lease[j] > 0 /\ state[j] \in {"starting", "running"}
       THEN lease[j] - 1 ELSE lease[j]]
  /\ UNCHANGED <<registry, state, asked, unwritten, worker, locks, calls>>

-----------------------------------------------------------------------------
StartStep(j) == StartSpawn(j) \/ StartFail(j) \/ StartCommit(j)
WatchStep(j) == WatchReap(j) \/ WatchRecord(j) \/ WatchUnlock(j)
StopStep(c)  == StopSignal(c) \/ StopPoll(c) \/ StopTimeout(c) \/ StopGiveUp(c)
                  \/ StopKill(c) \/ StopFinish(c)
ExpireNext   == \E j \in due : StopEnter(Expirer, j)

Next ==
  \/ \E j \in Job : \/ StartLock(j) \/ StartLeaks(j) \/ StartStep(j) \/ WatchStep(j)
                    \/ MobileHeartbeat(j) \/ MobileWatch(j)
                    \/ EmergencyStop(j) \/ WorkerExit(j) \/ Observe({j} \cap loaded)
  \/ Observe(loaded) \/ Heartbeat \/ Tick
  \/ \E c \in Client, j \in Job : StopEnter(c, j)
  \/ \E c \in Caller : StopStep(c)
  \/ ExpireScan \/ ExpireNext \/ ExpireRearm \/ ExpireRaised
  \/ \E d \in Device : OtherTakes(d)
  \/ Crash \/ Restart

Spec == Init /\ [][Next]_vars

(* The threads of HUBq run, time passes, the worker's guard runs and a     *)
(* worker that was killed dies.  That HUBq is restarted, that a worker     *)
(* obeys the graceful signal or ends by itself, and that the console or a  *)
(* phone sends anything is not assumed.                                    *)
FairSpec ==
  /\ Spec /\ WF_vars(Tick)
  /\ \A j \in Job : /\ WF_vars(StartStep(j)) /\ WF_vars(MobileWatch(j))
                    /\ WF_vars(sig[j] = "kill" /\ WorkerExit(j))
                    /\ WF_vars(WatchReap(j)) /\ SF_vars(WatchRecord(j))
                    /\ WF_vars(WatchUnlock(j))
  /\ SF_vars(ExpireScan) /\ SF_vars(ExpireNext)
  /\ SF_vars(ExpireRearm) /\ SF_vars(ExpireRaised)
  /\ \A c \in Caller : SF_vars(StopStep(c))

-----------------------------------------------------------------------------
(* A worker that lives has the kernel lock of every device it drives: a    *)
(* crash of HUBq, a stop that timed out or a settled record never lets     *)
(* another program have the arm (ADR 0003, pass_fds).                      *)
LiveChildOwnsDevices ==
  \A j \in Job : proc[j] = "alive" => \A d \in Needs[j] : flock[d] = j

(* A worker that lives is on record as running, and HUBq, while it is up,  *)
(* has that record: it can be listed, renewed, expired and stopped.  Only  *)
(* the worker of a start that is going on, or that a death of HUBq cut off *)
(* before the running record was written, is not.                          *)
LiveJobsAreManaged ==
  \A j \in Job : proc[j] = "alive" =>
    \/ state[j] = "running" /\ (up => j \in loaded)
    \/ state[j] = "starting" /\ (lock = j \/ ~fds[j])

(* The verdict on an ended job stays: only stop() may turn a lost job into *)
(* a stopped one (_watch and _refresh look at the state first).            *)
VerdictKept ==
  [][\A j \in Job : state[j] \in Ended =>
       state'[j] = state[j] \/ (state[j] = "lost" /\ state'[j] = "stopped")]_vars

(* Every device of a worker that has died is given back by HUBq's watcher  *)
(* or by the kernel.                                                       *)
DevicesComeBack ==
  \A j \in Job : proc[j] \in {"zombie", "gone"} ~> \A d \in Device : flock[d] # j

(* HUBq's expirer calls stop() on a job whose lease ran out, unless it     *)
(* ends first or the console renews it in time, while HUBq stays up, and   *)
(* whether or not the worker was signalled by someone else already.        *)
ExpiryStops ==
  \A j \in LimitedJob :
    (state[j] = "running" /\ lease[j] = 0)
      ~> (on[Expirer] = j \/ state[j] # "running" \/ lease[j] > 0)

ExpiredIsStopped == []up => ExpiryStops

(* Stopping a job of a kind with kill_after_timeout ends its worker, even  *)
(* one that ignores the graceful signal, unless HUBq dies meanwhile.       *)
StopKills ==
  \A c \in Caller, j \in KillJob :
    (pc[c] = "poll" /\ on[c] = j) ~> (proc[j] # "alive" \/ ~up)

(* A phone's worker whose HUBq stays down stops itself: the lease is over  *)
(* after MobileLimit ticks and nobody but HUBq can renew it.               *)
PhoneLossStops ==
  \A j \in MobileJob :
    (proc[j] = "alive" /\ ~up) ~> (up \/ proc[j] # "alive" \/ sig[j] # "none")

(* The registry implements the grants: a device is granted to a job for as *)
(* long as its worker lives.                                               *)
Grants == INSTANCE ExclusiveGrants WITH
  Owner <- Job, grant <- [j \in Job |-> IF proc[j] = "alive" THEN Needs[j] ELSE {}]

GrantsImplemented == Grants!Spec
=============================================================================
