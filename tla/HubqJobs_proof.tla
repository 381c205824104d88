--------------------------- MODULE HubqJobs_proof ---------------------------
(***************************************************************************)
(* What the job registry guarantees for any jobs, devices and callers.     *)
(*                                                                         *)
(* The locks of a job are held twice: by HUBq's descriptors (fds) and by   *)
(* the worker's copies.  Owns says that either pair keeps the devices;     *)
(* Starting and Watching say what HUBq's steps may still do to the         *)
(* descriptors of a job, which is what makes the first inductive.          *)
(***************************************************************************)
EXTENDS HubqJobs, TLAPS

Owns == \A j \in Job : fds[j] \/ proc[j] = "alive" =>
          \A d \in Needs[j] : flock[d] = j

Starting == \A j \in Job : lock = j =>
  up /\ state[j] = "starting" /\ fds[j] /\ watcher[j] = "none" /\ j \notin loaded

Watching == \A j \in Job :
  /\ watcher[j] # "none" => up /\ fds[j] /\ j \in loaded
  /\ watcher[j] \in {"reaped", "unlock"} => proc[j] = "gone"

Unstarted == \A j \in Job : state[j] = "none" =>
  proc[j] = "none" /\ watcher[j] = "none" /\ j \notin loaded

(* Only a record that says running may differ from the one on disk, and    *)
(* only while HUBq remembers it.                                           *)
Promised == (\A j \in unwritten : state[j] = "running") /\ (~up => unwritten = {})

(* A caller that is not idle has a job to stop. *)
OnJob == \A c \in Caller : pc[c] # "idle" => on[c] \in Job

IInv == TypeOK /\ OnJob /\ Owns /\ Starting /\ Watching /\ Unstarted /\ Promised

(* What the steps of reading, renewing, expiring and stopping have in      *)
(* common: they touch neither the locks nor the life of a worker, and      *)
(* settle a record only when its worker is gone.                           *)
Quiet ==
  /\ UNCHANGED <<up, loaded, watcher, proc, fds, flock>>
  /\ lock' = lock \/ (lock \notin Job /\ lock' \notin Job)
  /\ unwritten' \subseteq {j \in unwritten : state'[j] = state[j]}
  /\ \A j \in Job :
       \/ state'[j] = state[j]
       \/ state[j] = "running" /\ ~Exists(j) /\ state'[j] \in {"lost", "stopped"}
       \/ state[j] = "lost" /\ state'[j] = "stopped"

CallStep(c) == StopStep(c) \/ (\E j \in Job : StopEnter(c, j))

QuietStep ==
  \/ \E j \in Job : \/ MobileHeartbeat(j) \/ MobileWatch(j) \/ EmergencyStop(j)
                    \/ Observe({j} \cap loaded)
  \/ Observe(loaded) \/ Heartbeat \/ Tick
  \/ \E c \in Caller : CallStep(c)
  \/ ExpireScan \/ ExpireRearm \/ ExpireRaised

-----------------------------------------------------------------------------
(* The types hold before the first request. *)
LEMMA InitType == Init => TypeOK
BY NamesAssumption DEF Init, TypeOK, Caller, Ended

(* Reading the records keeps their types. *)
LEMMA RefreshedType ==
  ASSUME TypeOK, NEW S
  PROVE  /\ Refreshed(S) \in [Job -> {"none", "starting", "running"} \cup Ended]
         /\ \A j \in Job : \/ Refreshed(S)[j] = state[j]
                           \/ state[j] = "running" /\ ~Exists(j) /\ Refreshed(S)[j] = "lost"
BY DEF TypeOK, Refreshed, Ended

(* So does the answer of a stop. *)
LEMMA SettledType ==
  ASSUME TypeOK, NEW i \in Job
  PROVE  /\ Settled(i) \in [Job -> {"none", "starting", "running"} \cup Ended]
         /\ \A j \in Job :
              \/ Settled(i)[j] = state[j]
              \/ state[j] = "running" /\ ~Exists(j) /\ Settled(i)[j] = "stopped"
              \/ state[j] = "lost" /\ Settled(i)[j] = "stopped"
BY RefreshedType DEF TypeOK, Settled, Refreshed, Ended

-----------------------------------------------------------------------------
(* Each quiet step keeps the types, and is Quiet. *)
LEMMA ReadQuiet ==
  ASSUME TypeOK, OnJob, NamesAssumption, NEW S, Observe(S) \/ Heartbeat
  PROVE  TypeOK' /\ OnJob' /\ Quiet
BY RefreshedType, LeaseAssumption DEF Observe, Saved, Heartbeat, Enter, TypeOK, OnJob, Quiet, registry,
   worker, locks, calls

LEMMA ClockQuiet ==
  ASSUME TypeOK, OnJob, Tick
  PROVE  TypeOK' /\ OnJob' /\ Quiet
BY DEF Tick, TypeOK, OnJob, Quiet, registry, worker, locks, calls

LEMMA PhoneQuiet ==
  ASSUME TypeOK, OnJob, NEW j \in Job, MobileHeartbeat(j) \/ MobileWatch(j) \/ EmergencyStop(j)
  PROVE  TypeOK' /\ OnJob' /\ Quiet
<1> USE DEF Enter, TypeOK, OnJob, Quiet, registry, record, worker, locks, calls
<1>1. CASE MobileHeartbeat(j)
  <2>1. \A i \in Job \ {j} : state'[i] = state[i]  BY <1>1 DEF MobileHeartbeat, Refreshed
  <2> QED BY <1>1, <2>1, RefreshedType, LeaseAssumption DEF MobileHeartbeat
<1>2. CASE MobileWatch(j)  BY <1>2 DEF MobileWatch
<1>3. CASE EmergencyStop(j)  BY <1>3 DEF EmergencyStop
<1> QED BY <1>1, <1>2, <1>3

LEMMA StopEnterQuiet ==
  ASSUME TypeOK, OnJob, NEW c \in Caller, NEW j \in Job, StopEnter(c, j)
  PROVE  TypeOK' /\ OnJob' /\ Quiet
BY RefreshedType, NamesAssumption DEF StopEnter, Saved, Enter, TypeOK, OnJob, Quiet, Caller, worker, locks

LEMMA StopSignalQuiet ==
  ASSUME TypeOK, OnJob, NEW c \in Caller, StopSignal(c)
  PROVE  TypeOK' /\ OnJob' /\ Quiet
<1>1. on[c] \in Job /\ lock = c /\ lock' = Nobody /\ c \notin Job /\ Nobody \notin Job
  BY NamesAssumption DEF StopSignal, OnJob, Caller
<1>2. /\ UNCHANGED <<up, loaded, watcher, lease, asked, proc, fds, flock>>
      /\ unwritten' = {j \in unwritten : state'[j] = state[j]}
  BY DEF StopSignal, Saved, locks
<1>3. CASE /\ sig' = [sig EXCEPT ![on[c]] = IF @ = "none" THEN "stop" ELSE @]
           /\ Goto(c, "poll") /\ UNCHANGED state
  BY <1>1, <1>2, <1>3 DEF Goto, TypeOK, OnJob, Quiet
<1>4. CASE state' = Refreshed({on[c]}) /\ Leave(c) /\ UNCHANGED sig
  BY <1>1, <1>2, <1>4, RefreshedType DEF Leave, TypeOK, OnJob, Quiet
<1>5. CASE Raise(c) /\ UNCHANGED <<state, sig>>
  BY <1>1, <1>2, <1>5 DEF Raise, Goto, Leave, TypeOK, OnJob, Quiet
<1> QED BY <1>3, <1>4, <1>5 DEF StopSignal

LEMMA StopWaitQuiet ==
  ASSUME TypeOK, OnJob, NEW c \in Caller,
         StopPoll(c) \/ StopTimeout(c) \/ StopGiveUp(c) \/ StopKill(c) \/ StopFinish(c)
  PROVE  TypeOK' /\ OnJob' /\ Quiet
<1>1. on[c] \in Job
  BY DEF StopPoll, StopTimeout, StopGiveUp, StopKill, StopFinish, OnJob
<1> USE DEF Goto, Leave, Return, Raise, Enter, Saved, TypeOK, OnJob, Quiet,
            registry, record, worker, locks
<1>2. CASE StopPoll(c)  BY <1>1, <1>2, SettledType DEF StopPoll
<1>3. CASE StopTimeout(c)  BY <1>1, <1>3 DEF StopTimeout
<1>4. CASE StopGiveUp(c)  BY <1>1, <1>4, RefreshedType DEF StopGiveUp
<1>5. CASE StopKill(c)  BY <1>1, <1>5 DEF StopKill
<1>6. CASE StopFinish(c)
  <2> USE <1>1, <1>6, SettledType DEF StopFinish
  <2>1. CASE Goto(c, "rearm")  BY <2>1
  <2>2. CASE Leave(c)  BY <2>2
  <2> QED BY <2>1, <2>2
<1> QED BY <1>2, <1>3, <1>4, <1>5, <1>6

LEMMA ExpireQuiet ==
  ASSUME TypeOK, OnJob, ExpireScan \/ ExpireRearm \/ ExpireRaised
  PROVE  TypeOK' /\ OnJob' /\ Quiet
<1> USE DEF Leave, Enter, TypeOK, OnJob, Quiet, registry, worker, locks, Caller
<1>1. CASE ExpireScan  BY <1>1, RefreshedType DEF ExpireScan
<1>2. CASE ExpireRearm  BY <1>2, LeaseAssumption DEF ExpireRearm
<1>3. CASE ExpireRaised
  <2>1. Expirer \in Caller /\ on[Expirer] \in Job  BY <1>3 DEF ExpireRaised
  <2>2. asked' \in [Job -> BOOLEAN] /\ lease' \in [Job -> Nat]
    <3>1. CASE state[on[Expirer]] = "running"
      <4>1. /\ asked' = [asked EXCEPT ![on[Expirer]] = FALSE]
            /\ lease' = [lease EXCEPT ![on[Expirer]] = 1]
        BY <1>3, <3>1 DEF ExpireRaised
      <4> QED BY <4>1
    <3>2. CASE state[on[Expirer]] # "running"
      BY <1>3, <3>2 DEF ExpireRaised
    <3> QED BY <3>1, <3>2
  <2>3. /\ pc' = [pc EXCEPT ![Expirer] = "idle"] /\ on' = [on EXCEPT ![Expirer] = Nobody]
        /\ due' = {} /\ unwritten' = unwritten \ {on[Expirer]}
        /\ UNCHANGED <<up, loaded, watcher, lock, state, proc, sig, fds, flock>>
    BY <1>3 DEF ExpireRaised
  <2>4. TypeOK'  BY <2>2, <2>3
  <2>5. OnJob'  BY <2>3
  <2>6. Quiet  BY <2>3
  <2> QED BY <2>4, <2>5, <2>6
<1> QED BY <1>1, <1>2, <1>3

LEMMA QuietSteps ==
  ASSUME TypeOK, OnJob, QuietStep
  PROVE  TypeOK' /\ OnJob' /\ Quiet
BY NamesAssumption, ReadQuiet, ClockQuiet, PhoneQuiet, StopEnterQuiet, StopSignalQuiet,
   StopWaitQuiet, ExpireQuiet DEF QuietStep, CallStep, StopStep

(* Every other step is one of these. *)
LEMMA NextCases ==
  ASSUME TypeOK, Next
  PROVE  \/ QuietStep
         \/ \E j \in Job : StartLock(j) \/ StartLeaks(j) \/ StartStep(j) \/ WatchStep(j) \/ WorkerExit(j)
         \/ \E d \in Device : OtherTakes(d)
         \/ Crash \/ Restart
BY DEF Next, QuietStep, CallStep, ExpireNext, Caller, TypeOK

-----------------------------------------------------------------------------
(* The steps that change who holds a lock keep the types and OnJob.        *)
LEMMA LoudType ==
  ASSUME TypeOK, OnJob,
         \/ \E j \in Job : StartLock(j) \/ StartLeaks(j) \/ StartStep(j) \/ WatchStep(j) \/ WorkerExit(j)
         \/ \E d \in Device : OtherTakes(d)
         \/ Crash \/ Restart
  PROVE  TypeOK' /\ OnJob'
<1> USE NamesAssumption DEF Enter, Freed, Saved, Forgotten, TypeOK, OnJob, registry, record, worker, locks, calls
<1>1. ASSUME NEW j \in Job, StartLock(j) PROVE TypeOK' /\ OnJob'
  <2>1. LeaseOf(j) \in Nat  BY LeaseAssumption DEF LeaseOf
  <2>2. state' \in [Job -> {"none", "starting", "running"} \cup Ended]
    BY <1>1, RefreshedType DEF StartLock
  <2>3. flock' \in [Device -> Job \cup {Free, Other}]  BY <1>1 DEF StartLock
  <2>4. lease' \in [Job -> Nat] /\ fds' \in [Job -> BOOLEAN]  BY <1>1, <2>1 DEF StartLock
  <2> QED BY <1>1, <2>2, <2>3, <2>4 DEF StartLock
<1>2. ASSUME NEW j \in Job, StartStep(j) PROVE TypeOK' /\ OnJob'
  <2>1. CASE StartSpawn(j)  BY <1>2, <2>1 DEF StartSpawn
  <2>2. CASE StartFail(j)
    <3>1. state' \in [Job -> {"none", "starting", "running"} \cup Ended]
      BY <2>2 DEF StartFail, Ended
    <3>2. proc' \in [Job -> {"none", "alive", "zombie", "gone"}]  BY <2>2 DEF StartFail
    <3>3. flock' \in [Device -> Job \cup {Free, Other}]  BY <2>2 DEF StartFail
    <3> QED BY <2>2, <3>1, <3>2, <3>3 DEF StartFail
  <2>3. CASE StartCommit(j)
    <3>1. state' \in [Job -> {"none", "starting", "running"} \cup Ended]
      BY <2>3 DEF StartCommit
    <3> QED BY <2>3, <3>1 DEF StartCommit
  <2> QED BY <1>2, <2>1, <2>2, <2>3 DEF StartStep
<1>3. ASSUME NEW j \in Job, WatchStep(j) PROVE TypeOK' /\ OnJob'
  <2>1. CASE WatchReap(j)  BY <2>1 DEF WatchReap
  <2>2. CASE WatchRecord(j)  BY <2>2 DEF WatchRecord, Ended
  <2>3. CASE WatchUnlock(j)  BY <2>3 DEF WatchUnlock
  <2> QED BY <1>3, <2>1, <2>2, <2>3 DEF WatchStep
<1>4. ASSUME NEW j \in Job, WorkerExit(j) PROVE TypeOK' /\ OnJob'
  BY <1>4 DEF WorkerExit
<1>5. ASSUME NEW d \in Device, OtherTakes(d) PROVE TypeOK' /\ OnJob'
  BY <1>5 DEF OtherTakes
<1>6. CASE Crash
  BY <1>6 DEF Crash
<1>7. CASE Restart
  BY <1>7, RefreshedType DEF Restart
<1>8. ASSUME NEW j \in Job, StartLeaks(j) PROVE TypeOK' /\ OnJob'
  <2>1. flock' \in [Device -> Job \cup {Free, Other}]  BY <1>8 DEF StartLeaks
  <2> QED BY <1>8, <2>1, RefreshedType DEF StartLeaks
<1> QED BY <1>1, <1>2, <1>3, <1>4, <1>5, <1>6, <1>7, <1>8

(* Every step keeps the types, and stop() calls stay on a job. *)
LEMMA TypeStep == TypeOK /\ OnJob /\ [Next]_vars => TypeOK' /\ OnJob'
<1>1. TypeOK /\ OnJob /\ UNCHANGED vars => TypeOK' /\ OnJob'
  BY DEF vars, registry, record, worker, locks, calls, TypeOK, OnJob
<1> QED BY <1>1, NextCases, QuietSteps, LoudType

(* The state stays in its types, and a stop() call under way has its job.  *)
THEOREM TypeCorrect == Spec => []TypeOK
<1>1. Init => OnJob
  BY DEF Init, OnJob
<1> QED BY <1>1, InitType, TypeStep, PTL DEF Spec

-----------------------------------------------------------------------------
(* The locks survive every step, unless mark_inherited_owner fails.        *)
LEMMA StartLockIInv ==
  ASSUME IInv, NEW j \in Job, StartLock(j) \/ StartLeaks(j), TypeOK', OnJob' PROVE IInv'
<1> USE NamesAssumption, NeedsAssumption, RefreshedType
        DEF IInv, StartLock, StartLeaks, Saved, Enter, TypeOK, registry, record, worker, locks, calls
<1>1. Owns'  BY DEF Owns
<1>2. Starting'  BY DEF Starting, Unstarted
<1>3. Watching'  BY DEF Watching
<1>4. Unstarted'  BY DEF Unstarted
<1>5. Promised'  BY DEF Promised
<1> QED BY <1>1, <1>2, <1>3, <1>4, <1>5

(* A start that goes on keeps the invariant. *)
LEMMA StartStepIInv ==
  ASSUME IInv, "mark" \notin Faults, NEW j \in Job, StartStep(j), TypeOK', OnJob'
  PROVE  IInv'
<1> USE NamesAssumption, NeedsAssumption
        DEF IInv, Freed, TypeOK, registry, record, worker, locks, calls
<1>1. CASE StartSpawn(j)
  BY <1>1 DEF StartSpawn, Owns, Starting, Watching, Unstarted, Promised
<1>2. CASE StartFail(j)
  BY <1>2 DEF StartFail, Owns, Starting, Watching, Unstarted, Promised
<1>3. CASE StartCommit(j)
  <2> USE <1>3 DEF StartCommit
  <2>1. Owns' /\ Starting'  BY DEF Owns, Starting
  <2>2. Watching' /\ Unstarted' /\ Promised'  BY DEF Watching, Starting, Unstarted, Promised
  <2> QED BY <2>1, <2>2
<1> QED BY <1>1, <1>2, <1>3 DEF StartStep

(* So does the watcher. *)
LEMMA WatchStepIInv ==
  ASSUME IInv, NEW j \in Job, WatchStep(j), TypeOK', OnJob' PROVE IInv'
<1> USE NamesAssumption, NeedsAssumption
        DEF IInv, Freed, Saved, Enter, TypeOK, registry, record, worker, locks, calls
<1>1. CASE WatchReap(j)
  BY <1>1 DEF WatchReap, Owns, Starting, Watching, Unstarted, Promised
<1>2. CASE WatchRecord(j)
  BY <1>2 DEF WatchRecord, Owns, Starting, Watching, Unstarted, Promised
<1>3. CASE WatchUnlock(j)
  BY <1>3 DEF WatchUnlock, Owns, Starting, Watching, Unstarted, Promised
<1> QED BY <1>1, <1>2, <1>3 DEF WatchStep

(* So do the worker, other programs, a crash and a restart. *)
LEMMA OthersIInv ==
  ASSUME IInv, TypeOK', OnJob',
         \/ \E j \in Job : WorkerExit(j)
         \/ \E d \in Device : OtherTakes(d)
         \/ Crash \/ Restart
  PROVE  IInv'
<1> USE NamesAssumption, NeedsAssumption
        DEF IInv, Freed, TypeOK, registry, record, worker, locks, calls
<1>1. ASSUME NEW j \in Job, WorkerExit(j) PROVE IInv'
  BY <1>1 DEF WorkerExit, Owns, Starting, Watching, Unstarted, Promised
<1>2. ASSUME NEW d \in Device, OtherTakes(d) PROVE IInv'
  BY <1>2 DEF OtherTakes, Owns, Starting, Watching, Unstarted, Promised
<1>3. CASE Crash
  BY <1>3 DEF Crash, Forgotten, Owns, Starting, Watching, Unstarted, Promised
<1>4. CASE Restart
  BY <1>4, RefreshedType DEF Restart, Owns, Starting, Watching, Unstarted, Promised
<1> QED BY <1>1, <1>2, <1>3, <1>4

(* So do the steps that touch no worker and no lock. *)
LEMMA QuietIInv ==
  ASSUME IInv, Quiet, TypeOK', OnJob' PROVE IInv'
BY DEF IInv, Quiet, TypeOK, Owns, Starting, Watching, Unstarted, Promised

(* Every step keeps the invariant if the mark of the inherited locks does not fail. *)
LEMMA StepIInv ==
  ASSUME "mark" \notin Faults PROVE IInv /\ [Next]_vars => IInv'
<1> SUFFICES ASSUME IInv, [Next]_vars PROVE IInv'
  OBVIOUS
<1>1. TypeOK' /\ OnJob'
  BY TypeStep DEF IInv
<1>2. CASE UNCHANGED vars
  BY <1>2 DEF vars, registry, record, worker, locks, calls, IInv, TypeOK, OnJob, Owns,
     Starting, Watching, Unstarted, Promised
<1>3. CASE Next
  BY <1>1, <1>3, NextCases, QuietSteps, QuietIInv, StartLockIInv, StartStepIInv,
     WatchStepIInv, OthersIInv DEF IInv
<1> QED BY <1>2, <1>3

(* The invariant holds before the first request. *)
LEMMA InitIInv == Init => IInv
BY InitType, NamesAssumption DEF Init, IInv, OnJob, Owns, Starting, Watching, Unstarted, Promised

(* The strengthened invariant of the registry, on which the theorems below rest. *)
THEOREM SpecIInv == ASSUME "mark" \notin Faults PROVE Spec => []IInv
BY InitIInv, StepIInv, PTL DEF Spec

(* A worker that lives has the flock of each of its devices, through every *)
(* start, stop, expiry, crash and restart of HUBq: pass_fds shares the     *)
(* open file descriptions, and HUBq unlocks them only for a dead worker.   *)
THEOREM LiveChildrenOwn == ASSUME "mark" \notin Faults PROVE Spec => []LiveChildOwnsDevices
<1>1. IInv => LiveChildOwnsDevices
  BY DEF IInv, Owns, LiveChildOwnsDevices
<1> QED BY <1>1, SpecIInv, PTL

-----------------------------------------------------------------------------
(* The record of a live worker: the invariant is inductive beside IInv.    *)
LEMMA StepManaged ==
  ASSUME "mark" \notin Faults
  PROVE  IInv /\ LiveJobsAreManaged /\ [Next]_vars => LiveJobsAreManaged'
<1> SUFFICES ASSUME IInv, LiveJobsAreManaged, [Next]_vars PROVE LiveJobsAreManaged'
  OBVIOUS
<1> USE NamesAssumption DEF IInv, LiveJobsAreManaged, TypeOK, Caller, registry, record, worker,
                            locks, calls
<1>1. ASSUME Quiet PROVE LiveJobsAreManaged'
  BY <1>1 DEF Quiet, Exists
<1>2. ASSUME NEW j \in Job, StartLock(j) \/ StartLeaks(j) PROVE LiveJobsAreManaged'
  BY <1>2, RefreshedType DEF StartLock, StartLeaks, Enter, Exists, Unstarted
<1>3. ASSUME NEW j \in Job, StartStep(j) PROVE LiveJobsAreManaged'
  BY <1>3 DEF StartStep, StartSpawn, StartFail, StartCommit, Starting
<1>4. ASSUME NEW j \in Job, WatchStep(j) PROVE LiveJobsAreManaged'
  BY <1>4 DEF WatchStep, WatchReap, WatchRecord, WatchUnlock, Enter, Watching
<1>5. ASSUME NEW j \in Job, WorkerExit(j) PROVE LiveJobsAreManaged'
  BY <1>5 DEF WorkerExit
<1>6. ASSUME NEW d \in Device, OtherTakes(d) PROVE LiveJobsAreManaged'
  BY <1>6 DEF OtherTakes
<1>7. CASE Crash
  BY <1>7 DEF Crash, Forgotten, Promised
<1>8. CASE Restart
  BY <1>8, RefreshedType DEF Restart, Exists
<1>9. CASE UNCHANGED vars
  BY <1>9 DEF vars
<1> QED
  BY <1>1, <1>2, <1>3, <1>4, <1>5, <1>6, <1>7, <1>8, <1>9, NextCases, QuietSteps

(* A worker that lives is on record as running and is loaded while HUBq is *)
(* up: stop, expiry and heartbeat can reach it, also after a restart.  The *)
(* only others are those of a start under way, or cut off by a death of    *)
(* HUBq before the record that says running was on disk.                   *)
THEOREM LiveJobsManaged ==
  ASSUME "mark" \notin Faults PROVE Spec => []LiveJobsAreManaged
<1>1. Init => LiveJobsAreManaged
  BY DEF Init, LiveJobsAreManaged
<1>2. IInv /\ [Next]_vars => IInv'
  BY StepIInv
<1>3. IInv /\ LiveJobsAreManaged /\ [Next]_vars => LiveJobsAreManaged'
  BY StepManaged
<1> QED BY <1>1, <1>2, <1>3, InitIInv, PTL DEF Spec

-----------------------------------------------------------------------------
(* The verdict on an ended job is never overwritten, by the watcher, a     *)
(* refresh, a stop or a restart; stop() alone makes a lost job stopped.    *)
THEOREM VerdictsKept == ASSUME "mark" \notin Faults PROVE Spec => VerdictKept
<1> DEFINE Kept == \A j \in Job : state[j] \in Ended =>
             state'[j] = state[j] \/ (state[j] = "lost" /\ state'[j] = "stopped")
<1>1. IInv /\ [Next]_vars => [Kept]_vars
  <2> SUFFICES ASSUME IInv, Next PROVE Kept
    OBVIOUS
  <2> USE DEF IInv, TypeOK, Ended, registry, record, worker, locks, calls
  <2>1. ASSUME Quiet PROVE Kept
    BY <2>1 DEF Quiet
  <2>2. ASSUME NEW j \in Job, StartLock(j) \/ StartLeaks(j) PROVE Kept
    BY <2>2, RefreshedType DEF StartLock, StartLeaks
  <2>3. ASSUME NEW j \in Job, StartStep(j) PROVE Kept
    BY <2>3 DEF StartStep, StartSpawn, StartFail, StartCommit, Starting
  <2>4. ASSUME NEW j \in Job, WatchStep(j) PROVE Kept
    BY <2>4 DEF WatchStep, WatchReap, WatchRecord, WatchUnlock
  <2>5. ASSUME NEW j \in Job, WorkerExit(j) PROVE Kept
    BY <2>5 DEF WorkerExit
  <2>6. ASSUME NEW d \in Device, OtherTakes(d) PROVE Kept
    BY <2>6 DEF OtherTakes
  <2>7. CASE Crash
    BY <2>7 DEF Crash, Forgotten, Promised
  <2>8. CASE Restart
    BY <2>8, RefreshedType DEF Restart
  <2> QED
    BY <2>1, <2>2, <2>3, <2>4, <2>5, <2>6, <2>7, <2>8, NextCases, QuietSteps
<1> QED BY <1>1, SpecIInv, PTL DEF Spec, VerdictKept

-----------------------------------------------------------------------------
(* The registry implements ExclusiveGrants: spawning a worker is a Grant,  *)
(* its end a Revoke, and every other step leaves the grants alone.         *)
THEOREM ImplementsGrants == ASSUME "mark" \notin Faults PROVE Spec => GrantsImplemented
<1> DEFINE grant == [j \in Job |-> IF proc[j] = "alive" THEN Needs[j] ELSE {}]
<1>1. Init => Grants!Init
  BY DEF Init, Grants!Init
<1>2. IInv /\ [Next]_vars => [Grants!Next]_grant
  <2> SUFFICES ASSUME IInv, [Next]_vars PROVE Grants!Next \/ grant' = grant
    OBVIOUS
  <2> USE NeedsAssumption DEF IInv, TypeOK, Grants!Next, registry, record, worker, locks, calls
  <2>1. ASSUME NEW j \in Job, StartSpawn(j) PROVE Grants!Next
    <3>1. fds[j] /\ proc[j] = "none"  BY <2>1 DEF StartSpawn, Starting
    <3>2. \A i \in Job : grant[i] \cap Needs[j] = {}  BY <3>1 DEF Owns
    <3>3. grant[j] = {} /\ grant' = [grant EXCEPT ![j] = Needs[j]]
      BY <2>1, <3>1 DEF StartSpawn
    <3> QED BY <3>2, <3>3 DEF Grants!Grant
  <2>2. ASSUME NEW j \in Job, WorkerExit(j) PROVE Grants!Next
    <3>1. grant' = [grant EXCEPT ![j] = {}]  BY <2>2 DEF WorkerExit
    <3> QED BY <3>1 DEF Grants!Revoke
  <2>3. ASSUME \A j \in Job : proc[j] = "alive" <=> proc'[j] = "alive" PROVE grant' = grant
    BY <2>3
  <2>4. ASSUME NEW j \in Job, StartLock(j) \/ StartLeaks(j) \/ StartFail(j) \/ StartCommit(j) \/ WatchStep(j)
        PROVE  \A i \in Job : proc[i] = "alive" <=> proc'[i] = "alive"
    BY <2>4 DEF StartLock, StartLeaks, StartFail, StartCommit, WatchStep, WatchReap, WatchRecord, WatchUnlock
  <2>5. ASSUME \/ \E d \in Device : OtherTakes(d)
               \/ Crash \/ Restart \/ Quiet \/ UNCHANGED vars
        PROVE  \A i \in Job : proc[i] = "alive" <=> proc'[i] = "alive"
    BY <2>5 DEF OtherTakes, Crash, Restart, Quiet, vars
  <2>6. CASE UNCHANGED vars  BY <2>3, <2>5, <2>6
  <2>7. CASE QuietStep  BY <2>3, <2>5, <2>7, QuietSteps
  <2>8. CASE \E j \in Job : StartLock(j) \/ StartLeaks(j) \/ StartStep(j) \/ WatchStep(j) \/ WorkerExit(j)
    BY <2>1, <2>2, <2>3, <2>4, <2>8 DEF StartStep
  <2>9. CASE (\E d \in Device : OtherTakes(d)) \/ Crash \/ Restart  BY <2>3, <2>5, <2>9
  <2> QED
    <3> HIDE DEF grant, Grants!Next
    <3> QED BY <2>6, <2>7, <2>8, <2>9, NextCases
<1> QED BY <1>1, <1>2, SpecIInv, PTL DEF Spec, GrantsImplemented, Grants!Spec

(* Granting only free devices is enough for exclusion, whatever the owners *)
(* and devices, so that the implementation of ExclusiveGrants is all there *)
(* is to show (ADR 0003).                                                  *)
THEOREM GrantsAreExclusive == Grants!Spec => [](Grants!GrantType /\ Grants!Exclusive)
<1> DEFINE grant == [j \in Job |-> IF proc[j] = "alive" THEN Needs[j] ELSE {}]
<1>1. Grants!Init => Grants!GrantType /\ Grants!Exclusive
  BY DEF Grants!Init, Grants!GrantType, Grants!Exclusive
<1>2. Grants!GrantType /\ Grants!Exclusive /\ [Grants!Next]_grant => (Grants!GrantType /\ Grants!Exclusive)'
  <2> SUFFICES ASSUME Grants!GrantType, Grants!Exclusive, Grants!Next \/ UNCHANGED grant
               PROVE  Grants!GrantType' /\ Grants!Exclusive'
    OBVIOUS
  <2> USE DEF Grants!GrantType, Grants!Exclusive
  <2>1. ASSUME NEW o \in Job, Grants!Revoke(o) PROVE Grants!GrantType' /\ Grants!Exclusive'
    BY <2>1 DEF Grants!Revoke
  <2>2. ASSUME NEW o \in Job, NEW D \in SUBSET Device, Grants!Grant(o, D)
        PROVE  Grants!GrantType' /\ Grants!Exclusive'
    BY <2>2 DEF Grants!Grant
  <2>3. CASE UNCHANGED grant
    BY <2>3
  <2> QED BY <2>1, <2>2, <2>3 DEF Grants!Next
<1> QED BY <1>1, <1>2, PTL DEF Grants!Spec

(* No device is driven by the workers of two jobs. *)
THEOREM NoTwoDrivers == ASSUME "mark" \notin Faults PROVE Spec => []Grants!Exclusive
BY ImplementsGrants, GrantsAreExclusive, PTL DEF GrantsImplemented
=============================================================================
