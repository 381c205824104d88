--------------------------- MODULE Console_proof ---------------------------
(***************************************************************************)
(* Proofs about the requests of the console, for any number of request     *)
(* threads, phones, jobs and restarts.  The inductive invariant says which *)
(* devices the newest job holds, who attends the relay of goals, what an   *)
(* answer that is under way says of the job, and how far the stop of       *)
(* everything has come while the job it promised to stop still lives.  A   *)
(* poll on its way back may name any job that was ever started, or none.   *)
(***************************************************************************)
EXTENDS Console, TLAPS

USE DEF stops

(* TypeOK without its last two conjuncts, which Holding says, and without *)
(* the two flags, which Flags says: what each field may be.               *)
Types ==
    /\ owner \in [Device -> {"none", "vleader", "job"}]
    /\ n \in 0..Jobs /\ job \in [what : What, phone : Phone \cup {"none"}, live : BOOLEAN]
    /\ handle \in [Manager -> 0..Jobs] /\ watchers \subseteq 1..Jobs
    /\ poll \in [at : {"idle", "asked"}, what : What, id : 0..Jobs]
    /\ vl \in {"off", "direct", "relay"}
    /\ req \in [Starter -> [at : {"idle", "doctor", "relay", "manager", "answered", "failed"},
                            what : What, phone : Phone \cup {"none"}, id : 0..Jobs]]
    /\ all \in [at : {"idle", "hold"} \cup Manager, waits : BOOLEAN, promised : 0..Jobs]
    /\ one \in [at : {"idle", "signal"}, phone : Phone \cup {"none"}, target : 0..Jobs]
    /\ restarts \in 0..Restarts

Flags == hubq \in BOOLEAN /\ stray \in BOOLEAN

(* A job holds exactly the devices its mode needs, and only while it lives;*)
(* the virtual leader holds the follower or nothing.                       *)
Holding ==
    /\ \A d \in Device : owner[d] = "job" <=> job.live /\ d \in Needs(job.what)
    /\ \A d \in Device : owner[d] = "vleader" => d = "follower"
    /\ vl = "direct" <=> owner["follower"] = "vleader"

(* Jobs are numbered from 1, and nobody knows a job that was not started.  *)
Numbered ==
    /\ job.live => n >= 1
    /\ \A r \in Starter : req[r].at = "answered" => req[r].id >= 1
    /\ all.promised <= n
    /\ one.target <= n /\ poll.id <= n
    /\ poll.at = "asked" /\ ManagerOf(poll.what) # "teleop" => poll.id >= 1

(* An answer on its way to a manager names the job that manager runs.      *)
AnswerIsNewest ==
    \A r \in Starter :
        req[r].at = "answered" /\ Lives(ManagerOf(req[r].what)) => req[r].id = n

(* Only a virtual recording is on its way to the relay.                    *)
RelayIsForRecording == \A r \in Starter : req[r].at = "relay" => req[r].what = "record-virtual"

(* The relay is attended by a request that has passed it or by a watcher.  *)
Attended ==
    vl = "relay" =>
        \/ watchers # {}
        \/ \E r \in Starter : req[r].what = "record-virtual" /\ req[r].at \in {"manager", "answered", "failed"}

(* The managers the stop of everything has still to look at.               *)
Ahead(place) == CASE place = "policy" -> Manager
                  [] place = "record" -> {"record", "teleop"}
                  [] place = "teleop" -> {"teleop"}
                  [] OTHER -> {}

(* While the promised job lives the stop has not passed its manager, which *)
(* knows the job or has no handle, and knows it while it is waited for; no *)
(* poll comes back to that manager with anything but the job.              *)
Promised ==
    all.at # "idle" /\ all.promised # 0 /\ all.promised = n /\ job.live =>
        LET m == ManagerOf(job.what) IN
        /\ m \in Ahead(all.at)
        /\ handle[m] \in {0, n} /\ ~Stale(m)
        /\ all.at = m /\ all.waits => handle[m] = n

(* The job a phone is about to stop is its own, or no longer the newest.   *)
OwnTarget == one.at = "signal" /\ one.target = n /\ job.live => job.phone = one.phone

IInv ==
    /\ Types /\ Flags /\ Holding /\ Numbered /\ AnswerIsNewest /\ RelayIsForRecording
    /\ Attended /\ Promised /\ OwnTarget

Requests == [at : {"idle", "doctor", "relay", "manager", "answered", "failed"},
             what : What, phone : Phone \cup {"none"}, id : 0..Jobs]
Stops == [at : {"idle", "hold"} \cup Manager, waits : BOOLEAN, promised : 0..Jobs]
Modes == [what : What, phone : Phone \cup {"none"}, live : BOOLEAN]

(* The fields and the two equivalences of TypeOK follow from the invariant. *)
LEMMA InvariantTypes == IInv => TypeOK
<1>1. ASSUME Holding, Types PROVE job.live <=> \E d \in Device : owner[d] = "job"
  BY <1>1 DEF Holding, Types, Needs, Device, What
<1> QED BY <1>1 DEF IInv, Types, Flags, Holding, TypeOK

(* The console begins with nothing running and nobody asking. *)
LEMMA InitInvariant == Init => IInv
<1> SUFFICES ASSUME Init PROVE IInv
  OBVIOUS
<1>1. Types
  <2>1. job \in Modes /\ req \in [Starter -> Requests] /\ all \in Stops
    BY BoundsAssumption DEF Init, NoReq, NoStop, NoJob, What, Modes, Requests, Stops
  <2>2. poll \in [at : {"idle", "asked"}, what : What, id : 0..Jobs]
    BY BoundsAssumption DEF Init, NoPoll, What
  <2> QED BY <2>1, <2>2, BoundsAssumption DEF Init, Types, NoPhone, Modes, Requests, Stops
<1>2. Flags
  BY DEF Init, Flags
<1> QED BY <1>1, <1>2 DEF Init, IInv, Types, Holding, Numbered, AnswerIsNewest, RelayIsForRecording,
           Attended, Promised, OwnTarget, NoReq, NoStop, NoPhone, NoJob, NoPoll, Device, Lives

----------------------------------------------------------------------------
(* What a few steps do to one variable, for the lemmas below *)

(* A job that ends lets go of its devices and is forgotten (a worker's exit). *)
LEMMA DiesEffect ==
    ASSUME Types, Dies
    PROVE  /\ owner' \in [Device -> {"none", "vleader", "job"}] /\ job' \in Modes
           /\ ~job'.live
BY PhoneAssumption DEF Types, Dies, Modes, NoJob, What

(* The end of the virtual leader gives the follower back, if it had it (vleader.stop). *)
LEMMA VlStopEffect ==
    ASSUME Types, VlStop
    PROVE  owner' \in [Device -> {"none", "vleader", "job"}] /\ vl' \in {"off", "direct", "relay"}
BY DEF Types, VlStop

(* A manager that sees the newest job notes it (the managers' `running`). *)
LEMMA KnownEffect ==
    ASSUME Types, Numbered, NEW m \in Manager, Sees(m), Known(m), Watched(n, job.what)
    PROVE  handle' \in [Manager -> 0..Jobs] /\ watchers' \subseteq 1..Jobs
<1>1. n \in 1..Jobs
  BY BoundsAssumption DEF Types, Numbered, Sees, Lives
<1> QED BY <1>1, BoundsAssumption DEF Types, Known, Watched

(* HUBq's start of a job names it in the answer of one request (hubq start_job). *)
LEMMA SpawnEffect ==
    ASSUME Types, NEW r \in Starter, Spawn(r)
    PROVE  /\ req' \in [Starter -> Requests] /\ job' \in Modes
           /\ owner' \in [Device -> {"none", "vleader", "job"}]
           /\ \A q \in Starter \ {r} : req'[q] = req[q]
           /\ \/ req'[r].at = "answered" /\ req'[r].what = req[r].what /\ req'[r].id = n + 1
              \/ req'[r].at = "idle" /\ req[r].what # "record-virtual"
              \/ req'[r].at = "failed" /\ req'[r].what = "record-virtual"
<1> DEFINE answer == [at |-> "answered", what |-> req[r].what, phone |-> "none", id |-> n + 1]
<1>1. answer \in Requests /\ FailedVirtual \in Requests /\ NoReq \in Requests
  BY BoundsAssumption DEF Spawn, NoReq, FailedVirtual, Types, Requests, What
<1>2. \E e \in {answer, FailedVirtual, NoReq} :
        /\ req' = [req EXCEPT ![r] = e]
        /\ e = NoReq => req[r].what # "record-virtual"
  <2>1. CASE req' = [req EXCEPT ![r] = answer]
    BY <2>1 DEF NoReq
  <2>2. FailedVirtual # NoReq
    BY DEF FailedVirtual, NoReq
  <2>3. CASE Fails(r)
    BY <2>2, <2>3 DEF Fails
  <2> QED BY <2>1, <2>3 DEF Spawn
<1>3. job' \in Modes /\ owner' \in [Device -> {"none", "vleader", "job"}]
  BY DEF Spawn, Types, Modes
<1>4. PICK e \in {answer, FailedVirtual, NoReq} :
        /\ req' = [req EXCEPT ![r] = e]
        /\ e = NoReq => req[r].what # "record-virtual"
  BY <1>2
<1>5. req' \in [Starter -> Requests] /\ req'[r] = e /\ \A q \in Starter \ {r} : req'[q] = req[q]
  BY <1>1, <1>4 DEF Types, Requests
<1>6. \/ e.at = "answered" /\ e.what = req[r].what /\ e.id = n + 1
      \/ e.at = "idle" /\ req[r].what # "record-virtual"
      \/ e.at = "failed" /\ e.what = "record-virtual"
  BY <1>4 DEF NoReq, FailedVirtual
<1> QED BY <1>3, <1>5, <1>6

(* A manager that is asked moves the stop on, or gives up promising (stop_active_mode). *)
LEMMA StopLookEffect ==
    ASSUME Types, NEW m \in Manager, StopLook(m), ~Sees(m)
    PROVE  all' \in Stops
<1>1. After(m) \in {"idle", "hold"} \cup Manager
  BY DEF After, Manager
<1>2. CASE all' = [at |-> After(m), waits |-> FALSE, promised |-> 0]
  BY <1>1, <1>2, BoundsAssumption DEF Stops
<1>3. CASE all' = [at |-> After(m), waits |-> FALSE, promised |-> all.promised]
  BY <1>1, <1>3 DEF Types, Stops
<1> QED BY <1>2, <1>3 DEF StopLook

(* A wait for a job ends in the next manager, or in the answer (the managers' stop). *)
LEMMA StopJobEffect ==
    ASSUME Types, NEW m \in Manager, StopJob(m)
    PROVE  /\ all' \in Stops
           /\ \/ all'.at = "idle" /\ all'.promised = 0
              \/ all'.at = After(m) /\ ~all'.waits /\ all'.promised = all.promised
<1>1. CASE all' = NoStop
  BY <1>1, BoundsAssumption DEF NoStop, Stops
<1>2. CASE all' = [at |-> After(m), waits |-> FALSE, promised |-> all.promised]
  <2>1. After(m) \in {"idle", "hold"} \cup Manager
    BY DEF After, Manager
  <2> QED BY <1>2, <2>1 DEF Types, Stops
<1> QED BY <1>1, <1>2 DEF StopJob

----------------------------------------------------------------------------

(* Every step keeps the fields of the state in their sets (app.py's module state). *)
LEMMA TypesKept ==
    ASSUME Types, Numbered, [Next]_vars
    PROVE  Types'
<1> USE BoundsAssumption, PhoneAssumption DEF Types, Numbered, NoReq, NoStop, NoPhone, ManagerOf, What, Manager
<1>1. ASSUME NEW r \in Starter, NEW w \in What, NEW p \in Phone \cup {"none"}, Claim(r, w, p) PROVE Types'
  BY <1>1 DEF Claim
<1>2. ASSUME NEW r \in Starter, Doctor(r) PROVE Types'
  BY <1>2 DEF Doctor, GoTo
<1>3. ASSUME NEW r \in Starter, Relay(r) PROVE Types'
  <2>1. req' \in [Starter -> Requests]
    BY <1>3 DEF Relay, GoTo, Requests
  <2>2. owner' \in [Device -> {"none", "vleader", "job"}] /\ vl' \in {"off", "direct", "relay"}
    BY <1>3 DEF Relay
  <2> QED BY <1>3, <2>1, <2>2 DEF Relay, Requests
<1>4. ASSUME NEW r \in Starter, Refused(r) PROVE Types'
  <2>1. req' \in [Starter -> Requests]
    BY <1>4 DEF Refused, Fails, FailedVirtual, Requests
  <2>2. handle' \in [Manager -> 0..Jobs] /\ watchers' \subseteq 1..Jobs
    BY <1>4, KnownEffect DEF Refused
  <2> QED BY <1>4, <2>1, <2>2 DEF Refused, Requests
<1>5. ASSUME NEW r \in Starter, Spawn(r) PROVE Types'
  BY <1>5, SpawnEffect, BoundsAssumption DEF Spawn, Requests, Modes
<1>6. ASSUME NEW r \in Starter, Answered(r) PROVE Types'
  <2>1. req[r].id \in 1..Jobs /\ req[r].what \in What
    BY <1>6, BoundsAssumption DEF Answered
  <2>2. watchers' \subseteq 1..Jobs /\ handle' \in [Manager -> 0..Jobs]
    BY <1>6, <2>1, BoundsAssumption DEF Answered, Watched
  <2> QED BY <1>6, <2>2, BoundsAssumption DEF Answered
<1>7. ASSUME NEW r \in Starter, Failed(r) PROVE Types'
  BY <1>7, VlStopEffect DEF Failed
<1>8. ASSUME PollLands PROVE Types'
  <2>1. poll.id \in 0..Jobs /\ (poll.what = "record-virtual" => poll.id \in 1..Jobs)
    BY <1>8, BoundsAssumption DEF PollLands
  <2>2. watchers' \subseteq 1..Jobs /\ handle' \in [Manager -> 0..Jobs]
    BY <1>8, <2>1, BoundsAssumption DEF PollLands, Watched
  <2> QED BY <1>8, <2>2, BoundsAssumption DEF PollLands, NoPoll
<1>22. ASSUME NEW m \in Manager, PollAsks(m) PROVE Types'
  BY <1>22, BoundsAssumption DEF PollAsks, Lives
<1>9. ASSUME JobEnds PROVE Types'
  BY <1>9 DEF JobEnds, Dies, NoJob
<1>10. ASSUME NEW id \in watchers, WatchExit(id) PROVE Types'
  BY <1>10, VlStopEffect DEF WatchExit
<1>11. ASSUME HubqFlips PROVE Types'
  BY <1>11 DEF HubqFlips
<1>12. ASSUME StartDirect PROVE Types'
  <2>1. owner' \in [Device -> {"none", "vleader", "job"}]
    BY <1>12 DEF StartDirect
  <2> QED BY <1>12, <2>1 DEF StartDirect
<1>13. ASSUME StopDirect PROVE Types'
  BY <1>13, VlStopEffect DEF StopDirect
<1>14. ASSUME Restart PROVE Types'
  BY <1>14 DEF Restart, NoPoll, NoStop, NoReq, NoPhone
<1>15. ASSUME StopAll PROVE Types'
  BY <1>15 DEF StopAll, Lives
<1>16. ASSUME NEW m \in Manager, StopLook(m) PROVE Types'
  <2>1. CASE Sees(m)
    <3>1. handle' \in [Manager -> 0..Jobs] /\ watchers' \subseteq 1..Jobs
      BY <1>16, <2>1, KnownEffect DEF StopLook
    <3>2. all' \in Stops
      BY <1>16, <2>1 DEF StopLook, Stops
    <3> QED BY <1>16, <2>1, <3>1, <3>2 DEF StopLook, Stops
  <2>2. CASE ~Sees(m)
    BY <1>16, <2>2, StopLookEffect DEF StopLook, Stops
  <2> QED BY <2>1, <2>2
<1>17. ASSUME NEW m \in Manager, StopJob(m) PROVE Types'
  <2>1. handle' \in [Manager -> 0..Jobs]
    BY <1>17 DEF StopJob, Known
  <2>2. job' \in Modes /\ owner' \in [Device -> {"none", "vleader", "job"}]
    BY <1>17, DiesEffect DEF StopJob, Modes
  <2> QED BY <1>17, <2>1, <2>2, StopJobEffect DEF StopJob, Stops, Modes
<1>18. ASSUME StopAnswers PROVE Types'
  BY <1>18 DEF StopAnswers, NoStop
<1>19. ASSUME NEW p \in Phone, PhoneStop(p) PROVE Types'
  BY <1>19 DEF PhoneStop, Known, Sees, Lives
<1>20. ASSUME PhoneSignals PROVE Types'
  BY <1>20, DiesEffect, BoundsAssumption DEF PhoneSignals, NoPhone, Modes
<1>21. CASE UNCHANGED vars
  BY <1>21 DEF vars
<1> QED
  BY <1>1, <1>2, <1>3, <1>4, <1>5, <1>6, <1>7, <1>8, <1>9, <1>10, <1>11, <1>12, <1>13, <1>14, <1>15, <1>16, <1>17, <1>18, <1>19, <1>20, <1>21, <1>22
  DEF Next, Starts

(* Whether HUBq answers and whether a relay was forgotten are plain flags. *)
LEMMA FlagsKept ==
    ASSUME Flags, [Next]_vars
    PROVE  Flags'
<1>1. CASE UNCHANGED <<hubq, stray>>
  BY <1>1 DEF Flags
<1>2. CASE HubqFlips
  BY <1>2 DEF HubqFlips, Flags
<1>3. ASSUME NEW r \in Starter, Relay(r) PROVE Flags'
  BY <1>3, Zenon DEF Relay, Flags
<1>4. CASE Restart
  BY <1>4 DEF Restart, Flags
<1> QED
  BY <1>1, <1>2, <1>3, <1>4
  DEF Next, Starts, vars, PollAsks, PollLands, Claim, Doctor, Refused, Spawn, Answered, Failed, JobEnds, WatchExit,
      StartDirect, StopDirect, StopAll, StopLook, StopJob, StopAnswers, PhoneStop, PhoneSignals

(* A job's devices are taken with its start and given back with its end, and the *)
(* virtual leader takes only the follower (hubq start_job, vleader start, start_relay). *)
LEMMA HoldingKept ==
    ASSUME Types, Holding, [Next]_vars
    PROVE  Holding'
<1> USE BoundsAssumption, PhoneAssumption DEF Types, Holding, Needs, What, Device, ManagerOf
<1>1. ASSUME NEW r \in Starter, Relay(r) PROVE Holding'
  BY <1>1 DEF Relay, GoTo
<1>2. ASSUME NEW r \in Starter, Spawn(r) PROVE Holding'
  BY <1>2 DEF Spawn
<1>3. ASSUME NEW r \in Starter, Failed(r) PROVE Holding'
  BY <1>3 DEF Failed, VlStop
<1>4. ASSUME JobEnds PROVE Holding'
  BY <1>4 DEF JobEnds, Dies, NoJob
<1>5. ASSUME NEW id \in watchers, WatchExit(id) PROVE Holding'
  BY <1>5 DEF WatchExit, VlStop
<1>6. ASSUME StartDirect PROVE Holding'
  BY <1>6 DEF StartDirect
<1>7. ASSUME StopDirect PROVE Holding'
  BY <1>7 DEF StopDirect, VlStop
<1>8. ASSUME Restart PROVE Holding'
  BY <1>8 DEF Restart, NoPoll, NoStop, NoReq, NoPhone
<1>9. ASSUME NEW m \in Manager, StopJob(m) PROVE Holding'
  BY <1>9 DEF StopJob, Dies, NoJob, Known, Lives, After, NoStop
<1>10. ASSUME PhoneSignals PROVE Holding'
  BY <1>10 DEF PhoneSignals, Dies, NoJob, NoPhone
<1>11. CASE UNCHANGED <<owner, job, vl>>
  BY <1>11
<1> QED
  BY <1>1, <1>2, <1>3, <1>4, <1>5, <1>6, <1>7, <1>8, <1>9, <1>10, <1>11
  DEF Next, Starts, vars, stops, PollAsks, PollLands, Claim, Doctor, Refused, Answered, HubqFlips, StopAll, StopLook, StopAnswers, PhoneStop

(* A job's number is known only after its start, in an answer, a stop of everything *)
(* or the stop of a phone (hubq start_job). *)
LEMMA NumberedKept ==
    ASSUME Types, Numbered, [Next]_vars
    PROVE  Numbered'
<1> USE BoundsAssumption, PhoneAssumption DEF Types, Numbered, NoReq
<1>1. ASSUME NEW r \in Starter, NEW w \in What, NEW p \in Phone \cup {"none"}, Claim(r, w, p) PROVE Numbered'
  BY <1>1 DEF Claim
<1>2. ASSUME NEW r \in Starter, Doctor(r) PROVE Numbered'
  BY <1>2 DEF Doctor, GoTo
<1>3. ASSUME NEW r \in Starter, Relay(r) PROVE Numbered'
  BY <1>3 DEF Relay, GoTo
<1>4. ASSUME NEW r \in Starter, Refused(r) PROVE Numbered'
  BY <1>4 DEF Refused, Fails, FailedVirtual, GoTo, Known, Watched, Sees, Lives
<1>5. ASSUME NEW r \in Starter, Spawn(r) PROVE Numbered'
  BY <1>5, SpawnEffect DEF Spawn
<1>6. ASSUME NEW r \in Starter, Answered(r) PROVE Numbered'
  BY <1>6 DEF Answered, Watched
<1>7. ASSUME NEW r \in Starter, Failed(r) PROVE Numbered'
  BY <1>7 DEF Failed, VlStop
<1>8. ASSUME JobEnds PROVE Numbered'
  BY <1>8 DEF JobEnds, Dies, NoJob
<1>9. ASSUME Restart PROVE Numbered'
  BY <1>9 DEF Restart, NoPoll, NoStop, NoReq, NoPhone
<1>10. ASSUME StopAll PROVE Numbered'
  BY <1>10 DEF StopAll, Lives
<1>11. ASSUME NEW m \in Manager, StopLook(m) PROVE Numbered'
  BY <1>11 DEF StopLook, Known, Watched, Sees, Lives, After
<1>12. ASSUME NEW m \in Manager, StopJob(m) PROVE Numbered'
  <2>1. all'.promised \in {0, all.promised} /\ (job'.live => job.live)
    BY <1>12, StopJobEffect, DiesEffect DEF StopJob
  <2> QED BY <1>12, <2>1 DEF StopJob
<1>13. ASSUME StopAnswers PROVE Numbered'
  BY <1>13 DEF StopAnswers, NoStop
<1>14. ASSUME NEW p \in Phone, PhoneStop(p) PROVE Numbered'
  BY <1>14 DEF PhoneStop, Known, Sees, Lives
<1>15. ASSUME PhoneSignals PROVE Numbered'
  BY <1>15 DEF PhoneSignals, Dies, NoJob, NoPhone
<1>16. ASSUME PollLands PROVE Numbered'
  BY <1>16 DEF PollLands, NoPoll
<1>17. ASSUME NEW m \in Manager, PollAsks(m) PROVE Numbered'
  BY <1>17 DEF PollAsks, Lives, ManagerOf, Manager, What
<1>18. CASE UNCHANGED <<n, job, req, all, one, poll>>
  BY <1>18
<1> QED
  BY <1>17, <1>18, <1>1, <1>2, <1>3, <1>4, <1>5, <1>6, <1>7, <1>8, <1>9, <1>10, <1>11, <1>12, <1>13, <1>14, <1>15, <1>16
  DEF Next, Starts, vars, stops, WatchExit, HubqFlips, StartDirect, StopDirect

(* A manager's lock is held until the answer is noted, so no younger job of its own *)
(* is started under it (PolicyManager.start, RecordManager.start). *)
LEMMA AnswerIsNewestKept ==
    ASSUME Types, AnswerIsNewest, [Next]_vars
    PROVE  AnswerIsNewest'
<1> USE BoundsAssumption, PhoneAssumption DEF Types, AnswerIsNewest, NoReq, Lives, ManagerOf, Manager, What, Unlocked, Sees, Stale
<1>1. ASSUME NEW r \in Starter, NEW w \in What, NEW p \in Phone \cup {"none"}, Claim(r, w, p) PROVE AnswerIsNewest'
  BY <1>1 DEF Claim
<1>2. ASSUME NEW r \in Starter, Doctor(r) PROVE AnswerIsNewest'
  BY <1>2 DEF Doctor, GoTo
<1>3. ASSUME NEW r \in Starter, Relay(r) PROVE AnswerIsNewest'
  BY <1>3 DEF Relay, GoTo
<1>4. ASSUME NEW r \in Starter, Refused(r) PROVE AnswerIsNewest'
  BY <1>4 DEF Refused, Fails, FailedVirtual, GoTo, Known, Watched, Sees, Lives
<1>5. ASSUME NEW r \in Starter, Spawn(r) PROVE AnswerIsNewest'
  BY <1>5, SpawnEffect DEF Spawn
<1>6. ASSUME NEW r \in Starter, Answered(r) PROVE AnswerIsNewest'
  BY <1>6 DEF Answered, Watched
<1>7. ASSUME NEW r \in Starter, Failed(r) PROVE AnswerIsNewest'
  BY <1>7 DEF Failed, VlStop
<1>8. ASSUME JobEnds PROVE AnswerIsNewest'
  BY <1>8 DEF JobEnds, Dies, NoJob
<1>9. ASSUME Restart PROVE AnswerIsNewest'
  BY <1>9 DEF Restart, NoPoll, NoStop, NoReq, NoPhone
<1>10. ASSUME NEW m \in Manager, StopJob(m) PROVE AnswerIsNewest'
  BY <1>10 DEF StopJob, Dies, NoJob, Known, Lives, After, NoStop
<1>11. ASSUME PhoneSignals PROVE AnswerIsNewest'
  BY <1>11 DEF PhoneSignals, Dies, NoJob, NoPhone
<1>12. CASE UNCHANGED <<n, job, req>>
  BY <1>12
<1> QED
  BY <1>1, <1>2, <1>3, <1>4, <1>5, <1>6, <1>7, <1>8, <1>9, <1>10, <1>11, <1>12
  DEF Next, Starts, vars, stops, PollAsks, PollLands, WatchExit, HubqFlips, StartDirect, StopDirect, StopAll, StopLook, StopAnswers, PhoneStop

(* A request passes the relay only for a virtual recording (start_recording). *)
LEMMA RelayIsForRecordingKept ==
    ASSUME Types, RelayIsForRecording, [Next]_vars
    PROVE  RelayIsForRecording'
<1> USE BoundsAssumption, PhoneAssumption DEF Types, RelayIsForRecording, NoReq
<1>1. ASSUME NEW r \in Starter, NEW w \in What, NEW p \in Phone \cup {"none"}, Claim(r, w, p) PROVE RelayIsForRecording'
  BY <1>1 DEF Claim
<1>2. ASSUME NEW r \in Starter, Doctor(r) PROVE RelayIsForRecording'
  BY <1>2 DEF Doctor, GoTo
<1>3. ASSUME NEW r \in Starter, Relay(r) PROVE RelayIsForRecording'
  BY <1>3 DEF Relay, GoTo
<1>4. ASSUME NEW r \in Starter, Refused(r) PROVE RelayIsForRecording'
  BY <1>4 DEF Refused, Fails, FailedVirtual, GoTo, Known, Watched, Sees, Lives
<1>5. ASSUME NEW r \in Starter, Spawn(r) PROVE RelayIsForRecording'
  BY <1>5, SpawnEffect DEF Spawn
<1>6. ASSUME NEW r \in Starter, Answered(r) PROVE RelayIsForRecording'
  BY <1>6 DEF Answered, Watched
<1>7. ASSUME NEW r \in Starter, Failed(r) PROVE RelayIsForRecording'
  BY <1>7 DEF Failed, VlStop
<1>8. ASSUME Restart PROVE RelayIsForRecording'
  BY <1>8 DEF Restart, NoPoll, NoStop, NoReq, NoPhone
<1>9. CASE UNCHANGED req
  BY <1>9
<1> QED
  BY <1>1, <1>2, <1>3, <1>4, <1>5, <1>6, <1>7, <1>8, <1>9
  DEF Next, Starts, vars, stops, PollAsks, PollLands, JobEnds, WatchExit, HubqFlips, StartDirect, StopDirect, StopAll, StopLook, StopJob, StopAnswers, PhoneStop, PhoneSignals

(* The relay is switched on by a request that will start a watcher, or end the relay *)
(* itself (start_recording, RecordManager._watch_exit). *)
LEMMA AttendedKept ==
    ASSUME Types, RelayIsForRecording, Attended, [Next]_vars
    PROVE  Attended'
<1> USE BoundsAssumption, PhoneAssumption DEF Types, RelayIsForRecording, Attended, NoReq
<1>1. ASSUME NEW r \in Starter, NEW w \in What, NEW p \in Phone \cup {"none"}, Claim(r, w, p) PROVE Attended'
  BY <1>1 DEF Claim
<1>2. ASSUME NEW r \in Starter, Doctor(r) PROVE Attended'
  BY <1>2 DEF Doctor, GoTo
<1>3. ASSUME NEW r \in Starter, Relay(r) PROVE Attended'
  BY <1>3 DEF Relay, GoTo
<1>4. ASSUME NEW r \in Starter, Refused(r) PROVE Attended'
  BY <1>4 DEF Refused, Fails, FailedVirtual, GoTo, Known, Watched, Sees, Lives
<1>5. ASSUME NEW r \in Starter, Spawn(r) PROVE Attended'
  BY <1>5, SpawnEffect DEF Spawn
<1>6. ASSUME NEW r \in Starter, Answered(r) PROVE Attended'
  BY <1>6 DEF Answered, Watched
<1>7. ASSUME NEW r \in Starter, Failed(r) PROVE Attended'
  BY <1>7 DEF Failed, VlStop
<1>8. ASSUME PollLands PROVE Attended'
  BY <1>8 DEF PollLands, Watched
<1>9. ASSUME NEW id \in watchers, WatchExit(id) PROVE Attended'
  BY <1>9 DEF WatchExit, VlStop
<1>10. ASSUME StartDirect PROVE Attended'
  BY <1>10 DEF StartDirect
<1>11. ASSUME StopDirect PROVE Attended'
  BY <1>11 DEF StopDirect, VlStop
<1>12. ASSUME Restart PROVE Attended'
  BY <1>12 DEF Restart, NoPoll, NoStop, NoReq, NoPhone
<1>13. ASSUME NEW m \in Manager, StopLook(m) PROVE Attended'
  BY <1>13 DEF StopLook, Known, Watched, Sees, Lives, After
<1>14. CASE UNCHANGED <<vl, watchers, req>>
  BY <1>14
<1> QED
  BY <1>1, <1>2, <1>3, <1>4, <1>5, <1>6, <1>7, <1>8, <1>9, <1>10, <1>11, <1>12, <1>13, <1>14
  DEF Next, Starts, vars, stops, PollAsks, JobEnds, HubqFlips, StopAll, StopJob, StopAnswers, PhoneStop, PhoneSignals

(* Whatever is started, adopted or answered meanwhile, the stop of everything comes to *)
(* the manager of the job it promised to stop before it answers (stop_active_mode). *)
LEMMA PromisedKept ==
    ASSUME Types, Numbered, AnswerIsNewest, Promised, [Next]_vars
    PROVE  Promised'
<1> USE BoundsAssumption, PhoneAssumption DEF Types, Numbered, AnswerIsNewest, Promised, Ahead, Lives, Manager, ManagerOf, What, Unlocked, Sees, Stale
<1>1. ASSUME NEW r \in Starter, NEW w \in What, NEW p \in Phone \cup {"none"}, Claim(r, w, p) PROVE Promised'
  BY <1>1 DEF Claim
<1>2. ASSUME NEW r \in Starter, Refused(r) PROVE Promised'
  BY <1>2 DEF Refused, Fails, FailedVirtual, GoTo, Known, Watched, Sees, Lives
<1>3. ASSUME NEW r \in Starter, Spawn(r) PROVE Promised'
  BY <1>3 DEF Spawn
<1>4. ASSUME NEW r \in Starter, Answered(r) PROVE Promised'
  BY <1>4 DEF Answered, Watched
<1>5. ASSUME PollLands PROVE Promised'
  BY <1>5 DEF PollLands, NoPoll
<1>15. ASSUME NEW m \in Manager, PollAsks(m) PROVE Promised'
  BY <1>15 DEF PollAsks
<1>6. ASSUME JobEnds PROVE Promised'
  BY <1>6 DEF JobEnds, Dies, NoJob
<1>7. ASSUME Restart PROVE Promised'
  BY <1>7 DEF Restart, NoPoll, NoStop, NoReq, NoPhone
<1>8. ASSUME StopAll PROVE Promised'
  BY <1>8 DEF StopAll, Lives
<1>9. ASSUME NEW m \in Manager, StopLook(m) PROVE Promised'
  BY <1>9 DEF StopLook, Known, Watched, Sees, Lives, After
<1>10. ASSUME NEW m \in Manager, StopJob(m) PROVE Promised'
  <2>1. CASE Dies
    BY <2>1, DiesEffect
  <2>2. CASE ~(Lives(m) /\ handle[m] = n) /\ UNCHANGED job
    BY <1>10, <2>2, StopJobEffect DEF StopJob, After, Lives
  <2>3. CASE all' = NoStop
    BY <2>3 DEF NoStop
  <2> QED BY <1>10, <2>1, <2>2, <2>3 DEF StopJob
<1>11. ASSUME StopAnswers PROVE Promised'
  BY <1>11 DEF StopAnswers, NoStop
<1>12. ASSUME NEW p \in Phone, PhoneStop(p) PROVE Promised'
  BY <1>12 DEF PhoneStop, Known, Sees, Lives
<1>13. ASSUME PhoneSignals PROVE Promised'
  BY <1>13 DEF PhoneSignals, Dies, NoJob, NoPhone
<1>14. CASE UNCHANGED <<n, job, handle, all, poll>>
  BY <1>14
<1> QED
  BY <1>1, <1>2, <1>3, <1>4, <1>5, <1>6, <1>7, <1>8, <1>9, <1>10, <1>11, <1>12, <1>13, <1>14, <1>15
  DEF Next, Starts, vars, stops, Doctor, Relay, Failed, WatchExit, HubqFlips, StartDirect, StopDirect

(* The session was compared with the very job that is stopped (stop_mobile_teleoperation). *)
LEMMA OwnTargetKept ==
    ASSUME Types, Numbered, OwnTarget, [Next]_vars
    PROVE  OwnTarget'
<1> USE BoundsAssumption, PhoneAssumption DEF Types, Numbered, OwnTarget, Lives
<1>1. ASSUME NEW r \in Starter, Spawn(r) PROVE OwnTarget'
  BY <1>1 DEF Spawn
<1>2. ASSUME JobEnds PROVE OwnTarget'
  BY <1>2 DEF JobEnds, Dies, NoJob
<1>3. ASSUME Restart PROVE OwnTarget'
  BY <1>3 DEF Restart, NoPoll, NoStop, NoReq, NoPhone
<1>4. ASSUME NEW m \in Manager, StopJob(m) PROVE OwnTarget'
  BY <1>4 DEF StopJob, Dies, NoJob, Known, Lives, After, NoStop
<1>5. ASSUME NEW p \in Phone, PhoneStop(p) PROVE OwnTarget'
  BY <1>5 DEF PhoneStop, Known, Sees, Lives
<1>6. ASSUME PhoneSignals PROVE OwnTarget'
  BY <1>6 DEF PhoneSignals, Dies, NoJob, NoPhone
<1>7. CASE UNCHANGED <<n, job, one>>
  BY <1>7
<1> QED
  BY <1>1, <1>2, <1>3, <1>4, <1>5, <1>6, <1>7
  DEF Next, Starts, vars, stops, PollAsks, PollLands, Claim, Doctor, Relay, Refused, Answered, Failed, WatchExit, HubqFlips, StartDirect, StopDirect, StopAll, StopLook, StopAnswers

(* The invariant holds in every state of the console. *)
LEMMA SpecInvariant == Spec => []IInv
<1>1. IInv /\ [Next]_vars => IInv'
  BY TypesKept, FlagsKept, HoldingKept, NumberedKept, AnswerIsNewestKept, RelayIsForRecordingKept,
     AttendedKept, PromisedKept, OwnTargetKept DEF IInv
<1> QED BY InitInvariant, <1>1, PTL DEF Spec

----------------------------------------------------------------------------
(* The fields are what they should be, a live job holds devices, and the virtual leader *)
(* drives the follower only while it owns it (app.py, hubq, vleader).                   *)
THEOREM TypeCorrect == Spec => []TypeOK
BY SpecInvariant, InvariantTypes, PTL

(* Whoever fails, restarts or is adopted, the relay of goals is never left without  *)
(* somebody who ends it: a request, a watcher or the recording (start_recording,    *)
(* RecordManager._watch_exit).                                                      *)
THEOREM RelayIsAttended == Spec => []RelayAttended
<1>1. IInv => RelayAttended
  BY DEF IInv, Attended, RelayAttended, RecordsVirtually
<1> QED BY SpecInvariant, <1>1, PTL

(* POST mode/stop does not answer that everything stopped while the job lives that it *)
(* could know of when it was called (app.stop_active_mode).                           *)
THEOREM StopStopsEverything == Spec => StopStopsAll
<1>1. IInv /\ [Next]_vars =>
        [all.at = "hold" /\ all'.at = "idle" /\ all.promised # 0 => ~(job.live /\ n = all.promised)]_vars
  BY DEF IInv, Promised, Ahead
<1> QED BY SpecInvariant, <1>1, PTL DEF Spec, StopStopsAll

(* A late stop of one phone ends no job of another (app.stop_mobile_teleoperation). *)
THEOREM LateStopSpares == Spec => OldPhoneSpares
<1>1. ASSUME IInv, [Next]_vars, one.at = "signal", one'.at = "idle", job.live, ~job'.live
      PROVE  job.phone = one.phone
  <2>1. CASE PhoneSignals
    BY <1>1, <2>1 DEF IInv, OwnTarget, PhoneSignals
  <2>2. CASE Restart
    BY <1>1, <2>2 DEF Restart
  <2>3. CASE UNCHANGED one
    BY <1>1, <2>3
  <2> QED
    BY <1>1, <2>1, <2>2, <2>3
    DEF Next, Starts, vars, stops, PollAsks, PollLands, Claim, Doctor, Relay, Refused, Spawn, Answered, Failed, StopLook,
        StopJob, JobEnds, HubqFlips, StartDirect, StopDirect, StopAll, StopAnswers, PhoneStop, WatchExit
<1> QED BY SpecInvariant, <1>1, PTL DEF Spec, OldPhoneSpares
=============================================================================
