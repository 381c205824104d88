------------------------------ MODULE Console ------------------------------
(* The requests of the console that start and stop its modes (app.py), from *)
(* many threads at once: the claim at HUBq, the doctor, the hand-over of the*)
(* virtual leader and the camera, the managers' handles of HUBq's jobs, the *)
(* stop of everything, the stop of a phone, and the restart of the console. *)
(* The modes, HUBq's registry and the threads of the cameras are other      *)
(* modules: here a job holds its devices while it lives, and a camera whose *)
(* preview does not stop in time is one of the reasons of a refusal.  All   *)
(* jobs need the follower, so at most the newest one lives.                 *)
EXTENDS Integers, FiniteSets

CONSTANTS Starter,    \* request threads that start a mode
          Phone,      \* sessions of phones
          Jobs,       \* bound: jobs HUBq starts
          Restarts    \* bound: restarts of the console

ASSUME PhoneAssumption == "none" \notin Phone
ASSUME BoundsAssumption == Jobs \in Nat /\ Restarts \in Nat

VARIABLES
    owner,     \* who holds each device: none, vleader, job
    n,         \* the jobs HUBq has started so far; the last of them is
    job,       \* [what, phone, live]
    hubq,      \* HUBq answers
    handle,    \* the job each manager knows, 0 for none
    poll,      \* a poll of a status between HUBq's answer and its landing: [at, what, id]
    watchers,  \* virtual recordings whose watcher thread has not ended
    vl,        \* the virtual leader the console knows: off, direct (it holds the follower), relay
    stray,     \* a relay's loop runs that the console no longer knows
    req,       \* each starting request: [at, what, phone, id]
    all,       \* POST mode/stop: [at, waits (for the job to end), promised]
    one,       \* POST mobile/stop: [at, phone, target]
    restarts

stops == <<all, one>>
vars == <<owner, n, job, hubq, handle, poll, watchers, vl, stray, req, stops, restarts>>

Device == {"leader", "follower", "camera"}

What == {"teleop", "record-leader", "record-virtual", "policy"}
Manager == {"policy", "record", "teleop"}
ManagerOf(w) == IF w \in {"record-leader", "record-virtual"} THEN "record" ELSE w
Needs(w) ==
    CASE w = "teleop" -> {"leader", "follower"}
      [] w = "record-leader" -> Device
      [] OTHER -> {"follower", "camera"}
NoJob == [what |-> "policy", phone |-> "none", live |-> FALSE]
NoPoll == [at |-> "idle", what |-> "policy", id |-> 0]
NoReq == [at |-> "idle", what |-> "policy", phone |-> "none", id |-> 0]
FailedVirtual == [at |-> "failed", what |-> "record-virtual", phone |-> "none", id |-> 0]
NoStop == [at |-> "idle", waits |-> FALSE, promised |-> 0]
NoPhone == [at |-> "idle", phone |-> "none", target |-> 0]

TypeOK ==
    /\ owner \in [Device -> {"none", "vleader", "job"}]
    /\ n \in 0..Jobs /\ job \in [what : What, phone : Phone \cup {"none"}, live : BOOLEAN]
    /\ hubq \in BOOLEAN /\ handle \in [Manager -> 0..Jobs] /\ watchers \subseteq 1..Jobs
    /\ poll \in [at : {"idle", "asked"}, what : What, id : 0..Jobs]
    /\ vl \in {"off", "direct", "relay"} /\ stray \in BOOLEAN
    /\ req \in [Starter -> [at : {"idle", "doctor", "relay", "manager", "answered", "failed"},
                            what : What, phone : Phone \cup {"none"}, id : 0..Jobs]]
    /\ all \in [at : {"idle", "hold"} \cup Manager, waits : BOOLEAN, promised : 0..Jobs]
    /\ one \in [at : {"idle", "signal"}, phone : Phone \cup {"none"}, target : 0..Jobs]
    /\ restarts \in 0..Restarts
    \* a device is held by whom it can serve
    /\ job.live <=> \E d \in Device : owner[d] = "job"
    /\ vl = "direct" <=> owner["follower"] = "vleader"

Init ==
    /\ owner = [d \in Device |-> "none"]
    /\ n = 0 /\ job = NoJob
    /\ hubq = TRUE /\ handle = [m \in Manager |-> 0] /\ watchers = {} /\ vl = "off"
    /\ poll = NoPoll /\ stray = FALSE
    /\ req = [r \in Starter |-> NoReq] /\ all = NoStop /\ one = NoPhone /\ restarts = 0

(* The managers' `running`: a handle is polled; without one HUBq is asked, which may not answer *)
Lives(m) == job.live /\ ManagerOf(job.what) = m
(* mutant: a manager without a handle does not ask HUBq *)
SeesOwn(m) == Lives(m) /\ handle[m] = n

Sees(m) == Lives(m) /\ (handle[m] = n \/ (handle[m] = 0 /\ hubq))
Known(m) == handle' = [handle EXCEPT ![m] = n]
Watched(id, w) == watchers' = IF w = "record-virtual" THEN watchers \cup {id} ELSE watchers

(* An error of a virtual recording has still a relay to end *)
Fails(r) ==
    req' = [req EXCEPT ![r] = IF req[r].what = "record-virtual" THEN FailedVirtual ELSE NoReq]
GoTo(r, place) == req' = [req EXCEPT ![r].at = place]
VlStop == vl' = "off" /\ owner' = IF vl = "direct" THEN [owner EXCEPT !["follower"] = "none"] ELSE owner

----------------------------------------------------------------------------
(* The start of a mode, in the thread of its request *)

(* decide_claim: the virtual leader gives way to a recording through it, a preview to any mode *)
Allowed(w) ==
    \A d \in Needs(w) : \/ owner[d] = "none"
                        \/ d = "follower" /\ owner[d] = "vleader" /\ w = "record-virtual"

Claim(r, w, p) ==
    /\ req[r].at = "idle" /\ hubq /\ Allowed(w) /\ n < Jobs
    /\ p # "none" => w = "teleop"
    /\ req' = [req EXCEPT ![r] = [at |-> CASE w = "record-virtual" -> "relay"
                                           [] w = "policy" -> "manager"
                                           [] OTHER -> "doctor", what |-> w, phone |-> p, id |-> 0]]
    /\ UNCHANGED <<owner, n, job, hubq, handle, poll, watchers, vl, stray, stops, restarts>>

(* The doctor takes the leader and then the follower for itself and reads it; they may not be well *)
Doctor(r) ==
    /\ req[r].at = "doctor"
    /\ \/ req' = [req EXCEPT ![r] = NoReq]
       \/ owner["follower"] = "none" /\ GoTo(r, "manager")
    /\ UNCHANGED <<owner, n, job, hubq, handle, poll, watchers, vl, stray, stops, restarts>>

(* mutant: the follower is not let go of *)
RelayKeepsFollower(r) ==
    /\ req[r].at = "relay"
    /\ \/ vl # "direct" /\ req' = [req EXCEPT ![r] = NoReq] /\ UNCHANGED <<vl, stray>>
       \/ vl' = "relay" /\ GoTo(r, "manager") /\ stray' = (stray \/ vl = "relay")
    /\ UNCHANGED <<owner, n, job, hubq, handle, poll, watchers, stops, restarts>>

(* start_relay: the follower is let go of first, and without a recent pose it refuses after that; *)
(* then only the goals are relayed. The loop of a relay that is there is not stopped but forgotten *)
Relay(r) ==
    /\ req[r].at = "relay"
    /\ owner' = IF vl = "direct" THEN [owner EXCEPT !["follower"] = "none"] ELSE owner
    /\ \/ /\ req' = [req EXCEPT ![r] = NoReq]
          /\ vl' = (IF vl = "direct" THEN "off" ELSE vl) /\ UNCHANGED stray
       \/ vl' = "relay" /\ GoTo(r, "manager") /\ stray' = (stray \/ vl = "relay")
    /\ UNCHANGED <<n, job, hubq, handle, poll, watchers, stops, restarts>>

(* The manager's lock is held from here to the answer *)
Unlocked(m) == \A r \in Starter : req[r].at \in {"answered"} => ManagerOf(req[r].what) # m

(* Already running, HUBq out of reach, a preflight that finds fault or a device that is taken *)
Refused(r) ==
    LET m == ManagerOf(req[r].what) IN
    /\ req[r].at = "manager" /\ Unlocked(m)
    /\ IF Sees(m) THEN Known(m) /\ Watched(n, job.what) ELSE UNCHANGED <<handle, watchers>>
    /\ Fails(r)
    /\ UNCHANGED <<owner, n, job, hubq, poll, vl, stray, stops, restarts>>

(* HUBq locks the devices and starts the job; its answer may be lost on the way *)
Spawn(r) ==
    LET w == req[r].what IN
    /\ req[r].at = "manager" /\ Unlocked(ManagerOf(w)) /\ ~Sees(ManagerOf(w)) /\ hubq /\ n < Jobs
    /\ \A d \in Needs(w) : owner[d] = "none"
    /\ n' = n + 1 /\ job' = [what |-> w, phone |-> req[r].phone, live |-> TRUE]
    /\ owner' = [d \in Device |-> IF d \in Needs(w) THEN "job" ELSE owner[d]]
    /\ \/ req' = [req EXCEPT ![r] = [at |-> "answered", what |-> w, phone |-> "none", id |-> n + 1]]
       \/ Fails(r)
    /\ UNCHANGED <<hubq, handle, poll, watchers, vl, stray, stops, restarts>>

Answered(r) ==
    /\ req[r].at = "answered"
    /\ handle' = [handle EXCEPT ![ManagerOf(req[r].what)] = req[r].id]
    /\ Watched(req[r].id, req[r].what)
    /\ req' = [req EXCEPT ![r] = NoReq]
    /\ UNCHANGED <<owner, n, job, hubq, poll, vl, stray, stops, restarts>>

(* mutant: a recording that was refused leaves its relay behind *)
FailedLeavesRelay(r) ==
    /\ req[r].at = "failed"
    /\ req' = [req EXCEPT ![r] = NoReq]
    /\ UNCHANGED <<owner, vl>>
    /\ UNCHANGED <<n, job, hubq, handle, poll, watchers, stray, stops, restarts>>

(* The way out of an error ends the relay a virtual recording was to use *)
Failed(r) ==
    /\ req[r].at = "failed"
    /\ req' = [req EXCEPT ![r] = NoReq] /\ VlStop
    /\ UNCHANGED <<n, job, hubq, handle, poll, watchers, stray, stops, restarts>>

----------------------------------------------------------------------------
(* What goes on beside: polls of the status, jobs, HUBq, the virtual leader, the console *)

(* `running` of a manager without a handle asks HUBq with no lock held. Only teleop takes "none" for a handle *)
PollAsks(m) ==
    /\ poll.at = "idle" /\ handle[m] = 0 /\ hubq
    /\ \/ Lives(m) /\ poll' = [at |-> "asked", what |-> job.what, id |-> n]
       \/ m = "teleop" /\ ~Lives(m) /\ poll' = [at |-> "asked", what |-> m, id |-> 0]
    /\ UNCHANGED <<owner, n, job, hubq, handle, watchers, vl, stray, req, stops, restarts>>

(* The answer is the handle, whatever was started and noted since *)
PollLands ==
    /\ poll.at = "asked" /\ poll' = NoPoll
    /\ handle' = [handle EXCEPT ![ManagerOf(poll.what)] = poll.id]
    /\ Watched(poll.id, poll.what)
    /\ UNCHANGED <<owner, n, job, hubq, vl, stray, req, stops, restarts>>

Dies ==
    /\ job.live /\ job' = NoJob
    /\ owner' = [d \in Device |-> IF owner[d] = "job" THEN "none" ELSE owner[d]]

JobEnds ==
    /\ Dies
    /\ UNCHANGED <<n, hubq, handle, poll, watchers, vl, stray, req, stops, restarts>>

(* The watcher of a virtual recording stops the virtual leader as it then is *)
WatchExit(id) ==
    /\ id \in watchers /\ (id = n => ~job.live)
    /\ watchers' = watchers \ {id}
    /\ VlStop
    /\ UNCHANGED <<n, job, hubq, handle, poll, stray, req, stops, restarts>>

HubqFlips ==
    /\ hubq' = ~hubq
    /\ UNCHANGED <<owner, n, job, handle, poll, watchers, vl, stray, req, stops, restarts>>

StartDirect ==
    /\ vl = "off" /\ owner["follower"] = "none"
    /\ vl' = "direct" /\ owner' = [owner EXCEPT !["follower"] = "vleader"]
    /\ UNCHANGED <<n, job, hubq, handle, poll, watchers, stray, req, stops, restarts>>

StopDirect ==
    /\ vl = "direct" /\ VlStop
    /\ UNCHANGED <<n, job, hubq, handle, poll, watchers, stray, req, stops, restarts>>

Restart ==
    /\ restarts < Restarts /\ restarts' = restarts + 1
    /\ handle' = [m \in Manager |-> 0] /\ poll' = NoPoll /\ watchers' = {}
    /\ vl' = "off" /\ stray' = FALSE
    /\ req' = [r \in Starter |-> NoReq] /\ all' = NoStop /\ one' = NoPhone
    /\ owner' = [d \in Device |-> IF owner[d] = "job" THEN "job" ELSE "none"]
    /\ UNCHANGED <<n, job, hubq>>

----------------------------------------------------------------------------
(* POST mode/stop: each manager in turn, then the virtual leader holds *)

After(m) == CASE m = "policy" -> "record" [] m = "record" -> "teleop" [] OTHER -> "hold"

(* A poll that HUBq answered before the newest job started *)
Stale(m) == poll.at = "asked" /\ ManagerOf(poll.what) = m /\ poll.id # n

(* What the console can know of when it is called: the job of a handle, or any job a manager without one *)
(* asks for, unless a stale answer is about to take its place                                           *)
StopAll ==
    /\ all.at = "idle"
    /\ all' = [at |-> "policy", waits |-> FALSE,
               promised |-> IF \E m \in Manager : Lives(m) /\ handle[m] \in {0, n} /\ ~Stale(m) THEN n ELSE 0]
    /\ UNCHANGED <<owner, n, job, hubq, handle, poll, watchers, vl, stray, req, one, restarts>>

(* A manager without a handle takes HUBq's silence for nothing running *)
StopLook(m) ==
    /\ all.at = m /\ ~all.waits
    /\ IF Sees(m) THEN all' = [all EXCEPT !.waits = TRUE] /\ Known(m) /\ Watched(n, job.what)
                  ELSE /\ all' = [at |-> After(m), waits |-> FALSE,
                                  promised |-> IF handle[m] = 0 /\ ~hubq THEN 0 ELSE all.promised]
                       /\ UNCHANGED <<handle, watchers>>
    /\ UNCHANGED <<owner, n, job, hubq, poll, vl, stray, req, one, restarts>>

(* The job of the handle as it is by now ends, through HUBq or by the signal past it; or it does not *)
(* in time, and that is the answer. A recording is stopped without the lock                          *)
StopJob(m) ==
    /\ all.at = m /\ all.waits /\ (m = "record" \/ Unlocked(m))
    /\ \/ /\ IF Sees(m) THEN Dies /\ Known(m) ELSE UNCHANGED <<job, owner, handle>>
          /\ all' = [at |-> After(m), waits |-> FALSE, promised |-> all.promised]
       \/ all' = NoStop /\ UNCHANGED <<job, owner, handle>>
    /\ UNCHANGED <<n, hubq, poll, watchers, vl, stray, req, one, restarts>>

StopAnswers ==
    /\ all.at = "hold" /\ all' = NoStop
    /\ UNCHANGED <<owner, n, job, hubq, handle, poll, watchers, vl, stray, req, one, restarts>>

(* POST mobile/stop: the session is compared under the manager's lock, the job is stopped after it *)
PhoneStop(p) ==
    /\ one.at = "idle" /\ Unlocked("teleop") /\ Sees("teleop") /\ job.phone = p
    /\ one' = [at |-> "signal", phone |-> p, target |-> n] /\ Known("teleop")
    /\ UNCHANGED <<owner, n, job, hubq, poll, watchers, vl, stray, req, all, restarts>>

(* mutant: what is stopped is the job the manager knows by then *)
PhoneSignalsNewest ==
    /\ one.at = "signal" /\ one' = NoPhone
    /\ \/ Lives("teleop") /\ Dies
       \/ UNCHANGED <<job, owner>>
    /\ UNCHANGED <<n, hubq, handle, poll, watchers, vl, stray, req, all, restarts>>

PhoneSignals ==
    /\ one.at = "signal" /\ one' = NoPhone
    /\ \/ one.target = n /\ Dies
       \/ UNCHANGED <<job, owner>>
    /\ UNCHANGED <<n, hubq, handle, poll, watchers, vl, stray, req, all, restarts>>

----------------------------------------------------------------------------
Starts(r) ==
    \/ Doctor(r) \/ Relay(r) \/ Refused(r) \/ Spawn(r)
    \/ Answered(r) \/ Failed(r)

Next ==
    \/ \E r \in Starter : Starts(r) \/ \E w \in What, p \in Phone \cup {"none"} : Claim(r, w, p)
    \/ \E m \in Manager : PollAsks(m) \/ StopLook(m) \/ StopJob(m)
    \/ PollLands \/ JobEnds \/ HubqFlips \/ StartDirect \/ StopDirect \/ Restart \/ StopAll \/ StopAnswers
    \/ PhoneSignals \/ (\E id \in watchers : WatchExit(id)) \/ \E p \in Phone : PhoneStop(p)

Spec == Init /\ [][Next]_vars

----------------------------------------------------------------------------
(* mode/stop answers that everything stopped (app.stop_active_mode): a job  *)
(* the console could know of when it was called does not live on, whatever  *)
(* was started, adopted or restarted meanwhile.  It could not know of it    *)
(* when its manager still held an older job (a start's answer was lost),    *)
(* when HUBq was silent as a manager without a handle asked, or when a poll *)
(* that had asked before the job's start was still on its way back.         *)
StopStopsAll ==
    [][all.at = "hold" /\ all'.at = "idle" /\ all.promised # 0 => ~(job.live /\ n = all.promised)]_vars

(* A late stop of one phone does not stop the teleoperation of another      *)
(* phone or of the Mac (app.stop_mobile_teleoperation).                     *)
OldPhoneSpares ==
    [][one.at = "signal" /\ one'.at = "idle" /\ job.live /\ ~job'.live => job.phone = one.phone]_vars

RecordsVirtually ==
    \/ job.live /\ job.what = "record-virtual"
    \/ \E r \in Starter : req[r].what = "record-virtual" /\ req[r].at # "idle"

(* The relay of goals the console knows is always attended: by the          *)
(* recording it is for, by the request that starts one, or by a watcher     *)
(* that is about to end it, also when a start fails or its answer is lost,  *)
(* and when a surviving recording is adopted (start_recording,              *)
(* RecordManager._watch_exit, _adopt_active).                               *)
RelayAttended == vl = "relay" => RecordsVirtually \/ watchers # {}
=============================================================================
