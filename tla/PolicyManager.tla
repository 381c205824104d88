--------------------------- MODULE PolicyManager ---------------------------
(***************************************************************************)
(* The console's PolicyManager (src/soarm_console/policy_manager.py) over  *)
(* the trials of PolicyTrial: request threads that start and stop a trial  *)
(* under one re-entrant lock, one watcher thread per trial, the polling    *)
(* that takes over an unknown trial, and the side job of the remote host,  *)
(* which keeps the policy server on the GPU.  HUBq spawns and stops the    *)
(* process; it may be out of reach, and its answer to a start may be lost. *)
(* The console itself may be restarted while a trial goes on.              *)
(***************************************************************************)
EXTENDS PolicyTrial, FiniteSets

CONSTANTS Caller,   \* request threads of the console
          Modes,    \* the kinds of trials that are asked for
          Restarts  \* restarts of the console (bound)

ASSUME CallerAssumption == IsFiniteSet(Caller) /\ 0 \notin Caller
ASSUME ModesAssumption == Modes \subseteq [remote : BOOLEAN, home : BOOLEAN]
ASSUME RestartsAssumption == Restarts \in Nat

VARIABLES
    handle,    \* _process: the trial it stands for, and whether start or a poll made the object
    watching,  \* _watching_job_id
    sideFlag,  \* _remote_side_active
    side,      \* the side job on the remote host: down, up, or left up by a host that did not answer
    lock,      \* holder of _lock: a caller, or 0
    call,      \* what each request thread is doing
    watchers,  \* watcher threads that have not ended, each with its handle
    answers,   \* HUBq's answers to polls that have not put them into _process yet
    term,      \* HUBq has signalled this trial and will kill it at its timeout; 0 for none
    restarts

mvars == <<handle, watching, sideFlag, side, lock, call, watchers, answers, term, restarts>>
vars == <<tvars, mvars>>

Handle == [job : 0..Trials, by : {"none", "start", "poll"}]
NoHandle == [job |-> 0, by |-> "none"]
Answer == [job : 0..Trials, remote : BOOLEAN]
Idle == [at |-> "none", m |-> [remote |-> FALSE, home |-> FALSE]]

TypeOK ==
    /\ TrialTypeOK
    /\ handle \in Handle /\ watchers \subseteq Handle /\ answers \subseteq Answer
    /\ watching \in 0..Trials /\ term \in 0..Trials
    /\ sideFlag \in BOOLEAN /\ side \in {"down", "up", "stuck"}
    /\ lock \in Caller \cup {0}
    /\ call \in [Caller -> [at : {"none", "side", "job", "answer", "lost", "term", "kill"},
                            m : [remote : BOOLEAN, home : BOOLEAN]]]
    /\ restarts \in 0..Restarts

Init ==
    /\ TrialInit
    /\ handle = NoHandle /\ watching = 0
    /\ sideFlag = FALSE /\ side = "down" /\ lock = 0
    /\ call = [c \in Caller |-> Idle] /\ watchers = {} /\ answers = {} /\ term = 0 /\ restarts = 0

Running == handle.job = trial /\ Alive

(* _stop_remote_resources: the flag falls only when the host answered *)
StopSide(wanted) ==
    IF wanted /\ sideFlag
    THEN \/ side' = "down" /\ sideFlag' = FALSE
         \/ side' = (IF side = "up" THEN "stuck" ELSE side) /\ UNCHANGED sideFlag
    ELSE UNCHANGED <<side, sideFlag>>

(* A thread that waits for the lock has done nothing yet *)
Enters(c) == call[c] = Idle /\ lock = 0
Return(c) == lock' = 0 /\ call' = [call EXCEPT ![c] = Idle]
MoveTo(c, place) == lock' = c /\ call' = [call EXCEPT ![c].at = place]

----------------------------------------------------------------------------
(* start *)

(* A trial is running, or the checks of the hardware, the model or the task refuse *)
StartRefused(c, m) ==
    /\ Enters(c)
    /\ IF Running THEN UNCHANGED <<side, sideFlag>> ELSE StopSide(~m.remote)
    /\ UNCHANGED <<tvars, lock, call, handle, watching, watchers, answers, term, restarts>>

(* The status of the trial before is deleted and the fields of the new one are set *)
StartPrepares(c, m) ==
    /\ Enters(c) /\ ~Running /\ trial < Trials
    /\ StopSide(~m.remote)
    /\ status' = "none"
    /\ lock' = c
    /\ call' = [call EXCEPT ![c] = [at |-> IF m.remote THEN "side" ELSE "job", m |-> m]]
    /\ UNCHANGED <<asked, pc, rc, handler, heard, armed, al, client, pending, saw,
                   handle, watching, watchers, answers, term, restarts>>

(* ensure_policy_side: a failure may leave the side job behind *)
StartSide(c) ==
    /\ call[c].at = "side"
    /\ \/ side' = "up" /\ sideFlag' = TRUE /\ MoveTo(c, "job")
       \/ Return(c) /\ StopSide(TRUE)
       \/ Return(c) /\ ~sideFlag /\ side' = "up" /\ UNCHANGED sideFlag
    /\ UNCHANGED <<tvars, handle, watching, watchers, answers, term, restarts>>

(* HUBq starts one policy at a time, or refuses; whatever it was stopping has ended *)
StartJob(c) ==
    /\ call[c].at = "job"
    /\ \/ Spawn(call[c].m) /\ term' = 0
          /\ \E answer \in {"answer", "lost"} : MoveTo(c, answer)
          /\ UNCHANGED <<side, sideFlag>>
       \/ UNCHANGED <<tvars, term>> /\ StopSide(call[c].m.remote) /\ Return(c)
    /\ UNCHANGED <<handle, watching, watchers, answers, restarts>>

(* _start_watcher: one thread for each job, with the handle of the moment *)
Watched(h) ==
    /\ handle' = h /\ watching' = h.job
    /\ watchers' = IF watching = h.job THEN watchers ELSE watchers \cup {h}

StartAnswered(c) ==
    /\ call[c].at = "answer" /\ Return(c)
    /\ Watched([job |-> trial, by |-> "start"])
    /\ UNCHANGED <<tvars, sideFlag, side, answers, term, restarts>>

(* The answer of HUBq does not come: the trial runs, and start reports an error *)
StartLost(c) ==
    /\ call[c].at = "lost" /\ Return(c) /\ StopSide(call[c].m.remote)
    /\ UNCHANGED <<tvars, handle, watching, watchers, answers, term, restarts>>

----------------------------------------------------------------------------
(* stop *)

(* Nothing runs: only the side is stopped *)
StopNothing(c) ==
    /\ Enters(c) /\ ~Running /\ StopSide(TRUE)
    /\ UNCHANGED <<tvars, lock, call, handle, watching, watchers, answers, term, restarts>>

(* SIGTERM through HUBq, or past it when it is out of reach *)
StopSignals(c) ==
    /\ Enters(c) /\ Running
    /\ \/ MoveTo(c, "term") /\ term' = trial
       \/ MoveTo(c, "kill") /\ UNCHANGED term
    /\ Sigterm
    /\ UNCHANGED <<handle, watching, sideFlag, side, watchers, answers, restarts>>

(* HUBq goes silent while it waits: its request to stop may or may not be pending *)
StopLosesHubq(c) ==
    /\ call[c].at = "term" /\ Alive
    /\ MoveTo(c, "kill") /\ Sigterm
    /\ UNCHANGED <<handle, watching, sideFlag, side, watchers, answers, term, restarts>>

StopEnds(c) ==
    /\ call[c].at \in {"term", "kill"} /\ ~Alive
    /\ Return(c) /\ StopSide(TRUE) /\ term' = 0
    /\ UNCHANGED <<tvars, handle, watching, watchers, answers, restarts>>

(* The last resort *)
StopKills(c) ==
    /\ call[c].at = "kill" /\ Kill /\ Return(c) /\ term' = 0
    /\ UNCHANGED <<handle, watching, sideFlag, side, watchers, answers, restarts>>

(* HUBq kills a policy that outlives the timeout of its stop *)
HubqKills ==
    /\ term = trial /\ Kill
    /\ term' = 0
    /\ UNCHANGED <<handle, watching, sideFlag, side, lock, call, watchers, answers, restarts>>

----------------------------------------------------------------------------
(* The watcher threads, the adoption of a trial, the restart of the console *)

(* mutant: the watcher cleans up without asking whose trial it is now *)
WatchExitBlindly(w) ==
    /\ w \in watchers /\ lock = 0 /\ (w.job # trial \/ ~Alive)
    /\ watchers' = watchers \ {w}
    /\ StopSide(w.job # trial \/ rc # "ok")
    /\ UNCHANGED <<tvars, handle, watching, lock, call, answers, term, restarts>>

(* The handle is compared as an object: two polls that take over one trial make two of them *)
WatchExit(w) ==
    /\ w \in watchers /\ lock = 0 /\ (w.job # trial \/ ~Alive)
    /\ watchers' = watchers \ {w}
    /\ \/ handle = w /\ (w.job = trial => rc # "ok") /\ StopSide(TRUE)
       \/ (handle = w /\ w.by = "start" /\ w.job = trial => rc = "ok") /\ UNCHANGED <<side, sideFlag>>
    /\ UNCHANGED <<tvars, handle, watching, lock, call, answers, term, restarts>>

(* A console that knows no trial asks HUBq for the one that runs: every poll of the page and every *)
(* request does, without the lock.  Polls that ask about one trial at the same time are one here   *)
AdoptAsk ==
    /\ handle = NoHandle /\ Alive
    /\ answers' = answers \cup {[job |-> trial, remote |-> mode.remote]}
    /\ UNCHANGED <<tvars, handle, watching, sideFlag, side, lock, call, watchers, term, restarts>>

(* Whatever happened since, the trial of the answer is put into _process *)
AdoptLands(a) ==
    /\ answers' = answers \ {a}
    /\ Watched([job |-> a.job, by |-> "poll"])
    /\ sideFlag' = a.remote
    /\ UNCHANGED <<tvars, side, lock, call, term, restarts>>

Restart ==
    /\ restarts < Restarts
    /\ restarts' = restarts + 1
    /\ handle' = NoHandle /\ watching' = 0 /\ sideFlag' = FALSE /\ lock' = 0
    /\ call' = [c \in Caller |-> Idle] /\ watchers' = {} /\ answers' = {}
    /\ UNCHANGED <<tvars, side, term>>

Manage ==
    \/ \E c \in Caller, m \in Modes : StartRefused(c, m) \/ StartPrepares(c, m)
    \/ \E c \in Caller : \/ StartSide(c) \/ StartJob(c) \/ StartAnswered(c) \/ StartLost(c)
                         \/ StopNothing(c) \/ StopSignals(c) \/ StopLosesHubq(c)
                         \/ StopEnds(c) \/ StopKills(c)
    \/ HubqKills \/ AdoptAsk \/ Restart
    \/ \E a \in answers : AdoptLands(a)
    \/ \E w \in watchers : WatchExit(w)

Next == (TrialStep /\ UNCHANGED mvars) \/ Manage

Spec == Init /\ [][Next]_vars

(* The main thread, the watchdog once a stop is heard, and the deadline of an alignment: *)
(* threads and clocks of the robot's own computer.  Of the server nothing is assumed, not *)
(* even that a call returns                                                             *)
FairSpec ==
    /\ Spec
    /\ WF_vars(Main /\ UNCHANGED mvars)
    /\ WF_vars(AlignDeadline /\ UNCHANGED mvars)
    /\ WF_vars(heard.stop /\ Watch /\ UNCHANGED mvars)

----------------------------------------------------------------------------

(* A connection that broke while the policy drove the arm ends in a hold: no way home, even when *)
(* the time runs out or a person presses stop at the same moment (main's inner finally)          *)
HoldAfterBreak == mode.remote /\ saw.broken /\ saw.moved => pc \notin {"turn", "return"}

(* The errors our own end causes are never recorded as a failure of the connection *)
(* (FailSafeRobotClient.abort: the person pressed stop, so the arm goes home)      *)
StopIsNotFailure == client.failure => saw.broken

(* Once the connection broke the arm gets at most the one action the loop already held, though *)
(* an answer in flight fills the queue again after abort emptied it                            *)
AtMostOneAfterBreak == mode.remote => saw.after <= 1

(* A policy with a home pose never starts from a pose out of the follow error, *)
(* however the alignment came to its end                                       *)
PolicyStartsAligned == mode.home /\ pc \in {"swap", "load", "act"} => al.gap # "far"

(* The side job of a remote trial that runs and that the console has in hand is not taken away,   *)
(* neither by the watcher of an older trial nor by a stop, which ends the trial first.  Only a    *)
(* start that fails takes it, and only from a trial that a poll put in hand while the start was   *)
(* on its way.                                                                                    *)
SideLivesWithTrial ==
    [][side = "up" /\ side' # "up" /\ Running /\ mode.remote =>
          handle.by = "poll" /\ \E c \in Caller : call[c].at \in {"side", "job", "lost"}]_vars

(* A remote trial that heard the stop ends, during the load and in the rollout, if no observation *)
(* it sends stays with the server for ever                                                        *)
RemoteStopEnds == []<>(~client.sending) => [](mode.remote /\ heard.stop => <>(pc = "done"))
=============================================================================
