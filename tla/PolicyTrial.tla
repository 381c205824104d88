---------------------------- MODULE PolicyTrial ----------------------------
(***************************************************************************)
(* One policy rollout: the process of src/soarm_console/policying.py, from *)
(* its checks to its exit.  The main thread aligns the arm with the home   *)
(* pose, loads the policy (here, or on the remote server through           *)
(* FailSafeRobotClient), lets it drive the arm, and drives it home again.  *)
(* Beside it run the helper that connects, the receiver of actions, the    *)
(* watchdog of the time limit, and the signal handler, which main          *)
(* exchanges three times.                                                  *)
(*                                                                         *)
(* A pose is abstracted to its distance from the target of the alignment:  *)
(* "in" the arrival tolerance, "near" (inside the follow error) or "far".  *)
(* Writes of the status file succeed.                                      *)
(***************************************************************************)
EXTENDS Integers

CONSTANTS Chunk,   \* actions the remote server sends in one answer
          Trials   \* trials in a row (bound)

ASSUME ChunkAssumption == Chunk \in Nat \ {0}
ASSUME TrialsAssumption == Trials \in Nat \ {0}

VARIABLES
    trial,   \* number of the trial whose process runs or ran last
    mode,    \* what it was asked for: remote inference, a home pose
    pc,      \* main thread
    rc,      \* exit status of the process
    handler, \* what SIGTERM does at the moment
    heard,   \* the events SIGTERM sets: stop_requested, return_stop_requested
    status,  \* runtime/policy/status.json: the phase
    armed,   \* the motion trace waits for the first action of the policy
    al,      \* align_home: its stage, the distance, whether the deadline has passed
    client,  \* FailSafeRobotClient and its threads
    pending, \* an exception is on its way through main's finally
    saw      \* history: what the arm and the connection went through

asked == <<trial, mode>>
tvars == <<trial, mode, pc, rc, handler, heard, status, armed, al, client, pending, saw>>

Gap == {"in", "near", "far"}
Phase == {"none", "aligning", "loading", "running", "returning"}
NoClient == [helper |-> "none", receiver |-> "off", watchdog |-> "off", look |-> FALSE,
             sending |-> FALSE, queue |-> 0, shut |-> FALSE, stopping |-> FALSE, closed |-> FALSE, failure |-> FALSE]
Unseen == [moved |-> FALSE, broken |-> FALSE, after |-> 0]
Resting == [stage |-> "none", gap |-> "far", late |-> FALSE]

TrialTypeOK ==
    /\ trial \in 0..Trials
    /\ mode \in [remote : BOOLEAN, home : BOOLEAN]
    /\ pc \in {"off", "boot", "align", "prepare", "swap", "load", "closing", "act",
               "mark", "close", "join", "turn", "return", "done"}
    /\ rc \in {"none", "ok", "error", "killed"}
    /\ handler \in {"default", "flag", "rollout", "back"}
    /\ heard \in [stop : BOOLEAN, back : BOOLEAN]
    /\ status \in Phase
    /\ armed \in BOOLEAN /\ pending \in BOOLEAN
    /\ al \in [stage : {"none", "frames", "settle"}, gap : Gap, late : BOOLEAN]
    /\ client \in [helper : {"none", "calling", "ready", "failed"}, receiver : {"off", "on", "fetching"},
                   watchdog : {"off", "on", "marked", "done"}, look : BOOLEAN,
                   sending : BOOLEAN, queue : 0..Chunk,
                   shut : BOOLEAN, stopping : BOOLEAN, closed : BOOLEAN, failure : BOOLEAN]
    /\ saw \in [moved : BOOLEAN, broken : BOOLEAN, after : 0..2]

TrialInit ==
    /\ trial = 0 /\ mode = [remote |-> FALSE, home |-> FALSE]
    /\ pc = "off" /\ rc = "none" /\ handler = "default" /\ heard = [stop |-> FALSE, back |-> FALSE]
    /\ status = "none"
    /\ armed = FALSE /\ al = Resting /\ client = NoClient /\ pending = FALSE /\ saw = Unseen

Alive == pc \notin {"off", "done"}

(* PolicyManager.start removes the status of the trial before; the process then finds nothing of it *)
Spawn(m) ==
    /\ ~Alive /\ trial < Trials
    /\ trial' = trial + 1 /\ mode' = m
    /\ pc' = "boot" /\ rc' = "none" /\ handler' = "default" /\ heard' = [stop |-> FALSE, back |-> FALSE]
    /\ status' = "none"
    /\ armed' = FALSE /\ al' = Resting /\ client' = NoClient /\ pending' = FALSE /\ saw' = Unseen

(* What dies with the process *)
Ended ==
    /\ heard' = [stop |-> FALSE, back |-> FALSE]
    /\ armed' = FALSE /\ al' = Resting /\ client' = NoClient /\ pending' = FALSE
    /\ saw' = Unseen

(* The outer except publishes the phase it had, the outer finally gives the handler back *)
Exit(how) ==
    /\ pc' = "done" /\ rc' = how
    /\ handler' = "default"
    /\ Ended
    /\ UNCHANGED <<asked, status>>

GoTo(next) == pc' = next /\ UNCHANGED <<asked, rc>>

----------------------------------------------------------------------------
(* Before the arm moves *)

(* A setting, the calibration, the task, the home pose or the lock refuse; no status is written *)
Refuse ==
    /\ pc = "boot"
    /\ pc' = "done" /\ rc' = "error"
    /\ Ended
    /\ UNCHANGED <<asked, handler, status>>

Begin ==
    /\ pc = "boot"
    /\ GoTo(IF mode.home THEN "align" ELSE "prepare")
    /\ handler' = "flag"
    /\ status' = IF mode.home THEN "aligning" ELSE "loading"
    /\ al' = [al EXCEPT !.stage = IF mode.home THEN "frames" ELSE "none"]
    /\ UNCHANGED <<heard, armed, client, pending, saw>>

(* present_position when no home was given, then the configuration: each may raise *)
Prepare ==
    /\ pc = "prepare"
    /\ \/ Exit("error")
       \/ heard.stop /\ Exit("ok")
       \/ /\ ~heard.stop
          /\ GoTo("swap")
          /\ UNCHANGED <<handler, heard, status, armed, al, client, pending, saw>>

Swap ==
    /\ pc = "swap"
    /\ GoTo("load")
    /\ status' = "loading"
    /\ handler' = IF mode.remote THEN handler ELSE "default"
    /\ armed' = TRUE
    /\ UNCHANGED <<heard, al, client, pending, saw>>

----------------------------------------------------------------------------
(* align_home, towards the home pose and back *)

Aligning == pc \in {"align", "return"}
StopHeard == IF pc = "align" THEN heard.stop ELSE heard.back

(* It returns: stopped, or arrived at distance g *)
AlignReturns(stopped, g) ==
    IF pc = "return" THEN Exit(IF pending THEN "error" ELSE "ok")
    ELSE IF stopped THEN Exit("ok")
    ELSE /\ GoTo("prepare")
         /\ al' = [Resting EXCEPT !.gap = g]
         /\ UNCHANGED <<handler, heard, status, armed, client, pending, saw>>

AlignGoesOn(stage, g) ==
    /\ al' = [al EXCEPT !.stage = stage, !.gap = g]
    /\ UNCHANGED <<asked, pc, rc, handler, heard, status, armed, client, pending, saw>>

AlignStop == Aligning /\ al.gap # "in" /\ StopHeard /\ AlignReturns(TRUE, al.gap)

(* align() ran to its last frame or to the deadline, and the arm is read *)
AlignFrames ==
    /\ Aligning /\ al.stage = "frames" /\ ~StopHeard
    /\ \E g \in Gap :
        \/ ~al.late /\ AlignGoesOn("settle", g)
        \/ al.late /\ g = "in" /\ AlignReturns(FALSE, g)
        \/ al.late /\ g # "in" /\ Exit("error")

(* mutant: the settling ends the alignment, however far the arm still is *)
SettleAcceptsFar ==
    /\ Aligning /\ al.stage = "settle"
    /\ \/ AlignReturns(FALSE, al.gap)
       \/ al.gap # "in" /\ ~StopHeard /\ ~al.late /\ \E g \in Gap : AlignGoesOn("settle", g)

(* The last target is held while the servos settle *)
AlignSettle ==
    /\ Aligning /\ al.stage = "settle"
    /\ \/ al.gap = "in" /\ AlignReturns(FALSE, "in")
       \/ /\ al.gap # "in" /\ ~StopHeard
          /\ \/ ~al.late /\ \E g \in Gap : AlignGoesOn("settle", g)
             \/ al.gap = "near" /\ AlignReturns(FALSE, "near")
             \/ al.gap = "far" /\ al.late /\ Exit("error")
             \/ al.gap = "far" /\ ~al.late /\ AlignGoesOn("frames", "far")

(* Connecting, reading or writing the bus raises *)
AlignRaises == Aligning /\ Exit("error")

(* ALIGNMENT_ARRIVAL_TIMEOUT_S has passed *)
AlignDeadline ==
    /\ Aligning /\ ~al.late
    /\ al' = [al EXCEPT !.late = TRUE]
    /\ UNCHANGED <<asked, pc, rc, handler, heard, status, armed, client, pending, saw>>

----------------------------------------------------------------------------
(* The inner finally of main: a broken remote connection is held, everything else goes home *)

(* mutant: a stop that was heard outweighs the broken connection *)
UnwindForgets(raised) ==
    IF raised /\ mode.remote /\ ~heard.stop THEN Exit("error")
    ELSE /\ GoTo("turn")
         /\ pending' = raised /\ armed' = FALSE /\ client' = NoClient
         /\ UNCHANGED <<handler, heard, status, al, saw>>

Unwind(raised) ==
    IF raised /\ mode.remote THEN Exit("error")
    ELSE /\ GoTo("turn")
         /\ pending' = raised /\ armed' = FALSE /\ client' = NoClient
         /\ UNCHANGED <<handler, heard, status, al, saw>>

Turn ==
    /\ pc = "turn"
    /\ GoTo("return")
    /\ handler' = "back"
    /\ status' = "returning"
    /\ al' = [Resting EXCEPT !.stage = "frames"]
    /\ UNCHANGED <<heard, armed, client, pending, saw>>

----------------------------------------------------------------------------
(* A local rollout: LeRobot loads the policy, installs its own signal handler and drives the arm *)

LocalInstall ==
    /\ pc = "load" /\ ~mode.remote /\ handler = "default"
    /\ handler' = "rollout"
    /\ UNCHANGED <<asked, pc, rc, heard, status, armed, al, client, pending, saw>>

LocalLoaded ==
    /\ pc = "load" /\ ~mode.remote /\ handler = "rollout"
    /\ GoTo("act")
    /\ client' = [client EXCEPT !.queue = Chunk]
    /\ UNCHANGED <<handler, heard, status, armed, al, pending, saw>>

(* The rollout returns at its duration or when it is shut down; loading and driving may raise *)
LocalEnds ==
    /\ ~mode.remote
    /\ \/ pc = "act" /\ Unwind(FALSE)
       \/ pc \in {"load", "act"} /\ Unwind(TRUE)

----------------------------------------------------------------------------
(* FailSafeRobotClient.  Its robot, channel and helper come with the client *)

UpdateClient(c) ==
    /\ client' = c
    /\ UNCHANGED <<asked, pc, rc, handler, heard, status, armed, al, pending, saw>>

ConnectStart ==
    /\ pc = "load" /\ mode.remote /\ client.helper = "none"
    /\ \/ UpdateClient([client EXCEPT !.helper = "calling"])
       \/ Unwind(TRUE)

(* The server has loaded the checkpoint; or the call failed, by the connection or by anything else *)
HelperReturns ==
    /\ client.helper = "calling"
    /\ \/ ~client.closed /\ UpdateClient([client EXCEPT !.helper = "ready"])
       \/ UpdateClient([client EXCEPT !.helper = "failed"])

(* mutant: the stop is looked at only when the server has answered *)
LoadStoppedLate ==
    /\ pc = "load" /\ client.helper \notin {"none", "calling"} /\ heard.stop
    /\ GoTo("closing")
    /\ client' = [client EXCEPT !.stopping = TRUE]
    /\ UNCHANGED <<handler, heard, status, armed, al, pending, saw>>

(* _start_interruptibly sees the stop before it sees the helper end *)
LoadStopped ==
    /\ pc = "load" /\ client.helper # "none" /\ heard.stop
    /\ GoTo("closing")
    /\ client' = [client EXCEPT !.stopping = TRUE]
    /\ UNCHANGED <<handler, heard, status, armed, al, pending, saw>>

LoadClose ==
    /\ pc = "closing"
    /\ IF client.closed THEN Unwind(FALSE) ELSE UpdateClient([client EXCEPT !.closed = TRUE])

LoadDone ==
    /\ pc = "load" /\ client.helper \in {"ready", "failed"}
    /\ IF client.helper = "failed" THEN Unwind(TRUE)
       ELSE /\ GoTo("act")
            /\ client' = [client EXCEPT !.receiver = "on", !.watchdog = "on"]
            /\ UNCHANGED <<handler, heard, status, armed, al, pending, saw>>

(* mutant: every error of the connection is recorded *)
AbortedAlways(c) == [c EXCEPT !.failure = TRUE, !.shut = TRUE, !.queue = 0]
(* mutant: the queue is emptied but the loop is not shut down *)
AbortedOpen(c) == [c EXCEPT !.failure = @ \/ ~c.stopping, !.queue = 0]

(* abort: a break that is no consequence of our own end is recorded; the queue is emptied *)
Aborted(c) == [c EXCEPT !.failure = @ \/ ~c.stopping, !.shut = TRUE, !.queue = 0]

(* An RPC fails or the channel reports a failure *)
Break ==
    /\ client.helper # "none" /\ ~client.closed
    /\ client' = Aborted(client)
    /\ saw' = [saw EXCEPT !.broken = @ \/ ~client.stopping]
    /\ UNCHANGED <<asked, pc, rc, handler, heard, status, armed, al, pending>>

(* Closing the channel cancels the calls in flight, which their threads see as errors *)
Cancelled ==
    /\ client.closed /\ client.helper # "none"
    /\ UpdateClient([Aborted(client) EXCEPT !.helper = IF @ = "calling" THEN "failed" ELSE @])

Receive ==
    \/ client.receiver = "on" /\ ~client.shut /\ UpdateClient([client EXCEPT !.receiver = "fetching"])
    \/ client.receiver = "fetching" /\ UpdateClient([client EXCEPT !.receiver = "on", !.queue = Chunk])
    \/ client.receiver = "on" /\ client.shut /\ UpdateClient([client EXCEPT !.receiver = "off"])

(* The watchdog: the time is up or a stop was requested *)
Watch ==
    \/ client.watchdog = "on" /\ UpdateClient([client EXCEPT !.watchdog = "marked", !.stopping = TRUE])
    \/ client.watchdog = "marked" /\ UpdateClient([client EXCEPT !.watchdog = "done", !.shut = TRUE])

(* control_loop looks at the shutdown event, takes an action from the queue if there is one, and *)
(* sends an observation when few are left: a call that is back when the server has answered it   *)
Look ==
    /\ pc = "act" /\ ~client.look /\ ~client.sending /\ ~client.shut
    /\ UpdateClient([client EXCEPT !.look = TRUE])

(* The trace publishes "running" before it passes the first action on *)
Announce ==
    /\ pc = "act" /\ client.look /\ client.queue > 0 /\ armed
    /\ armed' = FALSE
    /\ status' = "running"
    /\ UNCHANGED <<asked, pc, rc, handler, heard, al, client, pending, saw>>

Act ==
    /\ pc = "act" /\ client.look
    /\ \/ /\ client.queue > 0 /\ ~armed
          /\ \E more \in {FALSE, mode.remote} :
               client' = [client EXCEPT !.look = FALSE, !.sending = more,
                                        !.queue = IF mode.remote THEN @ - 1 ELSE @]
          /\ saw' = [saw EXCEPT !.moved = TRUE, !.after = IF saw.broken /\ @ < 2 THEN @ + 1 ELSE @]
       \/ /\ client.queue = 0
          /\ \E more \in {FALSE, mode.remote} :
               client' = [client EXCEPT !.look = FALSE, !.sending = more]
          /\ UNCHANGED saw
    /\ UNCHANGED <<asked, pc, rc, handler, heard, status, armed, al, pending>>

(* The server has taken the observation, or the call has failed: nothing says that either happens *)
Sent == client.sending /\ UpdateClient([client EXCEPT !.sending = FALSE])

(* control_loop returns, or raises; run's finally ends the client before anything else.  What is *)
(* received after the loop and what the watchdog sets after the finally has no effect any more   *)
ActEnds ==
    /\ pc = "act" /\ mode.remote /\ ~client.sending
    /\ \/ client.shut /\ ~client.look /\ UNCHANGED pending
       \/ pending' = TRUE
    /\ GoTo("mark")
    /\ client' = [client EXCEPT !.receiver = "off", !.queue = 0, !.look = FALSE]
    /\ UNCHANGED <<handler, heard, status, armed, al, saw>>

Finish ==
    \/ /\ pc = "mark" /\ GoTo("close")
       /\ client' = [client EXCEPT !.stopping = TRUE, !.watchdog = "done"]
       /\ UNCHANGED <<handler, heard, status, armed, al, pending, saw>>
    \/ /\ pc = "close" /\ GoTo("join")
       /\ client' = [client EXCEPT !.shut = TRUE, !.closed = TRUE]
       /\ UNCHANGED <<handler, heard, status, armed, al, pending, saw>>
    \/ /\ pc = "join"
       /\ Unwind(pending \/ client.failure)

----------------------------------------------------------------------------
(* Signals *)

Kill ==
    /\ Alive
    /\ pc' = "done" /\ rc' = "killed" /\ handler' = "default"
    /\ Ended
    /\ UNCHANGED <<asked, status>>

Sigterm ==
    /\ Alive
    /\ \/ handler = "default" /\ Kill
       \/ /\ handler = "flag"
          /\ heard' = [heard EXCEPT !.stop = TRUE]
          /\ UNCHANGED <<asked, pc, rc, handler, status, armed, al, client, pending, saw>>
       \/ /\ handler = "back"
          /\ heard' = [heard EXCEPT !.back = TRUE]
          /\ UNCHANGED <<asked, pc, rc, handler, status, armed, al, client, pending, saw>>
       \/ handler = "rollout" /\ UpdateClient([client EXCEPT !.shut = TRUE])

Main ==
    \/ Refuse \/ Begin \/ Prepare \/ Swap \/ Turn
    \/ AlignStop \/ AlignFrames \/ AlignSettle
    \/ LocalInstall \/ LocalLoaded \/ LocalEnds
    \/ ConnectStart \/ LoadStopped \/ LoadClose \/ LoadDone
    \/ Look \/ Announce \/ Act \/ ActEnds \/ Finish

TrialStep == Main \/ AlignRaises \/ AlignDeadline \/ HelperReturns \/ Sent \/ Break \/ Cancelled \/ Receive \/ Watch
=============================================================================
