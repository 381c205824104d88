------------------------------ MODULE Replay -------------------------------
(***************************************************************************)
(* The replay of a recorded episode: the process of replaying.py with its  *)
(* main thread, its stop listener and the follower's servos, and the       *)
(* console's ReplayManager, which starts it through HUBq, asks it to stop  *)
(* through runtime/replay/control.json, and interrupts it when it does not *)
(* obey.                                                                   *)
(*                                                                         *)
(* The arm's pose and the servo's goal are named, not measured: where it   *)
(* "stands", the frame k of the alignment, the frame k of the episode.     *)
(* Nobody pushes the arm while a process is connected to it.               *)
(***************************************************************************)
EXTENDS Alignment

CONSTANTS Distance,  \* distances, per unit, from where the arm stands to the first frame
          Frames,    \* frames of the episode
          Replays    \* replays in a row (bound)

ASSUME DistanceAssumption == Distance \subseteq [degree : Nat, percent : Nat]
ASSUME FramesAssumption == Frames \in Nat \ {0}
ASSUME ReplaysAssumption == Replays \in Nat \ {0}

VARIABLES
    replay,   \* number of the replay whose process runs or ran last
    pc,       \* its main thread
    rc,       \* its exit status
    sigint,   \* a SIGINT is pending
    listener, \* _StopListener: off, watching, heard (the file was taken), stopped
    status,   \* runtime/replay/status.json: the phase
    d,        \* the distance of the alignment under way
    k,        \* index of the next frame
    looked,   \* should_stop was asked for frame k
    torque,
    goal,     \* Goal_Position
    control,  \* control.json holds a stop
    handle,   \* ReplayManager._process: the replay it stands for, 0 for None
    stopping, \* ReplayManager.stop: off, asked, interrupted, or the way it came back
    pressed,  \* history: a stop was asked for since this replay was launched
    after     \* history: commands sent after the listener heard the stop

child == <<replay, pc, rc, sigint, listener, status, d, k, looked, torque, goal, after>>
vars == <<child, control, handle, stopping, pressed>>

NoDistance == [degree |-> 0, percent |-> 0]
Stands == [at |-> "stands", k |-> 0]
Old == [at |-> "old", k |-> 0]
Place == [at : {"old", "stands", "align", "episode"}, k : Nat]
Total == alignment_frames(d, REPLAY_ALIGNMENT)

TypeOK ==
    /\ replay \in 0..Replays /\ handle \in 0..Replays
    /\ pc \in {"off", "boot", "load", "listen", "connect", "configure", "enable", "check", "align", "episode",
              "leave", "done"}
    /\ rc \in {"none", "ok", "error"} /\ sigint \in BOOLEAN
    /\ listener \in {"off", "watching", "heard", "stopped"}
    /\ status \in {"none", "starting", "aligning", "replaying", "stopped", "complete", "error"}
    /\ d \in Distance \cup {NoDistance} /\ k \in Nat
    /\ torque \in BOOLEAN /\ looked \in BOOLEAN /\ goal \in Place
    /\ control \in BOOLEAN /\ pressed \in BOOLEAN /\ after \in 0..2
    /\ stopping \in {"off", "asked", "signalled", "ok", "raised", "failed"}

Alive == pc \notin {"off", "done"}

(* An earlier mode left the servos with or without torque, their goal where it last sent them *)
Init ==
    /\ replay = 0 /\ handle = 0 /\ pc = "off" /\ rc = "none" /\ sigint = FALSE
    /\ listener = "off" /\ status = "none" /\ d = NoDistance /\ k = 0 /\ looked = FALSE
    /\ torque \in BOOLEAN /\ goal = IF torque THEN Stands ELSE Old
    /\ control \in BOOLEAN /\ stopping = "off" /\ pressed = FALSE /\ after = 0

----------------------------------------------------------------------------
(* The process: main, run *)

Goes(next) == pc' = next /\ UNCHANGED <<replay, rc, sigint>>

(* A setting is missing or the follower's lock is taken: no status is written *)
Refuse ==
    /\ pc = "boot"
    /\ pc' = "done" /\ rc' = "error"
    /\ UNCHANGED <<replay, sigint, listener, status, d, k, looked, torque, goal, after, control, handle, stopping, pressed>>

(* The stop of an earlier replay must not cut this one short *)
ClearControl ==
    /\ pc = "boot" /\ Goes("load")
    /\ control' = FALSE
    /\ UNCHANGED <<listener, status, d, k, looked, torque, goal, after, handle, stopping, pressed>>

(* The episode is read; what fails here is raised before there is a status *)
LoadEpisode ==
    /\ pc = "load"
    /\ \/ /\ Goes("listen") /\ status' = "starting"
       \/ /\ pc' = "done" /\ rc' = "error" /\ UNCHANGED <<replay, sigint, status>>
    /\ UNCHANGED <<listener, d, k, looked, torque, goal, after, control, handle, stopping, pressed>>

StartListener ==
    /\ pc = "listen" /\ Goes("connect")
    /\ listener' = "watching"
    /\ UNCHANGED <<status, d, k, looked, torque, goal, after, control, handle, stopping, pressed>>

(* mutant: the torque comes on over whatever goal the servo still holds *)
SyncNothing ==
    /\ pc = "connect" /\ Goes("configure")
    /\ UNCHANGED <<listener, status, d, k, looked, torque, goal, after, control, handle, stopping, pressed>>

(* _connect: the goal is brought to the present pose before configure switches the torque on *)
SyncGoal ==
    /\ pc = "connect" /\ Goes("configure")
    /\ goal' = Stands
    /\ UNCHANGED <<listener, status, d, k, looked, torque, after, control, handle, stopping, pressed>>

(* configure writes its settings under torque_disabled: the torque goes off, *)
Configure ==
    /\ pc = "configure" /\ Goes("enable")
    /\ torque' = FALSE
    /\ UNCHANGED <<listener, status, d, k, looked, goal, after, control, handle, stopping, pressed>>

(* and comes on again, unless that write fails or the process is interrupted first *)
Enable ==
    /\ pc = "enable" /\ Goes("check")
    /\ torque' = TRUE
    /\ UNCHANGED <<listener, status, d, k, looked, goal, after, control, handle, stopping, pressed>>

(* The pose is read again and compared; joints that do not match refuse *)
CheckAgain ==
    /\ pc = "check" /\ Goes("align")
    /\ d' \in Distance /\ k' = 1
    /\ status' = "aligning"
    /\ UNCHANGED <<listener, looked, torque, goal, after, control, handle, stopping, pressed>>

Last == IF pc = "align" THEN Total ELSE Frames

(* mutant: the loop over the episode does not ask *)
LookOnlyAligning ==
    /\ pc \in {"align", "episode"} /\ ~looked /\ k <= Last /\ (listener # "stopped" \/ pc = "episode")
    /\ looked' = TRUE /\ Goes(pc)
    /\ UNCHANGED <<listener, status, d, k, torque, goal, after, control, handle, stopping, pressed>>

(* Each frame asks for the stop first, then sends *)
Look ==
    /\ pc \in {"align", "episode"} /\ ~looked /\ k <= Last /\ listener # "stopped"
    /\ looked' = TRUE /\ Goes(pc)
    /\ UNCHANGED <<listener, status, d, k, torque, goal, after, control, handle, stopping, pressed>>

Send ==
    /\ pc \in {"align", "episode"} /\ looked /\ Goes(pc)
    /\ goal' = [at |-> pc, k |-> k] /\ k' = k + 1 /\ looked' = FALSE
    /\ after' = IF listener = "stopped" /\ after < 2 THEN after + 1 ELSE after
    /\ UNCHANGED <<listener, status, d, torque, control, handle, stopping, pressed>>

Aligned ==
    /\ pc = "align" /\ ~looked /\ k > Total /\ Goes("episode")
    /\ k' = 1 /\ status' = "replaying"
    /\ UNCHANGED <<listener, d, looked, torque, goal, after, control, handle, stopping, pressed>>

Ends(phase) ==
    /\ status' = phase /\ k' = 0 /\ looked' = FALSE
    /\ UNCHANGED <<listener, d, torque, goal, after, control, handle, stopping, pressed>>

Stopped ==
    /\ pc \in {"align", "episode"} /\ ~looked /\ k <= Last /\ listener = "stopped"
    /\ Goes("leave") /\ Ends("stopped")

Complete == pc = "episode" /\ ~looked /\ k > Frames /\ Goes("leave") /\ Ends("complete")

(* A refusal, a read or a write that fails, an interrupt: published, and the torque is left as it is *)
Raises ==
    /\ pc \in {"connect", "configure", "enable", "check", "align", "episode"}
    /\ pc' = "leave" /\ rc' = "error" /\ UNCHANGED <<replay, sigint>>
    /\ Ends("error")

Interrupted ==
    /\ sigint
    /\ \/ Raises
       \/ /\ pc \in {"boot", "load", "listen"} /\ pc' = "done" /\ rc' = "error"
          /\ UNCHANGED <<replay, sigint, listener, status, d, k, looked, torque, goal, after, control, handle, stopping, pressed>>

(* The finally: the listener ends, disconnect leaves the torque on *)
Leave ==
    /\ pc = "leave"
    /\ pc' = "done" /\ rc' = (IF rc = "error" THEN rc ELSE "ok")
    /\ listener' = "off"
    /\ UNCHANGED <<replay, sigint, status, d, k, looked, torque, goal, after, control, handle, stopping, pressed>>

(* The listener takes the file, then sets the flag *)
Listen ==
    /\ Alive
    /\ \/ listener = "watching" /\ control /\ listener' = "heard" /\ control' = FALSE
       \/ listener = "heard" /\ listener' = "stopped" /\ UNCHANGED control
    /\ UNCHANGED <<replay, pc, rc, sigint, status, d, k, looked, torque, goal, after, handle, stopping, pressed>>

----------------------------------------------------------------------------
(* Between two replays the person, or another mode, moves the arm or lets go of it *)
Handled ==
    /\ ~Alive /\ goal.at # "old"
    /\ \/ torque' = FALSE /\ goal' = Old
       \/ torque' = TRUE /\ goal' = Stands
    /\ UNCHANGED <<replay, pc, rc, sigint, listener, status, d, k, looked, after, control, handle, stopping, pressed>>

----------------------------------------------------------------------------
(* ReplayManager *)

Running == handle # 0 /\ handle = replay /\ Alive

(* The answer of HUBq may be lost: then the process runs and start reports an error *)
Start ==
    /\ ~Alive /\ replay < Replays
    /\ replay' = replay + 1 /\ handle' \in {handle, replay + 1}
    /\ control' = FALSE /\ pressed' = FALSE
    /\ pc' = "boot" /\ rc' = "none" /\ sigint' = FALSE /\ listener' = "off"
    /\ d' = NoDistance /\ k' = 0 /\ after' = 0
    /\ UNCHANGED <<status, looked, torque, goal, stopping>>

(* start removes the file and is then refused by HUBq *)
StartRefused ==
    /\ control /\ ~Running
    /\ control' = FALSE
    /\ UNCHANGED <<child, handle, stopping, pressed>>

(* running takes over a replay that it does not know, after a restart of the console *)
Adopt ==
    /\ handle = 0 /\ Alive
    /\ handle' = replay
    /\ UNCHANGED <<child, control, stopping, pressed>>

(* POST /api/replay/stop asks only; so does the first half of stop *)
RequestStop ==
    /\ control' = TRUE /\ pressed' = TRUE
    /\ UNCHANGED <<child, handle, stopping>>

Stop ==
    /\ stopping \notin {"asked", "signalled"} /\ Running
    /\ control' = TRUE /\ pressed' = TRUE
    /\ stopping' = "asked"
    /\ UNCHANGED <<child, handle>>

(* A replay that ended in time is followed by a call of a method that does not exist *)
StopObeyed ==
    /\ stopping = "asked" /\ ~Running
    /\ stopping' = "raised"
    /\ UNCHANGED <<child, control, handle, pressed>>

(* SIGINT, through HUBq or past it *)
StopSignals ==
    /\ stopping = "asked" /\ Running
    /\ stopping' = "signalled" /\ sigint' = TRUE
    /\ UNCHANGED <<replay, pc, rc, listener, status, d, k, looked, torque, goal, after, control, handle, pressed>>

StopReturns ==
    /\ stopping = "signalled"
    /\ stopping' = IF Running THEN "failed" ELSE "ok"
    /\ UNCHANGED <<child, control, handle, pressed>>

Main ==
    \/ Refuse \/ ClearControl \/ LoadEpisode \/ StartListener \/ SyncGoal \/ Configure \/ Enable \/ CheckAgain
    \/ Look \/ Send \/ Aligned \/ Stopped \/ Complete \/ Interrupted \/ Leave

Next ==
    \/ Main \/ Raises \/ Listen \/ Handled
    \/ Start \/ StartRefused \/ Adopt \/ RequestStop \/ Stop \/ StopObeyed \/ StopSignals \/ StopReturns

Spec == Init /\ [][Next]_vars

----------------------------------------------------------------------------

(* Frame by frame from the present pose to the first frame of the episode, and then through it: no *)
(* servo that has torque is ever given a goal off this path, whatever an earlier mode left behind  *)
(* (_connect, align, _replay)                                                                      *)
NoLeap ==
    [][torque' => \/ torque /\ goal' = goal
                  \/ goal' = Stands
                  \/ goal'.at = "align" /\ goal'.k <= Total
                       /\ goal = (IF goal'.k = 1 THEN Stands ELSE [at |-> "align", k |-> goal'.k - 1])
                  \/ goal'.at = "episode"
                       /\ goal = (IF goal'.k = 1 THEN [at |-> "align", k |-> Total]
                                                 ELSE [at |-> "episode", k |-> goal'.k - 1])]_vars

(* After the stop is heard at most the command under way is sent, in the alignment, in the episode *)
(* and from the one to the other (_StopListener, align, _replay)                                   *)
AtMostOneAfterStop == after <= 1

(* Stopping is not letting go: whatever sends the arm commands has it held, and no way out of a    *)
(* replay, by refusal, error, interrupt or its end, takes the torque off.  Only configure does, for *)
(* the time of its settings, when the goal is already where the arm stands (_connect, run)          *)
TorqueStays ==
    [][/\ pc' \in {"check", "align", "episode"} => torque'
       /\ Alive /\ torque /\ ~torque' => pc = "configure" /\ goal' = Stands]_vars

(* What POST /api/replay/stop promises: the arm stops where it is. A stop of a running replay is *)
(* in the file or with the listener                                                              *)
StopNotLost ==
    pressed /\ pc \in {"listen", "connect", "configure", "enable", "check", "align", "episode"} =>
        control \/ listener \in {"heard", "stopped"}
=============================================================================
