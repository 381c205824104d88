----------------------------- MODULE Recording -----------------------------
(* One recording session: the worker src/soarm_console/recording.py around *)
(* LeRobot's record(), the thread that listens to the control file, and    *)
(* the console's RecordManager.control and stop, which write that file and *)
(* interrupt the worker.                                                   *)
(*                                                                         *)
(* The main thread runs episodes and, between them, resets in which the    *)
(* scene is put back by hand.  Both are LeRobot's loop, wrapped: the       *)
(* wrapper clears exit_early, opens _loop_running, and turns a bus error   *)
(* into a new attempt.  The two threads share the dictionary of events     *)
(* without a lock, and the listener looks at _loop_running before it       *)
(* writes.  A tick of the loop is a frame; the rate monitor, the previews, *)
(* the sensor columns and the wording of the status are left out.          *)
EXTENDS Naturals, Sequences

CONSTANTS
  None,        \* no key
  Episodes,    \* num_episodes of the session
  Ticks,       \* ticks in episode_time_s and reset_time_s, at most
  MaxFailures, \* MAX_CONSECUTIVE_CONNECTION_FAILURES
  Earlier      \* episodes in the dataset before the session: none, or it is resumed

Key == {"right", "left", "esc", "abort"}

ASSUME NoneAssumption == None \notin Key
ASSUME SizesAssumption ==
  /\ Episodes \in Nat \ {0} /\ Ticks \in Nat \ {0}
  /\ MaxFailures \in Nat \ {0} /\ Earlier \in Nat

VARIABLES
  control,   \* the key in control.json
  held,      \* the key the listener has read
  lpc,       \* the listener: "off", "idle", "read", "taken", "write"
  todo,      \* the events it has still to set
  exit,      \* events["exit_early"]
  rerecord,  \* events["rerecord_episode"]
  stop,      \* events["stop_recording"]
  running,   \* _loop_running
  pc,        \* the main thread
  loop,      \* the loop it is in or was in last: "episode" or "reset"
  gone,      \* the virtual leader's _aborted
  ticks,     \* of the loop
  failures,  \* _consecutive_connection_failures
  recorded,  \* LeRobot's recorded_episodes
  skipped,   \* _empty_episodes_skipped
  reported,  \* _episodes_saved, as the status tells it
  num,       \* episodes in the dataset
  buffer,    \* frames in the episode buffer
  result,    \* the last phase of the status: "none", "complete", "error"
  broken,    \* history: the bus failed during the episode in the buffer
  hit,       \* history: the loop at which the listener looked still runs
  condemned, \* history: abort has struck the episode in the buffer
  extra      \* history: episodes begun after stop_recording was set, up to two

file     == <<control>>
listener == <<held, lpc, todo>>
events   == <<exit, rerecord, stop>>
main     == <<pc, loop, running, gone, ticks>>
counts   == <<failures, recorded, skipped, reported>>
dataset  == <<num, buffer>>
history  == <<broken, hit, condemned, extra>>
vars     == <<file, listener, events, main, counts, dataset, result, history>>

TypeOK ==
  /\ control \in Key \cup {None} /\ held \in Key \cup {None}
  /\ lpc \in {"off", "idle", "read", "taken", "write"}
  /\ todo \in Seq({"rerecord", "stop", "exit"})
  /\ {exit, rerecord, stop, running, gone} \subseteq BOOLEAN
  /\ {broken, hit, condemned} \subseteq BOOLEAN
  /\ pc \in {"start", "while", "enter", "clear", "open", "loop", "tick", "failed",
             "close", "after", "decide", "discard", "save", "saving", "ended"}
  /\ loop \in {"episode", "reset"}
  /\ ticks \in 0 .. Ticks /\ buffer \in 0 .. Ticks
  /\ failures \in 0 .. MaxFailures
  /\ recorded \in 0 .. Episodes /\ skipped \in 0 .. Episodes
  /\ num \in 0 .. Earlier + Episodes /\ reported \in 0 .. Earlier + Episodes
  /\ result \in {"none", "complete", "error"}
  /\ extra \in 0 .. 2

(* The control file may be left over from the session before. *)
Init ==
  /\ control \in Key \cup {None} /\ held = None /\ lpc = "off" /\ todo = <<>>
  /\ exit = FALSE /\ rerecord = FALSE /\ stop = FALSE
  /\ pc = "start" /\ loop = "episode" /\ running = FALSE
  /\ gone = FALSE /\ ticks = 0
  /\ failures = 0 /\ recorded = 0 /\ skipped = 0
  /\ num = Earlier /\ reported = Earlier /\ buffer = 0
  /\ result = "none"
  /\ broken = FALSE /\ hit = FALSE /\ condemned = FALSE /\ extra = 0

-----------------------------------------------------------------------------
(* RecordManager.control: a later key replaces one that nobody has read.   *)
Press(k) ==
  /\ pc # "ended"
  /\ control' = k
  /\ UNCHANGED <<listener, events, main, counts, dataset, result, history>>

(* The listener's thread reads the file every 50 ms, and then removes it.  *)
ListenRead ==
  /\ lpc = "idle" /\ pc # "ended" /\ control # None
  /\ held' = control /\ lpc' = "read"
  /\ UNCHANGED <<file, todo, events, main, counts, dataset, result, history>>

ListenUnlink ==
  /\ lpc = "read" /\ pc # "ended"
  /\ control' = None /\ lpc' = "taken"
  /\ UNCHANGED <<held, todo, events, main, counts, dataset, result, history>>

(* mutant: abort ends the session first and has the episode thrown away then *)
WritesLate(k) ==
  CASE k = "right" -> <<"exit">>
    [] k = "left"  -> <<"rerecord", "exit">>
    [] k = "esc"   -> <<"stop", "exit">>
    [] k = "abort" -> <<"stop", "exit", "rerecord">>

(* The events that a key sets while a loop runs: _apply, and for all keys  *)
(* but abort LeRobot's apply_recording_control.                            *)
Writes(k) ==
  CASE k = "right" -> <<"exit">>
    [] k = "left"  -> <<"rerecord", "exit">>
    [] k = "esc"   -> <<"stop", "exit">>
    [] k = "abort" -> <<"rerecord", "stop", "exit">>

(* _apply_between_loops *)
WritesBetween(k) == IF k \in {"esc", "abort"} THEN <<"stop">> ELSE <<>>

(* The look at _loop_running. *)
ListenLook ==
  /\ lpc = "taken" /\ pc # "ended"
  /\ todo' = IF running THEN Writes(held) ELSE WritesBetween(held)
  /\ hit' = running
  /\ IF todo' = <<>> THEN lpc' = "idle" /\ held' = None
                     ELSE lpc' = "write" /\ UNCHANGED held
  /\ UNCHANGED <<file, events, main, counts, dataset, result, broken, condemned, extra>>

ListenWrite ==
  /\ lpc = "write" /\ pc # "ended"
  /\ exit' = (exit \/ Head(todo) = "exit")
  /\ rerecord' = (rerecord \/ Head(todo) = "rerecord")
  /\ stop' = (stop \/ Head(todo) = "stop")
  /\ todo' = Tail(todo)
  /\ condemned' = (condemned \/ (held = "abort" /\ hit))
  /\ IF todo' = <<>> THEN lpc' = "idle" /\ held' = None ELSE UNCHANGED <<lpc, held>>
  /\ UNCHANGED <<file, main, counts, dataset, result, broken, hit, extra>>

Listen == ListenRead \/ ListenUnlink \/ ListenLook \/ ListenWrite

-----------------------------------------------------------------------------
Goto(to) == pc' = to /\ UNCHANGED <<loop, running, gone, ticks>>

(* The process ends, with the thread that listens and all that it had in   *)
(* memory; of the events, stop is kept as a history of the session.        *)
Over(phase) ==
  /\ pc' = "ended" /\ result' = phase
  /\ loop' = "episode" /\ running' = FALSE /\ ticks' = 0 /\ buffer' = 0
  /\ held' = None /\ lpc' = "off" /\ todo' = <<>>
  /\ exit' = FALSE /\ rerecord' = FALSE /\ failures' = 0
  /\ broken' = FALSE /\ hit' = FALSE /\ condemned' = FALSE
  /\ UNCHANGED <<control, stop, gone, recorded, skipped, extra>>

(* main() throws the file of the session before away; record() connects    *)
(* the arm and starts the listener.                                        *)
Start ==
  /\ pc = "start" /\ Goto("while")
  /\ control' = None /\ lpc' = "idle"
  /\ UNCHANGED <<held, todo, events, counts, dataset, result, history>>

(* record()'s while condition. *)
More == recorded < Episodes /\ ~stop

While ==
  /\ pc = "while"
  /\ IF More
     THEN /\ pc' = "enter" /\ loop' = "episode"
          /\ UNCHANGED <<running, gone, ticks, file, listener, events,
                         counts, dataset, result, history>>
     ELSE Over("complete") /\ UNCHANGED <<num, reported>>

(* _record_loop_with_status begins.  Before the first episode the follower *)
(* walks to the leader, which takes seconds in which nothing else changes. *)
Enter ==
  /\ pc = "enter" /\ pc' = "clear"
  /\ UNCHANGED <<loop, running, gone, ticks, file, listener, events, counts,
                 dataset, result, history>>

Clear ==
  /\ pc = "clear" /\ Goto("open")
  /\ exit' = FALSE
  /\ UNCHANGED <<rerecord, stop, file, listener, counts, dataset, result, history>>

Open ==
  /\ pc = "open" /\ pc' = "loop"
  /\ running' = TRUE /\ ticks' = 0
  /\ extra' = IF stop /\ loop = "episode" /\ extra < 2 THEN extra + 1 ELSE extra
  /\ UNCHANGED <<loop, gone, file, listener, events, counts, dataset,
                 result, broken, hit, condemned>>

-----------------------------------------------------------------------------
(* LeRobot's record_loop: the time, exit_early, then a tick. *)
LoopTimeUp ==
  /\ pc = "loop" /\ ticks > 0 /\ Goto("close")
  /\ UNCHANGED <<file, listener, events, counts, dataset, result, history>>

LoopExit ==
  /\ pc = "loop" /\ exit /\ Goto("close")
  /\ exit' = FALSE
  /\ UNCHANGED <<rerecord, stop, file, listener, counts, dataset, result, history>>

LoopGoOn ==
  /\ pc = "loop" /\ ~exit /\ ticks < Ticks /\ Goto("tick")
  /\ UNCHANGED <<file, listener, events, counts, dataset, result, history>>

(* A frame.  After abort_ms without a goal the virtual leader's get_action *)
(* ends the session, once; with a leader arm that never happens.           *)
Tick ==
  /\ pc = "tick" /\ pc' = "loop"
  /\ ticks' = ticks + 1
  /\ buffer' = IF loop = "episode" THEN buffer + 1 ELSE buffer
  /\ \/ UNCHANGED <<gone, exit, stop>>
     \/ ~gone /\ gone' = TRUE /\ stop' = TRUE /\ exit' = TRUE
  /\ UNCHANGED <<rerecord, loop, running, num, file, listener, counts,
                 result, history>>

TickFails ==
  /\ pc = "tick" /\ Goto("failed")
  /\ broken' = (broken \/ loop = "episode")
  /\ UNCHANGED <<file, listener, events, counts, dataset, result, hit, condemned, extra>>

(* mutant: the episode is kept *)
RetryKeeping == UNCHANGED events

(* The same way that a person's left goes. *)
Retry ==
  IF loop = "episode" THEN rerecord' = TRUE /\ exit' = FALSE /\ UNCHANGED stop
                      ELSE UNCHANGED events

(* mutant: a failure is not counted *)
OneMoreForgiven == failures

OneMore == failures + 1

(* The handler of ConnectionError.  The last of several failures is raised *)
(* through the finally clause and out of record().                         *)
Failed ==
  /\ pc = "failed" /\ OneMore < MaxFailures
  /\ Retry /\ failures' = OneMore /\ Goto("close")
  /\ UNCHANGED <<recorded, skipped, reported, file, listener, dataset, result, history>>

FailedAgain ==
  /\ pc = "failed" /\ OneMore >= MaxFailures
  /\ Over("error") /\ UNCHANGED <<num, reported>>

Close ==
  /\ pc = "close" /\ pc' = "after"
  /\ running' = FALSE /\ hit' = FALSE
  /\ UNCHANGED <<loop, gone, ticks, file, listener, events, counts,
                 dataset, result, broken, condemned, extra>>

-----------------------------------------------------------------------------
(* record() after a loop: a reset unless the session is over, then either  *)
(* the episode is thrown away or it is saved.                              *)
After ==
  /\ pc = "after"
  /\ IF loop = "episode" /\ ~stop /\ (recorded + 1 < Episodes \/ rerecord)
     THEN /\ pc' = "enter" /\ loop' = "reset"
          /\ UNCHANGED <<running, gone, ticks>>
     ELSE Goto("decide")
  /\ UNCHANGED <<file, listener, events, counts, dataset, result, history>>

Decide ==
  /\ pc = "decide" /\ Goto(IF rerecord THEN "discard" ELSE "save")
  /\ UNCHANGED <<file, listener, events, counts, dataset, result, history>>

Discard ==
  /\ pc = "discard" /\ Goto("while")
  /\ rerecord' = FALSE /\ exit' = FALSE
  /\ buffer' = 0 /\ broken' = FALSE /\ condemned' = FALSE
  /\ UNCHANGED <<stop, num, file, listener, counts, result, hit, extra>>

(* mutant: the skipped episode is not told *)
SaveUntold ==
  /\ pc = "save"
  /\ IF buffer = 0
     THEN Goto("while") /\ recorded' = recorded + 1
     ELSE Goto("saving") /\ UNCHANGED recorded
  /\ UNCHANGED <<failures, skipped, reported, file, listener, events, dataset, result, history>>

(* An empty episode is skipped, and counts for record().  *)
Save ==
  /\ pc = "save"
  /\ IF buffer = 0
     THEN Goto("while") /\ skipped' = skipped + 1 /\ recorded' = recorded + 1 /\ buffer' = 0
     ELSE Goto("saving") /\ UNCHANGED <<skipped, recorded, buffer>>
  /\ UNCHANGED <<failures, reported, num, file, listener, events, result, history>>

SaveDone ==
  /\ pc = "saving" /\ Goto("while")
  /\ num' = num + 1 /\ buffer' = 0
  /\ reported' = num' /\ failures' = 0 /\ recorded' = recorded + 1
  /\ UNCHANGED <<skipped, file, listener, events, result, history>>

(* mutant: the count is taken only from a save that succeeds *)
SaveFailsUncounted ==
  /\ pc = "saving" /\ Over("error")
  /\ num' \in {num, num + 1} /\ UNCHANGED reported

(* save_episode raises, or the interrupt comes during it: whether the      *)
(* episode is in the dataset by then or not, it is counted there.          *)
SaveFails ==
  /\ pc = "saving" /\ Over("error")
  /\ num' \in {num, num + 1} /\ reported' = num'

(* RecordManager.stop interrupts the worker, or it dies of another error.  *)
Dies ==
  /\ pc \notin {"saving", "ended"}
  /\ Over("error") /\ UNCHANGED <<num, reported>>

-----------------------------------------------------------------------------
Main ==
  \/ Start \/ While \/ Enter \/ Clear \/ Open
  \/ LoopTimeUp \/ LoopExit \/ LoopGoOn \/ Tick \/ TickFails \/ Failed \/ FailedAgain \/ Close
  \/ After \/ Decide \/ Discard \/ Save \/ SaveDone

Next == Main \/ SaveFails \/ Dies \/ Listen \/ \E k \in Key : Press(k)

Spec == Init /\ [][Next]_vars

(* The main thread runs; of the listener, the person and the bus nothing   *)
(* is assumed.                                                             *)
FairSpec == Spec /\ WF_vars(Main)

-----------------------------------------------------------------------------
(* An episode during which the bus failed is recorded again, never saved,  *)
(* whatever keys were pressed meanwhile (FAILURE_MODES.md, line 39).       *)
BrokenIsDiscarded == pc \in {"save", "saving"} => ~broken

(* An episode that abort has struck is not saved (SAFETY.md, line 110):     *)
(* struck is one that is under way when the first of its events is set,    *)
(* also if the loop ends before the listener has set the others.           *)
AbortDiscards == pc \in {"save", "saving"} => ~condemned

(* An episode begins with an empty buffer: no frame of an attempt that was *)
(* thrown away gets into the next episode.                                 *)
EpisodesDoNotMix == pc = "loop" /\ loop = "episode" /\ ticks = 0 => buffer = 0

(* What the status says was saved is what the dataset has, however the     *)
(* session ended (_save_episode_with_status).                              *)
ReportedIsSaved == pc = "ended" => reported = num

(* A session that nobody ended early has saved every episode it was asked  *)
(* for, but for those that it says were empty.                             *)
EpisodesAccounted ==
  result = "complete" /\ ~stop => num + skipped = Earlier + Episodes

(* Once the session was to end, at most the episode that was about to      *)
(* begin is recorded.                                                      *)
AtMostOneMore == extra <= 1

(* A session whose bus is dead, so that in the end no tick succeeds, ends, *)
(* unless the person presses keys for ever.                                *)
DeadBusEnds == []<><<Tick>>_vars \/ []<>(control # None) \/ <>(pc = "ended")

============================================================================
