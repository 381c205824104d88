---------------------------- MODULE Policy_proof ---------------------------
(* What a trial of a policy promises, for every number of trials, kinds of *)
(* trials, length of the server's answers, request threads and restarts.   *)
EXTENDS PolicyManager, TLAPS

(* The types of the trial, a part at a time *)
Client == [helper : {"none", "calling", "ready", "failed"}, receiver : {"off", "on", "fetching"},
           watchdog : {"off", "on", "marked", "done"}, look : BOOLEAN,
           sending : BOOLEAN, queue : 0..Chunk, shut : BOOLEAN, stopping : BOOLEAN, closed : BOOLEAN, failure : BOOLEAN]
Mode == [remote : BOOLEAN, home : BOOLEAN]
Words ==
  /\ pc \in {"off", "boot", "align", "prepare", "swap", "load", "closing", "act",
             "mark", "close", "join", "turn", "return", "done"}
  /\ rc \in {"none", "ok", "error", "killed"}
  /\ handler \in {"default", "flag", "rollout", "back"}
  /\ heard \in [stop : BOOLEAN, back : BOOLEAN]
  /\ status \in Phase /\ armed \in BOOLEAN /\ pending \in BOOLEAN
  /\ al \in [stage : {"none", "frames", "settle"}, gap : Gap, late : BOOLEAN]
Numbers ==
  /\ trial \in 0..Trials /\ mode \in Mode
  /\ client \in Client
  /\ saw \in [moved : BOOLEAN, broken : BOOLEAN, after : 0..2]

(* Everything that can happen to a trial: a step of its own, a signal, the *)
(* spawn of the next one, and the removal of the status before it.         *)
Forgets == status' = "none" /\ UNCHANGED <<asked, pc, rc, handler, heard, armed, al, client, pending, saw>>
Moves == TrialStep \/ Sigterm \/ Kill \/ (\E m \in Mode : Spawn(m)) \/ Forgets \/ UNCHANGED tvars

(* The two parts are the type of a trial (policying.py). *)
LEMMA SameTypes == TrialTypeOK <=> Words /\ Numbers
BY DEF TrialTypeOK, Words, Numbers, Client, Mode

(* What is new at the beginning of a trial and gone at its end has its type. *)
LEMMA NoClientType == NoClient \in Client /\ Unseen \in [moved : BOOLEAN, broken : BOOLEAN, after : 0..2]
BY ChunkAssumption DEF NoClient, Client, Unseen

(* The outer except and finally of main leave everything in its type. *)
LEMMA ExitTypes ==
  ASSUME Words, Numbers, NEW how \in {"ok", "error"}, Exit(how) PROVE Words' /\ Numbers'
<1>1. Numbers'
  BY NoClientType DEF Exit, Ended, asked, Numbers
<1>2. Words'
  BY DEF Exit, Ended, asked, Words, Resting, Gap
<1> QED  BY <1>1, <1>2

(* So does the inner finally, whether it holds the arm or turns home. *)
LEMMA UnwindTypes ==
  ASSUME Words, Numbers, NEW raised \in BOOLEAN, Unwind(raised) PROVE Words' /\ Numbers'
<1>1. CASE Exit("error")
  BY <1>1, ExitTypes
<1>2. CASE ~Exit("error")
  <2>1. /\ GoTo("turn") /\ pending' = raised /\ armed' = FALSE /\ client' = NoClient
        /\ UNCHANGED <<handler, heard, status, al, saw>>
    BY <1>2 DEF Unwind
  <2>2. Numbers'
    BY <2>1, NoClientType DEF GoTo, asked, Numbers
  <2>3. Words'
    BY <2>1 DEF GoTo, Words
  <2> QED  BY <2>2, <2>3
<1> QED  BY <1>1, <1>2

(* A step that only concerns the client (FailSafeRobotClient). *)
LEMMA UpdateTypes ==
  ASSUME Words, Numbers, NEW c \in Client, UpdateClient(c) PROVE Words' /\ Numbers'
<1>1. Numbers'
  BY DEF UpdateClient, asked, Numbers
<1>2. Words'
  BY DEF UpdateClient, Words
<1> QED  BY <1>1, <1>2

(* The alignment, there and back (align_home). *)
LEMMA AlignTypes ==
  ASSUME Words, Numbers, AlignStop \/ AlignFrames \/ AlignSettle \/ AlignRaises \/ AlignDeadline
  PROVE  Words' /\ Numbers'
<1>1. ASSUME NEW g \in Gap, NEW stopped \in BOOLEAN, AlignReturns(stopped, g)
      PROVE  Words' /\ Numbers'
  <2>1. CASE Exit("ok") \/ Exit("error")
    BY <2>1, ExitTypes
  <2>2. CASE ~(Exit("ok") \/ Exit("error"))
    <3>1. /\ GoTo("prepare") /\ al' = [Resting EXCEPT !.gap = g]
          /\ UNCHANGED <<handler, heard, status, armed, client, pending, saw>>
      BY <1>1, <2>2 DEF AlignReturns
    <3>2. Numbers'
      BY <3>1 DEF GoTo, asked, Numbers
    <3>3. Words'
      BY <3>1 DEF GoTo, Words, Resting
    <3> QED  BY <3>2, <3>3
  <2> QED  BY <2>1, <2>2
<1>2. ASSUME NEW g \in Gap, NEW stage \in {"settle", "frames"}, AlignGoesOn(stage, g)
      PROVE  Words' /\ Numbers'
  <2>1. Numbers'
    BY <1>2 DEF AlignGoesOn, asked, Numbers
  <2>2. al' \in [stage : {"none", "frames", "settle"}, gap : Gap, late : BOOLEAN]
    BY <1>2 DEF AlignGoesOn, Words
  <2>3. Words'
    BY <1>2, <2>2 DEF AlignGoesOn, Words
  <2> QED  BY <2>1, <2>3
<1>3. al.gap \in Gap /\ {"in", "near", "far"} = Gap
  BY DEF Words, Gap
<1>4. CASE AlignStop
  BY <1>1, <1>3, <1>4 DEF AlignStop
<1>5. CASE AlignFrames
  BY <1>1, <1>2, <1>5, ExitTypes DEF AlignFrames
<1>6. CASE AlignSettle
  BY <1>1, <1>2, <1>3, <1>6, ExitTypes DEF AlignSettle
<1>7. CASE AlignRaises
  BY <1>7, ExitTypes DEF AlignRaises
<1>8. CASE AlignDeadline
  <2>1. Numbers'
    BY <1>8 DEF AlignDeadline, asked, Numbers
  <2>2. Words'
    BY <1>8 DEF AlignDeadline, Words
  <2> QED  BY <2>1, <2>2
<1> QED  BY <1>4, <1>5, <1>6, <1>7, <1>8

(* The steps before the arm moves, the turn home and the local rollout (main, _rollout). *)
LEMMA MainTypes ==
  ASSUME Words, Numbers, Refuse \/ Begin \/ Prepare \/ Swap \/ Turn \/ LocalInstall \/ LocalLoaded \/ LocalEnds
  PROVE  Words' /\ Numbers'
<1>1. CASE Refuse
  <2>1. Numbers'
    BY <1>1, NoClientType DEF Refuse, Ended, asked, Numbers
  <2>2. Words'
    BY <1>1 DEF Refuse, Ended, Words, Resting, Gap
  <2> QED  BY <2>1, <2>2
<1>2. CASE Begin
  <2>1. Numbers'
    BY <1>2 DEF Begin, GoTo, asked, Numbers
  <2>2. al' \in [stage : {"none", "frames", "settle"}, gap : Gap, late : BOOLEAN]
    BY <1>2 DEF Begin, Words
  <2>3. Words'
    BY <1>2, <2>2 DEF Begin, GoTo, Words, Phase
  <2> QED  BY <2>1, <2>3
<1>3. CASE Prepare
  <2>1. CASE Exit("error") \/ Exit("ok")
    BY <2>1, ExitTypes
  <2>2. CASE GoTo("swap") /\ UNCHANGED <<handler, heard, status, armed, al, client, pending, saw>>
    <3>1. Numbers'
      BY <2>2 DEF GoTo, asked, Numbers
    <3>2. Words'
      BY <2>2 DEF GoTo, Words
    <3> QED  BY <3>1, <3>2
  <2> QED  BY <1>3, <2>1, <2>2 DEF Prepare
<1>4. CASE Swap
  <2>1. Numbers'
    BY <1>4 DEF Swap, GoTo, asked, Numbers
  <2>2. Words'
    BY <1>4 DEF Swap, GoTo, Words, Phase
  <2> QED  BY <2>1, <2>2
<1>5. CASE Turn
  <2>1. Numbers'
    BY <1>5 DEF Turn, GoTo, asked, Numbers
  <2>2. Words'
    BY <1>5 DEF Turn, GoTo, Words, Phase, Resting, Gap
  <2> QED  BY <2>1, <2>2
<1>6. CASE LocalInstall
  <2>1. Numbers'
    BY <1>6 DEF LocalInstall, asked, Numbers
  <2>2. Words'
    BY <1>6 DEF LocalInstall, Words
  <2> QED  BY <2>1, <2>2
<1>7. CASE LocalLoaded
  <2>1. client' \in Client
    BY <1>7, ChunkAssumption DEF LocalLoaded, Numbers, Client
  <2>2. Numbers'
    BY <1>7, <2>1 DEF LocalLoaded, GoTo, asked, Numbers
  <2>3. Words'
    BY <1>7 DEF LocalLoaded, GoTo, Words
  <2> QED  BY <2>2, <2>3
<1>8. CASE LocalEnds
  BY <1>8, UnwindTypes DEF LocalEnds
<1> QED  BY <1>1, <1>2, <1>3, <1>4, <1>5, <1>6, <1>7, <1>8

(* abort leaves a client a client, with an empty queue. *)
LEMMA AbortedType == ASSUME NEW c \in Client PROVE Aborted(c) \in Client
<1>1. (c.failure \/ ~c.stopping) \in BOOLEAN
  OBVIOUS
<1>2. \A b \in BOOLEAN, q \in 0 .. Chunk : [c EXCEPT !.failure = b, !.shut = TRUE, !.queue = q] \in Client
  BY DEF Client
<1>3. 0 \in 0 .. Chunk
  BY ChunkAssumption
<1>4. Aborted(c) = [c EXCEPT !.failure = c.failure \/ ~c.stopping, !.shut = TRUE, !.queue = 0]
  BY DEF Aborted
<1> HIDE DEF Client
<1> QED  BY <1>1, <1>2, <1>3, <1>4

(* Connecting, loading, breaks and the threads of the client (FailSafeRobotClient). *)
LEMMA ClientTypes ==
  ASSUME Words, Numbers,
         ConnectStart \/ HelperReturns \/ Sent \/ LoadStopped \/ LoadClose \/ LoadDone \/ Break \/ Cancelled \/ Receive \/ Watch
  PROVE  Words' /\ Numbers'
<1>0. client \in Client
  BY DEF Numbers
<1>1. CASE ConnectStart
  <2>1. [client EXCEPT !.helper = "calling"] \in Client
    BY <1>0 DEF Client
  <2> QED  BY <1>1, <2>1, UpdateTypes, UnwindTypes DEF ConnectStart
<1>2. CASE HelperReturns
  <2>1. [client EXCEPT !.helper = "ready"] \in Client /\ [client EXCEPT !.helper = "failed"] \in Client
    BY <1>0 DEF Client
  <2> QED  BY <1>2, <2>1, UpdateTypes DEF HelperReturns
<1>3. CASE LoadStopped
  <2>1. [client EXCEPT !.stopping = TRUE] \in Client
    BY <1>0 DEF Client
  <2>2. Numbers'
    BY <1>3, <2>1 DEF LoadStopped, GoTo, asked, Numbers
  <2>3. Words'
    BY <1>3 DEF LoadStopped, GoTo, Words
  <2> QED  BY <2>2, <2>3
<1>4. CASE LoadClose
  <2>1. [client EXCEPT !.closed = TRUE] \in Client
    BY <1>0 DEF Client
  <2> QED  BY <1>4, <2>1, UpdateTypes, UnwindTypes DEF LoadClose
<1>5. CASE LoadDone
  <2>1. CASE Unwind(TRUE)
    BY <2>1, UnwindTypes
  <2>2. CASE ~Unwind(TRUE)
    <3>1. [client EXCEPT !.receiver = "on", !.watchdog = "on"] \in Client
      BY <1>0 DEF Client
    <3>2. Numbers'
      BY <1>5, <2>2, <3>1 DEF LoadDone, GoTo, asked, Numbers
    <3>3. Words'
      BY <1>5, <2>2 DEF LoadDone, GoTo, Words
    <3> QED  BY <3>2, <3>3
  <2> QED  BY <2>1, <2>2
<1>6. CASE Break
  <2>1. Aborted(client) \in Client
    BY <1>0, AbortedType
  <2>2. saw' \in [moved : BOOLEAN, broken : BOOLEAN, after : 0..2]
    BY <1>6 DEF Break, Numbers, Client
  <2>3. Numbers'
    BY <1>6, <2>1, <2>2 DEF Break, asked, Numbers
  <2>4. Words'
    BY <1>6 DEF Break, Words
  <2> QED  BY <2>3, <2>4
<1>7. CASE Cancelled
  <2>1. Aborted(client) \in Client
    BY <1>0, AbortedType
  <2>2. \A c \in Client : [c EXCEPT !.helper = IF @ = "calling" THEN "failed" ELSE @] \in Client
    BY DEF Client
  <2> QED  BY <1>7, <2>1, <2>2, UpdateTypes DEF Cancelled
<1>8. CASE Receive
  <2>1. /\ [client EXCEPT !.receiver = "fetching"] \in Client
        /\ [client EXCEPT !.receiver = "on", !.queue = Chunk] \in Client
        /\ [client EXCEPT !.receiver = "off"] \in Client
    <3>1. \A q \in 0 .. Chunk : [client EXCEPT !.receiver = "on", !.queue = q] \in Client
      BY <1>0 DEF Client
    <3>2. Chunk \in 0 .. Chunk
      BY ChunkAssumption
    <3>3. [client EXCEPT !.receiver = "fetching"] \in Client /\ [client EXCEPT !.receiver = "off"] \in Client
      BY <1>0 DEF Client
    <3> QED  BY <3>1, <3>2, <3>3
  <2> QED  BY <1>8, <2>1, UpdateTypes DEF Receive
<1>9. CASE Watch
  <2>1. /\ [client EXCEPT !.watchdog = "marked", !.stopping = TRUE] \in Client
        /\ [client EXCEPT !.watchdog = "done", !.shut = TRUE] \in Client
    BY <1>0 DEF Client
  <2> QED  BY <1>9, <2>1, UpdateTypes DEF Watch
<1>10. CASE Sent
  <2>1. [client EXCEPT !.sending = FALSE] \in Client
    BY <1>0 DEF Client
  <2> QED  BY <1>10, <2>1, UpdateTypes DEF Sent
<1> QED  BY <1>1, <1>2, <1>3, <1>4, <1>5, <1>6, <1>7, <1>8, <1>9, <1>10

(* The loop that drives the arm, and its end (control_loop, run). *)
LEMMA LoopTypes ==
  ASSUME Words, Numbers, Look \/ Announce \/ Act \/ ActEnds \/ Finish
  PROVE  Words' /\ Numbers'
<1>0. client \in Client
  BY DEF Numbers
<1>1. CASE Look
  <2>1. [client EXCEPT !.look = TRUE] \in Client
    BY <1>0 DEF Client
  <2> QED  BY <1>1, <2>1, UpdateTypes DEF Look
<1>2. CASE Announce
  <2>1. Numbers'
    BY <1>2 DEF Announce, asked, Numbers
  <2>2. Words'
    BY <1>2 DEF Announce, Words, Phase
  <2> QED  BY <2>1, <2>2
<1>3. CASE Act
  <2>1. client.queue \in 0 .. Chunk
    BY <1>0 DEF Client
  <2>2. client.queue > 0 => client.queue - 1 \in 0 .. Chunk
    BY <2>1, ChunkAssumption
  <2>3. client' \in Client
    <3>1. \A q \in 0 .. Chunk, more \in BOOLEAN : [client EXCEPT !.look = FALSE, !.sending = more, !.queue = q] \in Client
      BY <1>0 DEF Client
    <3>2. \A more \in BOOLEAN : [client EXCEPT !.look = FALSE, !.sending = more] \in Client
      BY <1>0 DEF Client
    <3>3. {FALSE, mode.remote} \subseteq BOOLEAN
      BY DEF Numbers, Mode
    <3>4. PICK more \in {FALSE, mode.remote} :
            \/ /\ client.queue > 0
               /\ client' = [client EXCEPT !.look = FALSE, !.sending = more,
                                          !.queue = IF mode.remote THEN client.queue - 1 ELSE client.queue]
            \/ client' = [client EXCEPT !.look = FALSE, !.sending = more]
      BY <1>3 DEF Act
    <3>5. client.queue > 0 => (IF mode.remote THEN client.queue - 1 ELSE client.queue) \in 0 .. Chunk
      BY <2>1, <2>2
    <3> QED  BY <3>1, <3>2, <3>3, <3>4, <3>5
  <2>4. saw' \in [moved : BOOLEAN, broken : BOOLEAN, after : 0..2]
    <3>1. saw.after \in 0 .. 2
      BY DEF Numbers
    <3>2. (IF saw.broken /\ saw.after < 2 THEN saw.after + 1 ELSE saw.after) \in 0 .. 2
      BY <3>1
    <3>3. \A a \in 0 .. 2 : [saw EXCEPT !.moved = TRUE, !.after = a] \in [moved : BOOLEAN, broken : BOOLEAN, after : 0..2]
      BY DEF Numbers
    <3> QED  BY <1>3, <3>2, <3>3 DEF Act, Numbers
  <2>5. Numbers'
    BY <1>3, <2>3, <2>4 DEF Act, asked, Numbers
  <2>6. Words'
    BY <1>3 DEF Act, Words
  <2> QED  BY <2>5, <2>6
<1>4. CASE ActEnds
  <2>0. 0 \in 0 .. Chunk
    BY ChunkAssumption
  <2>4. [client EXCEPT !.receiver = "off", !.queue = 0, !.look = FALSE] \in Client
    BY <1>0, <2>0 DEF Client
  <2>1. Numbers'
    BY <1>4, <2>4 DEF ActEnds, GoTo, asked, Numbers
  <2>2. pending' \in BOOLEAN
    BY <1>4 DEF ActEnds, Words
  <2>3. Words'
    BY <1>4, <2>2 DEF ActEnds, GoTo, Words
  <2> QED  BY <2>1, <2>3
<1>5. CASE Finish
  <2>1. CASE Unwind(pending \/ client.failure)
    <3>1. (pending \/ client.failure) \in BOOLEAN
      OBVIOUS
    <3> QED  BY <2>1, <3>1, UnwindTypes
  <2>2. CASE ~Unwind(pending \/ client.failure)
    <3>1. /\ [client EXCEPT !.stopping = TRUE, !.watchdog = "done"] \in Client
          /\ [client EXCEPT !.shut = TRUE, !.closed = TRUE] \in Client
      BY <1>0 DEF Client
    <3>2. client' \in Client
      BY <1>5, <2>2, <3>1 DEF Finish
    <3>3. Numbers'
      BY <1>5, <2>2, <3>2 DEF Finish, GoTo, asked, Numbers
    <3>4. Words'
      BY <1>5, <2>2 DEF Finish, GoTo, Words
    <3> QED  BY <3>3, <3>4
  <2> QED  BY <2>1, <2>2
<1> QED  BY <1>1, <1>2, <1>3, <1>4, <1>5

(* Whatever happens to a trial leaves it in its type. *)
LEMMA MovesTypes == ASSUME Words, Numbers, Moves PROVE Words' /\ Numbers'
<1>1. CASE TrialStep
  BY <1>1, MainTypes, AlignTypes, ClientTypes, LoopTypes DEF TrialStep, Main
<1>2. CASE Kill
  <2>1. Numbers'
    BY <1>2, NoClientType DEF Kill, Ended, asked, Numbers
  <2>2. Words'
    BY <1>2 DEF Kill, Ended, Words, Resting, Gap
  <2> QED  BY <2>1, <2>2
<1>3. CASE Sigterm /\ ~Kill
  <2>1. CASE UpdateClient([client EXCEPT !.shut = TRUE])
    <3>1. [client EXCEPT !.shut = TRUE] \in Client
      BY DEF Numbers, Client
    <3> QED  BY <2>1, <3>1, UpdateTypes
  <2>2. CASE ~UpdateClient([client EXCEPT !.shut = TRUE])
    <3>1. Numbers'
      BY <1>3, <2>2 DEF Sigterm, asked, Numbers
    <3>2. heard' \in [stop : BOOLEAN, back : BOOLEAN]
      BY <1>3, <2>2 DEF Sigterm, Words
    <3>3. Words'
      BY <1>3, <2>2, <3>2 DEF Sigterm, Words
    <3> QED  BY <3>1, <3>3
  <2> QED  BY <2>1, <2>2
<1>4. ASSUME NEW m \in Mode, Spawn(m) PROVE Words' /\ Numbers'
  <2>1. trial' \in 0 .. Trials /\ mode' \in Mode
    BY <1>4, TrialsAssumption DEF Spawn, Numbers
  <2>2. Numbers'
    BY <1>4, <2>1, NoClientType DEF Spawn, Numbers
  <2>3. Words'
    BY <1>4 DEF Spawn, Words, Phase, Resting, Gap
  <2> QED  BY <2>2, <2>3
<1>5. CASE Forgets
  <2>1. Numbers'
    BY <1>5 DEF Forgets, asked, Numbers
  <2>2. Words'
    BY <1>5 DEF Forgets, asked, Words, Phase
  <2> QED  BY <2>1, <2>2
<1>6. CASE UNCHANGED tvars
  <2>1. Numbers'
    BY <1>6 DEF tvars, Numbers
  <2>2. Words'
    BY <1>6 DEF tvars, Words
  <2> QED  BY <2>1, <2>2
<1> QED  BY <1>1, <1>2, <1>3, <1>4, <1>5, <1>6 DEF Moves

----------------------------------------------------------------------------
(* What is known of a trial at each place of its main thread *)

(* The policy drives the arm, or is about to, or its client is being ended. *)
Drive == {"load", "closing", "act", "mark", "close", "join"}

(* The client is there only while the policy drives: its threads end with it. *)
ClientLives ==
  /\ client.helper # "none" => mode.remote /\ pc \in Drive
  /\ pc \notin Drive => /\ client.helper = "none" /\ client.receiver = "off" /\ client.watchdog = "off"
                        /\ ~client.look /\ ~client.failure /\ ~client.closed

(* Our own end is marked before the channel is closed. *)
Marked ==
  /\ client.closed => client.stopping
  /\ pc \in {"closing", "close", "join"} => client.stopping

(* A break is recorded in the client that has it, and nothing else is. *)
Recorded ==
  /\ saw.broken /\ pc \in Drive => client.failure /\ client.shut
  /\ client.failure => saw.broken

(* Where the arm has moved, where it may go home, and what was sent after a break. *)
Moved ==
  /\ pc \notin Drive \cup {"turn", "return"} => saw = Unseen
  /\ pc \in {"load", "closing"} => ~saw.moved
  /\ pc \in {"turn", "return"} /\ mode.remote /\ saw.broken => ~saw.moved
Late ==
  /\ saw.after # 0 => saw.broken /\ ~client.look
  /\ saw.after <= 1

(* The policy starts from where the alignment ended. *)
Near == mode.home /\ pc \in {"prepare", "swap", "load", "act"} => al.gap # "far"

Knows == ClientLives /\ Marked /\ Recorded /\ Moved /\ Late /\ Near

(* An ended trial has no client and no arm to send home (main). *)
LEMMA EndKnows == ASSUME Ended, pc' = "done" PROVE Knows'
BY DEF Ended, Knows, ClientLives, Marked, Recorded, Moved, Late, Near, Drive, NoClient, Unseen

(* The inner finally turns home only where the connection held, or the arm never moved. *)
LEMMA UnwindKnows ==
  ASSUME Words, Numbers, Knows, pc \in Drive, NEW raised \in BOOLEAN, Unwind(raised),
         ~raised /\ mode.remote => ~(saw.broken /\ saw.moved)
  PROVE  Knows'
<1>1. CASE Exit("error")
  BY <1>1, EndKnows DEF Exit
<1>2. CASE ~Exit("error")
  BY <1>2 DEF Unwind, GoTo, asked, Knows, ClientLives, Marked, Recorded, Moved, Late, Near, Drive, NoClient
<1> QED  BY <1>1, <1>2

(* A step that concerns neither the place, the client nor the pose. *)
LEMMA StillKnows ==
  ASSUME Knows, UNCHANGED <<mode, pc, client, saw>>, al'.gap = al.gap
  PROVE  Knows'
BY DEF Knows, ClientLives, Marked, Recorded, Moved, Late, Near

(* The alignment hands over a pose that is no further than the follow error (align_home). *)
LEMMA AlignKnows ==
  ASSUME Words, Numbers, Knows, AlignStop \/ AlignFrames \/ AlignSettle \/ AlignRaises \/ AlignDeadline
  PROVE  Knows'
<1>1. ASSUME NEW g \in {"in", "near"}, pc \in {"align", "return"}, AlignReturns(FALSE, g)
      PROVE  Knows'
  <2>1. CASE Exit("ok") \/ Exit("error")
    BY <2>1, EndKnows DEF Exit
  <2>2. CASE ~(Exit("ok") \/ Exit("error"))
    <3>1. /\ pc = "align" /\ GoTo("prepare") /\ al'.gap = g /\ UNCHANGED <<client, saw>>
      BY <1>1, <2>2 DEF AlignReturns, Resting
    <3> QED  BY <3>1 DEF GoTo, asked, Knows, ClientLives, Marked, Recorded, Moved, Late, Near, Drive
  <2> QED  BY <2>1, <2>2
<1>2. ASSUME NEW g \in Gap, AlignReturns(TRUE, g) PROVE Knows'
  BY <1>2, EndKnows DEF AlignReturns, Exit
<1>3. ASSUME NEW g \in Gap, NEW stage \in {"settle", "frames"}, AlignGoesOn(stage, g), pc \in {"align", "return"}
      PROVE  Knows'
  BY <1>3 DEF AlignGoesOn, asked, Knows, ClientLives, Marked, Recorded, Moved, Late, Near, Drive
<1>4. al.gap \in Gap /\ {"in", "near", "far"} = Gap
  BY DEF Words, Gap
<1>5. CASE AlignStop
  BY <1>2, <1>4, <1>5 DEF AlignStop
<1>6. CASE AlignFrames
  BY <1>1, <1>3, <1>6, EndKnows DEF AlignFrames, Aligning, Exit
<1>7. CASE AlignSettle
  BY <1>1, <1>3, <1>4, <1>7, EndKnows DEF AlignSettle, Aligning, Exit
<1>8. CASE AlignRaises
  BY <1>8, EndKnows DEF AlignRaises, Exit
<1>9. CASE AlignDeadline
  <2>1. al'.gap = al.gap
    BY <1>9 DEF AlignDeadline, Words
  <2> QED  BY <1>9, <2>1, StillKnows DEF AlignDeadline, asked
<1> QED  BY <1>5, <1>6, <1>7, <1>8, <1>9

(* Up to the start of the policy, the turn home and the local rollout (main). *)
LEMMA MainKnows ==
  ASSUME Words, Numbers, Knows,
         Refuse \/ Begin \/ Prepare \/ Swap \/ Turn \/ LocalInstall \/ LocalLoaded \/ LocalEnds
  PROVE  Knows'
<1> USE DEF GoTo, asked, Knows, ClientLives, Marked, Recorded, Moved, Late, Near, Drive
<1>1. CASE Refuse
  BY <1>1, EndKnows DEF Refuse
<1>2. CASE Begin
  BY <1>2 DEF Begin
<1>3. CASE Prepare
  <2>1. CASE Exit("error") \/ Exit("ok")
    BY <2>1, EndKnows DEF Exit
  <2>2. CASE ~(Exit("error") \/ Exit("ok"))
    BY <1>3, <2>2 DEF Prepare
  <2> QED  BY <2>1, <2>2
<1>4. CASE Swap
  BY <1>4 DEF Swap, Unseen
<1>5. CASE Turn
  BY <1>5 DEF Turn
<1>6. CASE LocalInstall
  BY <1>6 DEF LocalInstall
<1>7. CASE LocalLoaded
  <2>1. /\ client'.helper = client.helper /\ client'.receiver = client.receiver
        /\ client'.watchdog = client.watchdog /\ client'.look = client.look /\ client'.failure = client.failure
        /\ client'.closed = client.closed /\ client'.stopping = client.stopping /\ client'.shut = client.shut
    BY <1>7 DEF LocalLoaded, Numbers, Client
  <2> QED  BY <1>7, <2>1 DEF LocalLoaded
<1>8. CASE LocalEnds
  BY <1>8, UnwindKnows DEF LocalEnds
<1> QED  BY <1>1, <1>2, <1>3, <1>4, <1>5, <1>6, <1>7, <1>8

(* A break marks the client and shuts its loop; our own end is no break (abort). *)
LEMMA ClientKnows ==
  ASSUME Words, Numbers, Knows,
         ConnectStart \/ HelperReturns \/ Sent \/ LoadStopped \/ LoadClose \/ LoadDone \/ Break \/ Cancelled \/ Receive \/ Watch
  PROVE  Knows'
<1> USE DEF GoTo, asked, UpdateClient
<1>0. client \in Client /\ saw \in [moved : BOOLEAN, broken : BOOLEAN, after : 0..2]
  BY DEF Numbers
<1>1. CASE ConnectStart
  <2>1. CASE Unwind(TRUE)
    BY <1>1, <2>1, UnwindKnows DEF ConnectStart, Drive
  <2>2. CASE ~Unwind(TRUE)
    BY <1>0, <1>1, <2>2 DEF ConnectStart, Client, Knows, ClientLives, Marked, Recorded, Moved, Late, Near, Drive
  <2> QED  BY <2>1, <2>2
<1>2. CASE HelperReturns
  BY <1>0, <1>2 DEF HelperReturns, Client, Knows, ClientLives, Marked, Recorded, Moved, Late, Near
<1>3. CASE LoadStopped
  BY <1>0, <1>3 DEF LoadStopped, Client, Knows, ClientLives, Marked, Recorded, Moved, Late, Near, Drive
<1>4. CASE LoadClose
  <2>1. CASE Unwind(FALSE)
    BY <1>4, <2>1, UnwindKnows DEF LoadClose, Knows, Moved, Drive
  <2>2. CASE ~Unwind(FALSE)
    BY <1>0, <1>4, <2>2 DEF LoadClose, Client, Knows, ClientLives, Marked, Recorded, Moved, Late, Near, Drive
  <2> QED  BY <2>1, <2>2
<1>5. CASE LoadDone
  <2>1. CASE Unwind(TRUE)
    BY <1>5, <2>1, UnwindKnows DEF LoadDone, Drive
  <2>2. CASE ~Unwind(TRUE)
    <3>1. /\ pc = "load" /\ pc' = "act" /\ UNCHANGED <<mode, al, saw>>
          /\ client' = [client EXCEPT !.receiver = "on", !.watchdog = "on"]
      BY <1>5, <2>2 DEF LoadDone
    <3>2. /\ client'.helper = client.helper /\ client'.look = client.look /\ client'.failure = client.failure
          /\ client'.closed = client.closed /\ client'.stopping = client.stopping /\ client'.shut = client.shut
      BY <1>0, <3>1 DEF Client
    <3> QED  BY <3>1, <3>2 DEF Knows, ClientLives, Marked, Recorded, Moved, Late, Near, Drive
  <2> QED  BY <2>1, <2>2
<1>6. CASE Break
  BY <1>0, <1>6 DEF Break, Aborted, Client, Knows, ClientLives, Marked, Recorded, Moved, Late, Near, Drive
<1>7. CASE Cancelled
  <2>1. client.stopping /\ client.helper # "none" /\ pc \in Drive /\ UNCHANGED <<mode, pc, al, saw>>
    BY <1>7 DEF Cancelled, Knows, ClientLives, Marked
  <2>2. /\ client'.helper # "none" /\ client'.look = client.look /\ client'.failure = client.failure
        /\ client'.closed = client.closed /\ client'.stopping /\ client'.shut
    BY <1>0, <1>7, <2>1 DEF Cancelled, Aborted, Client
  <2> QED  BY <2>1, <2>2 DEF Knows, ClientLives, Marked, Recorded, Moved, Late, Near
<1>8. CASE Receive
  <2>1. pc \in Drive /\ UNCHANGED <<mode, pc, al, saw>>
    BY <1>8 DEF Receive, Knows, ClientLives
  <2>2. /\ client'.helper = client.helper /\ client'.look = client.look /\ client'.failure = client.failure
        /\ client'.closed = client.closed /\ client'.stopping = client.stopping /\ client'.shut = client.shut
    BY <1>0, <1>8 DEF Receive, Client
  <2> QED  BY <2>1, <2>2 DEF Knows, ClientLives, Marked, Recorded, Moved, Late, Near
<1>9. CASE Watch
  <2>1. pc \in Drive /\ UNCHANGED <<mode, pc, al, saw>>
    BY <1>9 DEF Watch, Knows, ClientLives
  <2>2. /\ client'.helper = client.helper /\ client'.look = client.look /\ client'.failure = client.failure
        /\ client'.closed = client.closed
        /\ client.stopping => client'.stopping
        /\ client.shut => client'.shut
    BY <1>0, <1>9 DEF Watch, Client
  <2> QED  BY <2>1, <2>2 DEF Knows, ClientLives, Marked, Recorded, Moved, Late, Near
<1>10. CASE Sent
  <2>1. /\ client'.helper = client.helper /\ client'.receiver = client.receiver
        /\ client'.watchdog = client.watchdog /\ client'.look = client.look /\ client'.failure = client.failure
        /\ client'.closed = client.closed /\ client'.stopping = client.stopping /\ client'.shut = client.shut
    BY <1>0, <1>10 DEF Sent, Client
  <2> QED  BY <1>10, <2>1 DEF Sent, Knows, ClientLives, Marked, Recorded, Moved, Late, Near
<1> QED  BY <1>1, <1>2, <1>3, <1>4, <1>5, <1>6, <1>7, <1>8, <1>9, <1>10

(* After a break the loop passes on at most the action it was about to (control_loop), *)
(* and its end hands the break to the finally of main (run).                            *)
LEMMA LoopKnows ==
  ASSUME Words, Numbers, Knows, Look \/ Announce \/ Act \/ ActEnds \/ Finish
  PROVE  Knows'
<1> USE DEF GoTo, asked, UpdateClient
<1>0. client \in Client /\ saw \in [moved : BOOLEAN, broken : BOOLEAN, after : 0..2]
  BY DEF Numbers
<1>1. CASE Look
  <2>1. pc = "act" /\ ~client.shut /\ UNCHANGED <<mode, pc, al, saw>> /\ client' = [client EXCEPT !.look = TRUE]
    BY <1>1 DEF Look
  <2>2. /\ client'.helper = client.helper /\ client'.failure = client.failure
        /\ client'.closed = client.closed /\ client'.stopping = client.stopping /\ client'.shut = client.shut
    BY <1>0, <2>1 DEF Client
  <2>3. ~saw.broken /\ saw.after = 0
    BY <2>1 DEF Knows, Recorded, Late, Drive
  <2> QED  BY <2>1, <2>2, <2>3 DEF Knows, ClientLives, Marked, Recorded, Moved, Late, Near, Drive
<1>2. CASE Announce
  BY <1>2 DEF Announce, Knows, ClientLives, Marked, Recorded, Moved, Late, Near
<1>3. CASE Act
  <2>1. /\ client'.helper = client.helper /\ client'.look = FALSE /\ client'.failure = client.failure
        /\ client'.closed = client.closed /\ client'.stopping = client.stopping /\ client'.shut = client.shut
    BY <1>0, <1>3 DEF Act, Client
  <2>2. pc = "act" /\ client.look /\ UNCHANGED <<mode, pc, al>> /\ saw.after = 0
    <3>1. saw.after = 0
      BY <1>3 DEF Act, Knows, Late
    <3> QED  BY <1>3, <3>1 DEF Act
  <2>3. saw'.broken = saw.broken /\ (saw'.after = 0 \/ (saw.broken /\ saw'.after = 1))
    <3>1. CASE UNCHANGED saw
      BY <2>2, <3>1
    <3>2. CASE saw' = [saw EXCEPT !.moved = TRUE, !.after = IF saw.broken THEN 1 ELSE 0]
      BY <1>0, <3>2
    <3>3. saw'= saw \/ saw' = [saw EXCEPT !.moved = TRUE, !.after = IF saw.broken /\ saw.after < 2 THEN saw.after + 1 ELSE saw.after]
      BY <1>3 DEF Act
    <3>4. (IF saw.broken /\ saw.after < 2 THEN saw.after + 1 ELSE saw.after) = (IF saw.broken THEN 1 ELSE 0)
      BY <2>2
    <3> QED  BY <3>1, <3>2, <3>3, <3>4
  <2> QED  BY <2>1, <2>2, <2>3 DEF Knows, ClientLives, Marked, Recorded, Moved, Late, Near, Drive
<1>4. CASE ActEnds
  BY <1>4 DEF ActEnds, Knows, ClientLives, Marked, Recorded, Moved, Late, Near, Drive
<1>5. CASE Finish
  <2>1. CASE pc = "mark"
    BY <1>0, <1>5, <2>1 DEF Finish, Client, Knows, ClientLives, Marked, Recorded, Moved, Late, Near, Drive
  <2>2. CASE pc = "close"
    <3>1. pc' = "join" /\ UNCHANGED <<mode, al, saw>> /\ client' = [client EXCEPT !.shut = TRUE, !.closed = TRUE]
      BY <1>5, <2>2 DEF Finish
    <3>2. /\ client'.helper = client.helper /\ client'.look = client.look /\ client'.failure = client.failure
          /\ client'.closed /\ client'.stopping = client.stopping /\ client'.shut
      BY <1>0, <3>1 DEF Client
    <3> QED  BY <2>2, <3>1, <3>2 DEF Knows, ClientLives, Marked, Recorded, Moved, Late, Near, Drive
  <2>3. CASE pc = "join"
    <3>1. (pending \/ client.failure) \in BOOLEAN /\ Unwind(pending \/ client.failure) /\ pc \in Drive
      BY <1>5, <2>3 DEF Finish, Drive
    <3>2. ~(pending \/ client.failure) => ~saw.broken
      BY <2>3 DEF Knows, Recorded, Drive
    <3> QED  BY <3>1, <3>2, UnwindKnows
  <2> QED  BY <1>5, <2>1, <2>2, <2>3 DEF Finish
<1> QED  BY <1>1, <1>2, <1>3, <1>4, <1>5

(* Whatever happens to a trial keeps what is known of it. *)
LEMMA MovesKnows == ASSUME Words, Numbers, Knows, Moves PROVE Knows'
<1>1. CASE TrialStep
  BY <1>1, MainKnows, AlignKnows, ClientKnows, LoopKnows DEF TrialStep, Main
<1>2. CASE Kill
  BY <1>2, EndKnows DEF Kill
<1>3. CASE Sigterm /\ ~Kill
  <2>1. CASE UpdateClient([client EXCEPT !.shut = TRUE])
    BY <2>1 DEF UpdateClient, asked, Numbers, Client, Knows, ClientLives, Marked, Recorded, Moved, Late, Near
  <2>2. CASE ~UpdateClient([client EXCEPT !.shut = TRUE])
    BY <1>3, <2>2, StillKnows DEF Sigterm, asked
  <2> QED  BY <2>1, <2>2
<1>4. ASSUME NEW m \in Mode, Spawn(m) PROVE Knows'
  BY <1>4 DEF Spawn, Knows, ClientLives, Marked, Recorded, Moved, Late, Near, Drive, NoClient, Unseen
<1>5. CASE Forgets
  BY <1>5, StillKnows DEF Forgets, asked
<1>6. CASE UNCHANGED tvars
  BY <1>6, StillKnows DEF tvars
<1> QED  BY <1>1, <1>2, <1>3, <1>4, <1>5, <1>6 DEF Moves

----------------------------------------------------------------------------
(* The console: its types, and whose the trial is while a request is under way *)

Place == {"none", "side", "job", "answer", "lost", "term", "kill"}
Call == [at : Place, m : Mode]
Manager ==
  /\ handle \in Handle /\ watchers \subseteq Handle
  /\ watching \in 0..Trials /\ term \in 0..Trials
  /\ sideFlag \in BOOLEAN /\ side \in {"down", "up", "stuck"}
  /\ lock \in Caller \cup {0} /\ call \in [Caller -> Call]
  /\ restarts \in 0..Restarts
  /\ answers \subseteq Answer

(* The one request that is being served has the lock; while it starts a trial no trial that *)
(* the console itself started is running, and what it has started is not known yet.         *)
Own ==
  /\ handle.job <= trial
  /\ \A a \in answers : a.job <= trial
  /\ \A c \in Caller :
       /\ call[c].at # "none" => lock = c
       /\ call[c].at \in {"side", "job"} => (Running => handle.by = "poll")
       /\ call[c].at \in {"answer", "lost"} => handle.job < trial \/ handle.by = "poll"

(* A step of the trial starts none. *)
LEMMA SameTrial ==
  ASSUME TrialStep \/ Sigterm \/ Kill \/ Forgets \/ UNCHANGED tvars
  PROVE  trial' = trial /\ (Alive' => Alive)
<1> USE DEF asked, Alive, Exit, GoTo, UpdateClient
<1>1. CASE Refuse \/ Begin \/ Prepare \/ Swap \/ Turn
  BY <1>1 DEF Refuse, Begin, Prepare, Swap, Turn
<1>2. CASE AlignStop \/ AlignFrames \/ AlignSettle \/ AlignRaises \/ AlignDeadline
  BY <1>2 DEF AlignStop, AlignFrames, AlignSettle, AlignRaises, AlignDeadline, Aligning, AlignReturns, AlignGoesOn
<1>3. CASE LocalInstall \/ LocalLoaded \/ LocalEnds
  BY <1>3 DEF LocalInstall, LocalLoaded, LocalEnds, Unwind
<1>4. CASE ConnectStart \/ LoadStopped \/ LoadClose \/ LoadDone
  BY <1>4 DEF ConnectStart, LoadStopped, LoadClose, LoadDone, Unwind
<1>5. CASE Look \/ Announce \/ Act \/ ActEnds \/ Finish
  BY <1>5 DEF Look, Announce, Act, ActEnds, Finish, Unwind
<1>6. CASE HelperReturns \/ Sent \/ Break \/ Cancelled \/ Receive \/ Watch
  BY <1>6 DEF HelperReturns, Sent, Break, Cancelled, Receive, Watch
<1>7. CASE Sigterm \/ Kill
  BY <1>7 DEF Sigterm, Kill
<1>8. CASE Forgets \/ UNCHANGED tvars
  BY <1>8 DEF Forgets, tvars
<1> QED  BY <1>1, <1>2, <1>3, <1>4, <1>5, <1>6, <1>7, <1>8 DEF TrialStep, Main

(* The answer of the remote host to a stop of the side job (_stop_remote_resources). *)
LEMMA SideTypes == ASSUME Manager, NEW w \in BOOLEAN, StopSide(w) PROVE side' \in {"down", "up", "stuck"} /\ sideFlag' \in BOOLEAN
BY DEF Manager, StopSide

(* A request thread returns and gives the lock back (start, stop). *)
LEMMA ReturnTypes ==
  ASSUME Manager, NEW c \in Caller, Return(c)
  PROVE  /\ lock' \in Caller \cup {0} /\ call' \in [Caller -> Call]
         /\ \A x \in Caller : call'[x] = IF x = c THEN Idle ELSE call[x]
<1>1. Idle \in Call
  BY DEF Idle, Call, Place, Mode
<1> QED  BY <1>1 DEF Manager, Return

(* A request thread goes on with the lock (start, stop). *)
LEMMA MoveTypes ==
  ASSUME Manager, NEW c \in Caller, NEW p \in Place, MoveTo(c, p)
  PROVE  /\ lock' = c /\ call' \in [Caller -> Call]
         /\ \A x \in Caller : x # c => call'[x] = call[x]
         /\ call'[c].at = p /\ call'[c].m = call[c].m
<1>1. call \in [Caller -> Call]
  BY DEF Manager
<1>2. call' = [call EXCEPT ![c] = [call[c] EXCEPT !.at = p]] /\ lock' = c
  BY DEF MoveTo
<1>3. /\ [call[c] EXCEPT !.at = p] \in Call
      /\ [call[c] EXCEPT !.at = p].at = p /\ [call[c] EXCEPT !.at = p].m = call[c].m
  BY <1>1 DEF Call
<1> HIDE DEF Call
<1> QED  BY <1>1, <1>2, <1>3

(* The side job goes only where no trial runs in hand, or from one that a poll put in hand while *)
(* a start was on its way.                                                                       *)
Stays == side = "up" /\ side' # "up" /\ Running =>
            handle.by = "poll" /\ \E c \in Caller : call[c].at \in {"side", "job", "lost"}
Keeps == Moves /\ Manager' /\ Own' /\ Stays

(* The trial goes on or ends, and the console is not concerned. *)
LEMMA TrialKeeps == ASSUME Manager, Own, TrialStep, UNCHANGED mvars PROVE Keeps
<1>1. trial' = trial /\ (Alive' => Alive)
  BY SameTrial
<1>2. Manager' /\ Own' /\ Stays
  BY <1>1 DEF mvars, Manager, Own, Running, Stays
<1> QED  BY <1>2 DEF Keeps, Moves

(* start begins, or refuses, only where no trial runs that needs the side job. *)
LEMMA StartKeeps ==
  ASSUME Manager, Own, NEW c \in Caller, NEW m \in Modes, StartRefused(c, m) \/ StartPrepares(c, m)
  PROVE  Keeps
<1>0. \A w \in BOOLEAN : StopSide(w) => side' \in {"down", "up", "stuck"} /\ sideFlag' \in BOOLEAN
  BY SideTypes
<1>1. (~m.remote) \in BOOLEAN /\ m \in Mode
  BY ModesAssumption DEF Mode
<1>2. CASE StartRefused(c, m)
  <2>1. side' \in {"down", "up", "stuck"} /\ sideFlag' \in BOOLEAN
    BY <1>0, <1>1, <1>2 DEF StartRefused, Manager
  <2>2. UNCHANGED tvars /\ UNCHANGED <<lock, call, handle, watching, watchers, answers, term, restarts>> /\ Stays
    BY <1>2 DEF StartRefused, Stays
  <2>3. Running' = Running
    BY <2>2 DEF Running, Alive, tvars
  <2>4. Manager' /\ Own'
    BY <2>1, <2>2, <2>3 DEF Manager, Own, tvars
  <2> QED  BY <2>2, <2>4 DEF Keeps, Moves
<1>3. CASE StartPrepares(c, m)
  <2>1. side' \in {"down", "up", "stuck"} /\ sideFlag' \in BOOLEAN
    BY <1>0, <1>1, <1>3 DEF StartPrepares
  <2>2. Forgets /\ UNCHANGED <<handle, watching, watchers, answers, term, restarts>> /\ Stays /\ ~Running /\ lock = 0 /\ lock' = c
    BY <1>3 DEF StartPrepares, Forgets, Stays, Enters
  <2>3. Running' = Running /\ trial' = trial
    BY <2>2 DEF Running, Alive, Forgets, asked
  <2>4. \A x \in Caller : call[x].at = "none"
    BY <2>2, CallerAssumption DEF Own, Manager, Call, Place
  <2>5. call' \in [Caller -> Call] /\ call'[c].at \in {"side", "job"} /\ \A x \in Caller : x # c => call'[x].at = "none"
    <3>1. \E p \in {"side", "job"} : call' = [call EXCEPT ![c] = [at |-> p, m |-> m]]
      BY <1>3 DEF StartPrepares
    <3>2. \A p \in {"side", "job"} : [at |-> p, m |-> m] \in Call /\ [at |-> p, m |-> m].at = p
      BY <1>1 DEF Call, Place
    <3> QED  BY <2>4, <3>1, <3>2 DEF Manager
  <2>6. Manager'
    BY <2>1, <2>2, <2>5 DEF Manager
  <2>7. Own'
    BY <2>2, <2>3, <2>5 DEF Own
  <2> QED  BY <2>2, <2>6, <2>7 DEF Keeps, Moves
<1> QED  BY <1>2, <1>3

(* While start prepares the side job no trial of this console runs (ensure_policy_side). *)
LEMMA SideKeeps == ASSUME Manager, Own, NEW c \in Caller, StartSide(c) PROVE Keeps
<1>0. StopSide(TRUE) => side' \in {"down", "up", "stuck"} /\ sideFlag' \in BOOLEAN
  BY SideTypes
<1>1. (Running => handle.by = "poll") /\ lock = c /\ UNCHANGED tvars /\ UNCHANGED <<handle, watching, watchers, answers, term, restarts>>
  BY DEF StartSide, Own
<1>2. Running' = Running /\ trial' = trial
  BY <1>1 DEF Running, Alive, tvars
<1>3. side' \in {"down", "up", "stuck"} /\ sideFlag' \in BOOLEAN
  BY <1>0 DEF StartSide, Manager
<1>6. Stays
  BY <1>1 DEF StartSide, Stays
<1>4. CASE MoveTo(c, "job")
  <2>1. "job" \in Place
    BY DEF Place
  <2>2. lock' = c /\ call' \in [Caller -> Call] /\ call'[c].at = "job" /\ \A x \in Caller : x # c => call'[x] = call[x]
    BY <1>4, <2>1, MoveTypes
  <2>3. Manager'
    BY <1>1, <1>3, <2>2 DEF Manager
  <2>4. Own'
    BY <1>1, <1>2, <2>2 DEF Own
  <2> QED  BY <1>1, <1>6, <2>3, <2>4 DEF Keeps, Moves
<1>5. CASE Return(c)
  <2>1. lock' \in Caller \cup {0} /\ call' \in [Caller -> Call] /\ \A x \in Caller : call'[x] = IF x = c THEN Idle ELSE call[x]
    BY <1>5, ReturnTypes
  <2>2. Manager'
    BY <1>1, <1>3, <2>1 DEF Manager
  <2>3. Own'
    BY <1>1, <1>2, <2>1 DEF Own, Idle
  <2> QED  BY <1>1, <1>6, <2>2, <2>3 DEF Keeps, Moves
<1> QED  BY <1>4, <1>5 DEF StartSide

(* HUBq starts the trial, or refuses and the side job is given up (start). *)
LEMMA JobKeeps == ASSUME Numbers, Manager, Own, NEW c \in Caller, StartJob(c) PROVE Keeps
<1>0. call[c].m \in Mode /\ call[c].m.remote \in BOOLEAN
  BY DEF Manager, Call, Mode
<1>1. (Running => handle.by = "poll") /\ lock = c /\ UNCHANGED <<handle, watching, watchers, answers, restarts>>
  BY DEF StartJob, Own
<1>2. CASE Spawn(call[c].m)
  <2>1. PICK p \in {"answer", "lost"} : MoveTo(c, p) /\ UNCHANGED <<side, sideFlag>> /\ term' = 0
    BY <1>2 DEF StartJob, Spawn, tvars, Numbers
  <2>2. lock' = c /\ call' \in [Caller -> Call] /\ call'[c].at = p /\ \A x \in Caller : x # c => call'[x] = call[x]
    <3>1. p \in Place
      BY DEF Place
    <3> QED  BY <2>1, <3>1, MoveTypes
  <2>3. Manager'
    BY <1>1, <2>1, <2>2, TrialsAssumption DEF Manager
  <2>4. /\ trial \in Nat /\ trial' = trial + 1 /\ handle.job \in Nat
        /\ \A a \in answers : a.job \in Nat
    BY <1>2, TrialsAssumption DEF Spawn, Numbers, Manager, Handle, Answer
  <2>5. handle'.job <= trial' /\ handle'.job < trial' /\ \A a \in answers' : a.job <= trial'
    BY <1>1, <2>4 DEF Own
  <2>6. Own'
    BY <1>1, <2>2, <2>5 DEF Own
  <2> QED  BY <1>0, <1>2, <2>1, <2>3, <2>6 DEF Keeps, Moves, Stays
<1>3. CASE UNCHANGED <<tvars, term>> /\ StopSide(call[c].m.remote) /\ Return(c)
  <2>1. lock' \in Caller \cup {0} /\ call' \in [Caller -> Call] /\ \A x \in Caller : call'[x] = IF x = c THEN Idle ELSE call[x]
    BY <1>3, ReturnTypes
  <2>2. side' \in {"down", "up", "stuck"} /\ sideFlag' \in BOOLEAN
    BY <1>0, <1>3, SideTypes
  <2>3. Manager'
    BY <1>1, <1>3, <2>1, <2>2 DEF Manager
  <2>4. Running' = Running /\ trial' = trial
    BY <1>1, <1>3 DEF Running, Alive, tvars
  <2>5. Own'
    BY <1>1, <2>1, <2>4 DEF Own, Idle
  <2>6. Stays
    BY <1>1 DEF StartJob, Stays
  <2> QED  BY <1>1, <1>3, <2>3, <2>5, <2>6 DEF Keeps, Moves
<1> QED  BY <1>2, <1>3 DEF StartJob

(* A watcher is started for the handle of the moment (_start_watcher). *)
LEMMA WatchedTypes ==
  ASSUME Manager, NEW h \in Handle, Watched(h)
  PROVE  handle' = h /\ handle' \in Handle /\ watchers' \subseteq Handle /\ watching' \in 0..Trials
BY DEF Manager, Watched, Handle

(* The answer to a start makes the trial known; without it the trial is not known (start). *)
LEMMA AnswerKeeps ==
  ASSUME Numbers, Manager, Own, NEW c \in Caller, StartAnswered(c) \/ StartLost(c)
  PROVE  Keeps
<1>1. Return(c) /\ UNCHANGED tvars /\ UNCHANGED <<answers, term, restarts>> /\ lock = c
  BY DEF StartAnswered, StartLost, Own
<1>2. lock' \in Caller \cup {0} /\ call' \in [Caller -> Call] /\ \A x \in Caller : call'[x] = IF x = c THEN Idle ELSE call[x]
  BY <1>1, ReturnTypes
<1>3. \A x \in Caller : call'[x].at = "none"
  <2>1. \A x \in Caller : x # c => call[x].at = "none"
    BY <1>1 DEF Own
  <2> QED  BY <1>2, <2>1 DEF Idle
<1>4. trial' = trial /\ trial \in 0..Trials
  BY <1>1 DEF tvars, Numbers
<1>5. CASE StartAnswered(c)
  <2>1. [job |-> trial, by |-> "start"] \in Handle
    BY <1>4 DEF Handle
  <2>2. Watched([job |-> trial, by |-> "start"]) /\ UNCHANGED <<sideFlag, side>>
    BY <1>5 DEF StartAnswered
  <2>3. handle' = [job |-> trial, by |-> "start"] /\ handle' \in Handle /\ watchers' \subseteq Handle /\ watching' \in 0..Trials
    BY <2>1, <2>2, WatchedTypes
  <2>4. Manager'
    BY <1>1, <1>2, <2>2, <2>3 DEF Manager
  <2>5. handle'.job <= trial'
    BY <1>4, <2>3, TrialsAssumption
  <2>6. Own'
    BY <1>1, <1>3, <1>4, <2>5 DEF Own
  <2> QED  BY <1>1, <2>2, <2>4, <2>6 DEF Keeps, Moves, Stays
<1>6. CASE StartLost(c)
  <2>1. call[c].m.remote \in BOOLEAN /\ StopSide(call[c].m.remote) /\ UNCHANGED <<handle, watching, watchers>>
    BY <1>6 DEF StartLost, Manager, Call, Mode
  <2>2. side' \in {"down", "up", "stuck"} /\ sideFlag' \in BOOLEAN
    BY <2>1, SideTypes
  <2>3. Manager'
    BY <1>1, <1>2, <2>1, <2>2 DEF Manager
  <2>4. Own'
    BY <1>1, <1>3, <1>4, <2>1 DEF Own
  <2>5. handle.job = trial => handle.by = "poll"
    BY <1>4, <1>6, TrialsAssumption DEF StartLost, Own
  <2>6. Stays
    BY <1>6, <2>5 DEF StartLost, Stays, Running
  <2> QED  BY <1>1, <2>3, <2>4, <2>6 DEF Keeps, Moves
<1> QED  BY <1>5, <1>6

(* stop ends the trial before it takes the side job away. *)
LEMMA StopKeeps ==
  ASSUME Numbers, Manager, Own, NEW c \in Caller,
         StopNothing(c) \/ StopSignals(c) \/ StopLosesHubq(c) \/ StopEnds(c) \/ StopKills(c)
  PROVE  Keeps
<1>1. CASE StopNothing(c)
  <2>1. StopSide(TRUE) /\ UNCHANGED tvars /\ UNCHANGED <<lock, call, handle, watching, watchers, answers, term, restarts>> /\ ~Running
    BY <1>1 DEF StopNothing
  <2>2. side' \in {"down", "up", "stuck"} /\ sideFlag' \in BOOLEAN
    BY <2>1, SideTypes
  <2>3. Running' = Running /\ trial' = trial
    BY <2>1 DEF Running, Alive, tvars
  <2>4. Manager' /\ Own'
    BY <2>1, <2>2, <2>3 DEF Manager, Own
  <2> QED  BY <2>1, <2>4 DEF Keeps, Moves, Stays
<1>2. ASSUME NEW p \in {"term", "kill"}, MoveTo(c, p), Sigterm, term' \in 0..Trials,
             UNCHANGED <<handle, watching, sideFlag, side, watchers, answers, restarts>>,
             \A x \in Caller : x # c => call[x].at = "none"
      PROVE  Keeps
  <2>1. p \in Place
    BY DEF Place
  <2>2. lock' = c /\ call' \in [Caller -> Call] /\ call'[c].at = p /\ \A x \in Caller : x # c => call'[x] = call[x]
    BY <1>2, <2>1, MoveTypes
  <2>3. trial' = trial
    BY <1>2, SameTrial
  <2>4. Manager'
    BY <1>2, <2>2 DEF Manager
  <2>5. Own'
    BY <1>2, <2>2, <2>3 DEF Own
  <2> QED  BY <1>2, <2>4, <2>5 DEF Keeps, Moves, Stays
<1>3. CASE StopSignals(c)
  <2>1. \A x \in Caller : call[x].at = "none"
    <3>1. lock = 0
      BY <1>3 DEF StopSignals, Enters
    <3> QED  BY <3>1, CallerAssumption DEF Own, Manager, Call, Place
  <2>2. term' \in 0..Trials
    BY <1>3 DEF StopSignals, Numbers, Manager
  <2> QED  BY <1>2, <1>3, <2>1, <2>2 DEF StopSignals
<1>4. CASE StopLosesHubq(c)
  <2>1. \A x \in Caller : x # c => call[x].at = "none"
    BY <1>4 DEF StopLosesHubq, Own
  <2>2. term' \in 0..Trials
    BY <1>4 DEF StopLosesHubq, Manager
  <2> QED  BY <1>2, <1>4, <2>1, <2>2 DEF StopLosesHubq
<1>5. CASE StopEnds(c) \/ StopKills(c)
  <2>1. /\ Return(c) /\ term' = 0 /\ UNCHANGED <<handle, watching, watchers, answers, restarts>>
        /\ UNCHANGED tvars \/ Kill
        /\ lock = c
    BY <1>5 DEF StopEnds, StopKills, Own
  <2>2. lock' \in Caller \cup {0} /\ call' \in [Caller -> Call] /\ \A x \in Caller : call'[x] = IF x = c THEN Idle ELSE call[x]
    BY <2>1, ReturnTypes
  <2>3. \A x \in Caller : call'[x].at = "none"
    <3>1. \A x \in Caller : x # c => call[x].at = "none"
      BY <2>1 DEF Own
    <3> QED  BY <2>2, <3>1 DEF Idle
  <2>4. trial' = trial
    BY <2>1, SameTrial
  <2>5. Own'
    BY <2>1, <2>3, <2>4 DEF Own
  <2>6. side' \in {"down", "up", "stuck"} /\ sideFlag' \in BOOLEAN /\ Stays
    <3>1. CASE StopEnds(c)
      <4>1. side' \in {"down", "up", "stuck"} /\ sideFlag' \in BOOLEAN
        BY <3>1, SideTypes DEF StopEnds
      <4>2. Stays
        BY <3>1 DEF StopEnds, Stays, Running
      <4> QED  BY <4>1, <4>2
    <3>2. CASE StopKills(c)
      BY <3>2 DEF StopKills, Stays, Manager
    <3> QED  BY <1>5, <3>1, <3>2
  <2>7. 0 \in 0 .. Trials
    BY TrialsAssumption
  <2>8. Manager'
    BY <2>1, <2>2, <2>6, <2>7 DEF Manager
  <2> QED  BY <2>1, <2>5, <2>6, <2>8 DEF Keeps, Moves
<1> QED  BY <1>1, <1>3, <1>4, <1>5

(* HUBq's kill, an adoption, a restart of the console, and the watcher, which cleans up   *)
(* only after a trial that has ended (_watch_exit).                                        *)
LEMMA RestKeeps ==
  ASSUME Numbers, Manager, Own,
         HubqKills \/ AdoptAsk \/ (\E a \in answers : AdoptLands(a)) \/ Restart \/ \E w \in watchers : WatchExit(w)
  PROVE  Keeps
<1>1. CASE HubqKills
  <2>1. trial' = trial /\ (Alive' => Alive)
    BY <1>1, SameTrial DEF HubqKills
  <2>2. Manager'
    BY <1>1, TrialsAssumption DEF HubqKills, Manager
  <2>3. Own' /\ Stays /\ Moves
    BY <1>1, <2>1 DEF HubqKills, Own, Running, Stays, Moves
  <2> QED  BY <2>2, <2>3 DEF Keeps
<1>2. ASSUME NEW a \in answers, AdoptLands(a) PROVE Keeps
  <2>1. /\ trial' = trial /\ answers' = answers \ {a} /\ UNCHANGED tvars
        /\ UNCHANGED <<side, lock, call, term, restarts>>
    BY <1>2 DEF AdoptLands, tvars
  <2>2. a \in Answer /\ [job |-> a.job, by |-> "poll"] \in Handle
    BY DEF Manager, Answer, Handle
  <2>3. /\ handle' = [job |-> a.job, by |-> "poll"] /\ handle' \in Handle
        /\ watchers' \subseteq Handle /\ watching' \in 0..Trials
    BY <1>2, <2>2, WatchedTypes DEF AdoptLands
  <2>4. sideFlag' \in BOOLEAN
    BY <1>2, <2>2 DEF AdoptLands, Answer
  <2>5. Manager'
    BY <2>1, <2>3, <2>4 DEF Manager
  <2>6. handle'.job <= trial' /\ handle'.by = "poll"
    BY <2>1, <2>3 DEF Own
  <2>7. Own'
    BY <2>1, <2>6 DEF Own
  <2> QED  BY <2>1, <2>5, <2>7 DEF Keeps, Moves, Stays
<1>3. CASE Restart
  <2>1. /\ handle' = NoHandle /\ watching' = 0 /\ sideFlag' = FALSE /\ lock' = 0 /\ watchers' = {}
        /\ answers' = {} /\ call' = [c \in Caller |-> Idle] /\ restarts' = restarts + 1 /\ restarts < Restarts
        /\ UNCHANGED tvars /\ UNCHANGED <<side, term>>
    BY <1>3 DEF Restart
  <2>2. NoHandle \in Handle /\ Idle \in Call /\ 0 \in 0..Trials
    BY TrialsAssumption DEF NoHandle, Handle, Idle, Call, Place, Mode
  <2>3. restarts' \in 0..Restarts
    BY <2>1, RestartsAssumption DEF Manager
  <2>4. Manager'
    BY <2>1, <2>2, <2>3 DEF Manager
  <2>5. trial' \in 0..Trials
    BY <2>1 DEF tvars, Numbers
  <2>6. handle'.job <= trial'
    BY <2>1, <2>5, TrialsAssumption DEF NoHandle
  <2>7. \A c \in Caller : call'[c].at = "none"
    BY <2>1 DEF Idle
  <2>8. Own'
    BY <2>1, <2>6, <2>7 DEF Own
  <2> QED  BY <2>1, <2>4, <2>8 DEF Keeps, Moves, Stays
<1>4. ASSUME NEW w \in watchers, WatchExit(w) PROVE Keeps
  <2>1. /\ UNCHANGED tvars /\ UNCHANGED <<handle, watching, lock, call, answers, term, restarts>> /\ watchers' = watchers \ {w}
        /\ (StopSide(TRUE) /\ handle = w) \/ UNCHANGED <<side, sideFlag>>
        /\ w.job # trial \/ ~Alive
    BY <1>4 DEF WatchExit
  <2>2. side' \in {"down", "up", "stuck"} /\ sideFlag' \in BOOLEAN
    BY <2>1, SideTypes DEF Manager
  <2>3. Running' = Running /\ trial' = trial
    BY <2>1 DEF Running, Alive, tvars
  <2>4. Manager' /\ Own'
    BY <2>1, <2>2, <2>3 DEF Manager, Own
  <2>5. Stays
    BY <2>1 DEF Stays, Running
  <2> QED  BY <2>1, <2>4, <2>5 DEF Keeps, Moves
<1>5. CASE AdoptAsk
  <2>1. /\ trial' = trial /\ trial \in 0..Trials /\ mode.remote \in BOOLEAN /\ UNCHANGED tvars
        /\ UNCHANGED <<handle, watching, sideFlag, side, lock, call, watchers, term, restarts>>
        /\ answers' = answers \cup {[job |-> trial, remote |-> mode.remote]}
    BY <1>5 DEF AdoptAsk, tvars, Numbers, Mode
  <2>2. [job |-> trial, remote |-> mode.remote] \in Answer /\ trial <= trial
    BY <2>1, TrialsAssumption DEF Answer
  <2>3. Manager'
    BY <2>1, <2>2 DEF Manager
  <2>4. Running' = Running
    BY <2>1 DEF Running, Alive, tvars
  <2>5. Own'
    BY <2>1, <2>2, <2>4 DEF Own
  <2> QED  BY <2>1, <2>3, <2>5 DEF Keeps, Moves, Stays
<1> QED  BY <1>1, <1>2, <1>3, <1>4, <1>5

----------------------------------------------------------------------------
(* The invariant of the trials and the console together *)

IInv == Words /\ Numbers /\ Knows /\ Manager /\ Own

(* Nothing runs and nothing is asked for when the console is first started. *)
LEMMA InitIInv == Init => IInv
<1> SUFFICES ASSUME Init PROVE IInv
  OBVIOUS
<1>1. Words
  BY DEF Init, TrialInit, Words, Phase, Resting, Gap
<1>2. Numbers
  <2>1. [remote |-> FALSE, home |-> FALSE] \in Mode /\ 0 \in 0..Trials
    BY TrialsAssumption DEF Mode
  <2> QED  BY <2>1, NoClientType DEF Init, TrialInit, Numbers
<1>3. Knows
  BY DEF Init, TrialInit, Knows, ClientLives, Marked, Recorded, Moved, Late, Near, Drive, NoClient, Unseen
<1>4. Manager
  <2>1. NoHandle \in Handle /\ Idle \in Call /\ 0 \in 0..Trials /\ 0 \in 0..Restarts
    BY TrialsAssumption, RestartsAssumption DEF NoHandle, Handle, Idle, Call, Place, Mode
  <2> QED  BY <2>1 DEF Init, Manager
<1>5. Own
  BY DEF Init, TrialInit, NoHandle, Idle, Own
<1> QED  BY <1>1, <1>2, <1>3, <1>4, <1>5 DEF IInv

(* Every step of the trials and of the console keeps whose the side job is. *)
LEMMA StepKeeps == IInv /\ Next => Keeps
BY TrialKeeps, StartKeeps, SideKeeps, JobKeeps, AnswerKeeps, StopKeeps, RestKeeps DEF IInv, Next, Manage

(* Every step keeps the invariant. *)
LEMMA NextIInv == IInv /\ [Next]_vars => IInv'
<1> SUFFICES ASSUME IInv, [Next]_vars PROVE IInv'
  OBVIOUS
<1>1. Moves /\ Manager' /\ Own'
  <2>1. CASE Next
    BY <2>1, StepKeeps DEF Keeps
  <2>2. CASE UNCHANGED vars
    BY <2>2 DEF vars, tvars, mvars, Moves, IInv, Manager, Own, Running, Alive
  <2> QED  BY <2>1, <2>2
<1>2. Words' /\ Numbers' /\ Knows'
  BY <1>1, MovesTypes, MovesKnows DEF IInv
<1> QED  BY <1>1, <1>2 DEF IInv

(* ... and so it holds through all trials, stops and restarts. *)
LEMMA SpecIInv == Spec => []IInv
BY InitIInv, NextIInv, PTL DEF Spec

(* Trials, requests, watchers and the side job stay what they are declared to be. *)
THEOREM TypeCorrect == Spec => []TypeOK
<1>1. IInv => TypeOK
  BY SameTypes DEF IInv, Manager, TypeOK, Call, Place, Mode
<1> QED  BY <1>1, SpecIInv, PTL

(* After a break under way the arm is never sent home, whatever else comes at that moment. *)
THEOREM BreakHolds == Spec => []HoldAfterBreak
<1>1. IInv => HoldAfterBreak
  BY DEF IInv, Knows, Moved, HoldAfterBreak
<1> QED  BY <1>1, SpecIInv, PTL

(* A stop or the end of the time is never taken for a broken connection (abort). *)
THEOREM OwnEndIsNoBreak == Spec => []StopIsNotFailure
<1>1. IInv => StopIsNotFailure
  BY DEF IInv, Knows, Recorded, StopIsNotFailure
<1> QED  BY <1>1, SpecIInv, PTL

(* After a break at most the action already in hand reaches the arm. *)
THEOREM OneAfterBreak == Spec => []AtMostOneAfterBreak
<1>1. IInv => AtMostOneAfterBreak
  BY DEF IInv, Knows, Late, AtMostOneAfterBreak
<1> QED  BY <1>1, SpecIInv, PTL

(* No policy with a home pose starts from afar, for any course of the alignment. *)
THEOREM StartsAligned == Spec => []PolicyStartsAligned
<1>1. IInv => PolicyStartsAligned
  BY DEF IInv, Knows, Near, PolicyStartsAligned
<1> QED  BY <1>1, SpecIInv, PTL

(* The policy server is not taken away from a trial that runs and that the console has in hand,  *)
(* unless a start fails that was on its way when a poll took the trial over; for any number of   *)
(* request threads, watchers, polls, restarts and trials.                                        *)
THEOREM SideStays == Spec => SideLivesWithTrial
<1>1. IInv /\ [Next]_vars =>
       [side = "up" /\ side' # "up" /\ Running /\ mode.remote =>
          handle.by = "poll" /\ \E c \in Caller : call[c].at \in {"side", "job", "lost"}]_vars
  BY StepKeeps DEF Keeps, Stays
<1> QED  BY <1>1, SpecIInv, PTL DEF Spec, SideLivesWithTrial
=============================================================================
