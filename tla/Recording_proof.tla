-------------------------- MODULE Recording_proof --------------------------
(* What Recording promises, for every number of episodes, ticks and bus    *)
(* failures.  IInv is inductive; each of its parts is kept by four groups  *)
(* of steps: the person and the listener, the way into a loop, the loop,   *)
(* and what record() does after it.                                        *)
EXTENDS Recording, Storage, FiniteSetTheorems, TLAPS

(* TypeOK, in three parts of one sort each. *)
Words ==
  /\ control \in Key \cup {None} /\ held \in Key \cup {None}
  /\ lpc \in {"off", "idle", "read", "taken", "write"}
  /\ pc \in {"start", "while", "enter", "clear", "open", "loop", "tick", "failed",
             "close", "after", "decide", "discard", "save", "saving", "ended"}
  /\ loop \in {"episode", "reset"}
  /\ result \in {"none", "complete", "error"}

Flags ==
  /\ exit \in BOOLEAN /\ rerecord \in BOOLEAN /\ stop \in BOOLEAN
  /\ running \in BOOLEAN /\ gone \in BOOLEAN
  /\ broken \in BOOLEAN /\ hit \in BOOLEAN /\ condemned \in BOOLEAN

Numbers ==
  /\ ticks \in 0 .. Ticks /\ buffer \in 0 .. Ticks
  /\ failures \in 0 .. MaxFailures
  /\ recorded \in 0 .. Episodes /\ skipped \in 0 .. recorded
  /\ num \in 0 .. Earlier + Episodes
  /\ extra \in 0 .. 2

(* The events that a key sets, and what is left of them on the way.  *)
Events ==
  /\ lpc \in {"read", "taken", "write"} => held \in Key
  /\ todo \in {<<>>, <<"exit">>, <<"rerecord", "exit">>, <<"stop", "exit">>,
               <<"rerecord", "stop", "exit">>, <<"stop">>}
  /\ lpc = "write" => todo # <<>>

(* The door is open from Open to Close, and only then can a look hit.  *)
Door ==
  /\ running => pc \in {"loop", "tick", "failed", "close"}
  /\ hit => running

(* The frames of an episode are its ticks, and record() has the next one   *)
(* begun with an empty buffer.                                             *)
Frames ==
  /\ pc \in {"loop", "tick"} /\ loop = "episode" => buffer = ticks
  /\ pc = "tick" => ticks < Ticks
  /\ pc \in {"start", "while"} => buffer = 0
  /\ pc \in {"enter", "clear", "open"} /\ loop = "episode" => buffer = 0

(* Every episode of record() that ended is in the dataset or was empty.  *)
Accounts ==
  /\ reported = num
  /\ pc # "ended" => num + skipped = Earlier + recorded /\ result = "none"
  /\ pc \notin {"start", "while", "ended"} => recorded < Episodes
  /\ result = "complete" => /\ num + skipped = Earlier + recorded
                            /\ stop \/ recorded = Episodes

(* What has to be thrown away: a broken episode is marked by the handler   *)
(* of its error, a condemned one by the first event of abort.              *)
Marked ==
  /\ broken => rerecord \/ (pc = "failed" /\ loop = "episode")
  /\ condemned => rerecord
  /\ lpc = "write" /\ held = "abort" /\ hit =>
       rerecord \/ todo = <<"rerecord", "stop", "exit">>
  /\ pc \in {"save", "saving"} => ~broken /\ ~condemned

(* After an episode was begun too late, none is on its way.  *)
LastOne ==
  extra > 0 => /\ stop /\ extra = 1
               /\ ~(pc \in {"enter", "clear", "open"} /\ loop = "episode")

IInv == Words /\ Flags /\ Numbers /\ Events /\ Door /\ Frames /\ Accounts /\ Marked /\ LastOne

(* The steps, in four groups. *)
EnterStep == Start \/ While \/ Enter \/ Clear \/ Open

LoopStep ==
  \/ LoopTimeUp \/ LoopExit \/ LoopGoOn \/ Tick \/ TickFails
  \/ Failed \/ FailedAgain \/ Close

RecordStep == After \/ Decide \/ Discard \/ Save \/ SaveDone \/ SaveFails \/ Dies

ListenStep == Listen \/ \E k \in Key : Press(k)

(* Every step belongs to one of the groups. *)
LEMMA Groups == [Next]_vars <=> ListenStep \/ EnterStep \/ LoopStep \/ RecordStep \/ UNCHANGED vars
  BY ZenonT(30) DEF Next, Main, ListenStep, EnterStep, LoopStep, RecordStep

(* A session that has not started satisfies it. *)
LEMMA InitIInv == Init => IInv
<1> USE SizesAssumption DEF Init
<1>1. Init => Words
  BY DEF Words
<1>2. Init => Flags
  BY DEF Flags
<1>3. Init => Numbers
  BY DEF Numbers
<1>4. Init => Events
  BY DEF Events
<1>5. Init => Door /\ Frames
  BY DEF Door, Frames
<1>6. Init => Accounts
  BY DEF Accounts
<1>7. Init => Marked /\ LastOne
  BY DEF Marked, LastOne
<1> QED BY <1>1, <1>2, <1>3, <1>4, <1>5, <1>6, <1>7 DEF IInv

(* The places where the threads can be, and the words they write. *)
LEMMA WordsKept == ASSUME Words, Events, [Next]_vars PROVE Words'
<1>1. CASE ListenStep
  BY <1>1, SMTT(60) DEF ListenStep, Listen, ListenRead, ListenUnlink, ListenLook,
      ListenWrite, Press, file, listener, main, Words, Events
<1>2. CASE EnterStep
  BY <1>2, SMTT(60) DEF EnterStep, Start, While, Enter, Clear, Open, Goto, Over,
      file, listener, main, Words
<1>3. CASE LoopStep
  BY <1>3, SMTT(60) DEF LoopStep, LoopTimeUp, LoopExit, LoopGoOn, Tick, TickFails,
      Failed, FailedAgain, Close, Goto, Over, file, listener, main, Words
<1>4. CASE RecordStep
  BY <1>4, SMTT(60) DEF RecordStep, After, Decide, Discard, Save, SaveDone, SaveFails,
      Dies, Goto, Over, file, listener, main, Words
<1>5. CASE UNCHANGED vars
  BY <1>5 DEF vars, file, listener, main, Words
<1> QED BY <1>1, <1>2, <1>3, <1>4, <1>5, Groups

(* The flags of the events and of the histories. *)
LEMMA FlagsKept == ASSUME Flags, [Next]_vars PROVE Flags'
<1>1. CASE ListenStep
  BY <1>1, ZenonT(60) DEF ListenStep, Listen, ListenRead, ListenUnlink, ListenLook,
      ListenWrite, Press, events, main, history, Flags
<1>2. CASE EnterStep
  BY <1>2, ZenonT(60) DEF EnterStep, Start, While, Enter, Clear, Open, Goto, Over,
      events, main, history, Flags
<1>3. CASE LoopStep
  BY <1>3, ZenonT(60) DEF LoopStep, LoopTimeUp, LoopExit, LoopGoOn, Tick, TickFails,
      Failed, FailedAgain, Retry, Close, Goto, Over, events, main, history, Flags
<1>4. CASE RecordStep
  BY <1>4, ZenonT(60) DEF RecordStep, After, Decide, Discard, Save, SaveDone, SaveFails,
      Dies, Goto, Over, events, main, history, Flags
<1>5. CASE UNCHANGED vars
  BY <1>5 DEF vars, events, main, history, Flags
<1> QED BY <1>1, <1>2, <1>3, <1>4, <1>5, Groups

(* The counters. *)
LEMMA NumbersKept ==
  ASSUME Numbers, Frames, Accounts, [Next]_vars
  PROVE  Numbers'
<1> USE SizesAssumption
<1>1. CASE ListenStep
  BY <1>1, SMTT(60) DEF ListenStep, Listen, ListenRead, ListenUnlink, ListenLook,
      ListenWrite, Press, main, counts, dataset, history, Numbers
<1>2. CASE EnterStep
  BY <1>2, SMTT(60) DEF EnterStep, Start, While, Enter, Clear, Open, Goto, Over,
      main, counts, dataset, history, Numbers
<1>3. CASE LoopStep
  BY <1>3, SMTT(60) DEF LoopStep, LoopTimeUp, LoopExit, LoopGoOn, Tick, TickFails,
      Failed, FailedAgain, OneMore, Close, Goto, Over, main, counts, dataset, history,
      Numbers, Frames
<1>4. CASE RecordStep
  BY <1>4, SMTT(60) DEF RecordStep, After, Decide, Discard, Save, SaveDone, SaveFails,
      Dies, Goto, Over, main, counts, dataset, history, Numbers, Accounts
<1>5. CASE UNCHANGED vars
  BY <1>5 DEF vars, main, counts, dataset, history, Numbers
<1> QED BY <1>1, <1>2, <1>3, <1>4, <1>5, Groups

(* What is left of the events of a key when one was set. *)
LEMMA Tails ==
  /\ Tail(<<"exit">>) = <<>> /\ Tail(<<"stop">>) = <<>>
  /\ Tail(<<"rerecord", "exit">>) = <<"exit">>
  /\ Tail(<<"stop", "exit">>) = <<"exit">>
  /\ Tail(<<"rerecord", "stop", "exit">>) = <<"stop", "exit">>
  OBVIOUS

(* The events that are on their way. *)
LEMMA EventsKept == ASSUME Words, Events, [Next]_vars PROVE Events'
<1>1. CASE ListenRead \/ ListenUnlink \/ \E k \in Key : Press(k)
  BY <1>1 DEF ListenRead, ListenUnlink, Press, listener, Words, Events
<1>2. CASE ListenLook
<2>1. held \in Key
  BY <1>2 DEF ListenLook, Events
<2>2. todo' \in {<<>>, <<"exit">>, <<"rerecord", "exit">>, <<"stop", "exit">>,
                 <<"rerecord", "stop", "exit">>, <<"stop">>}
  BY <1>2, <2>1 DEF ListenLook, Writes, WritesBetween, Key
<2> QED BY <1>2, <2>1, <2>2 DEF ListenLook, Events
<1>3. CASE ListenWrite
  <2>1. todo' = Tail(todo) /\ todo # <<>>
    BY <1>3 DEF ListenWrite, Events
  <2>2. todo' \in {<<>>, <<"exit">>, <<"stop", "exit">>}
    BY <2>1, Tails DEF Events
  <2>3. held \in Key /\ (lpc' # "idle" => held' = held)
    BY <1>3 DEF ListenWrite, Events
  <2>4. lpc' \in {"idle", "write"} /\ (lpc' = "write" => todo' # <<>>)
    BY <1>3 DEF ListenWrite
  <2> QED BY <2>2, <2>3, <2>4 DEF Events
<1>4. CASE EnterStep
  BY <1>4, NoneAssumption, SMTT(60) DEF EnterStep, Start, While, Enter, Clear, Open, Goto, Over,
      listener, Events
<1>5. CASE LoopStep
  BY <1>5, NoneAssumption, SMTT(60) DEF LoopStep, LoopTimeUp, LoopExit, LoopGoOn, Tick, TickFails,
      Failed, FailedAgain, Close, Goto, Over, listener, Events
<1>6. CASE RecordStep
  BY <1>6, NoneAssumption, SMTT(60) DEF RecordStep, After, Decide, Discard, Save, SaveDone, SaveFails,
      Dies, Goto, Over, listener, Events
<1>7. CASE UNCHANGED vars
  BY <1>7 DEF vars, listener, Events
<1> QED BY <1>1, <1>2, <1>3, <1>4, <1>5, <1>6, <1>7, Groups DEF ListenStep, Listen

(* The door. *)
LEMMA DoorKept == ASSUME Flags, Door, [Next]_vars PROVE Door'
<1>1. CASE ListenStep
  BY <1>1, SMTT(60) DEF ListenStep, Listen, ListenRead, ListenUnlink, ListenLook,
      ListenWrite, Press, main, history, Door
<1>2. CASE EnterStep
  BY <1>2, SMTT(60) DEF EnterStep, Start, While, Enter, Clear, Open, Goto, Over,
      main, history, Door
<1>3. CASE LoopStep
  BY <1>3, SMTT(60) DEF LoopStep, LoopTimeUp, LoopExit, LoopGoOn, Tick, TickFails,
      Failed, FailedAgain, Close, Goto, Over, main, history, Door
<1>4. CASE RecordStep
  BY <1>4, SMTT(60) DEF RecordStep, After, Decide, Discard, Save, SaveDone, SaveFails,
      Dies, Goto, Over, main, history, Door
<1>5. CASE UNCHANGED vars
  BY <1>5 DEF vars, main, history, Door
<1> QED BY <1>1, <1>2, <1>3, <1>4, <1>5, Groups

(* The frames in the buffer. *)
LEMMA FramesKept == ASSUME Numbers, Frames, [Next]_vars PROVE Frames'
<1> USE SizesAssumption
<1>1. CASE ListenStep
  BY <1>1, SMTT(60) DEF ListenStep, Listen, ListenRead, ListenUnlink, ListenLook,
      ListenWrite, Press, main, dataset, Frames
<1>2. CASE EnterStep
  BY <1>2, SMTT(60) DEF EnterStep, Start, While, Enter, Clear, Open, Goto, Over,
      main, dataset, Numbers, Frames
<1>3. CASE LoopStep
  BY <1>3, SMTT(60) DEF LoopStep, LoopTimeUp, LoopExit, LoopGoOn, Tick, TickFails,
      Failed, FailedAgain, Close, Goto, Over, main, dataset, Numbers, Frames
<1>4. CASE RecordStep
  BY <1>4, SMTT(60) DEF RecordStep, After, Decide, Discard, Save, SaveDone, SaveFails,
      Dies, Goto, Over, main, dataset, Numbers, Frames
<1>5. CASE UNCHANGED vars
  BY <1>5 DEF vars, main, dataset, Frames
<1> QED BY <1>1, <1>2, <1>3, <1>4, <1>5, Groups

(* The episodes that are accounted for. *)
LEMMA AccountsKept == ASSUME Flags, Numbers, Frames, Accounts, [Next]_vars PROVE Accounts'
<1> USE SizesAssumption
<1>1. CASE ListenStep
  BY <1>1, SMTT(60) DEF ListenStep, Listen, ListenRead, ListenUnlink, ListenLook,
      ListenWrite, Press, events, main, counts, dataset, Numbers, Accounts
<1>2. CASE EnterStep
  BY <1>2, SMTT(60) DEF EnterStep, Start, While, More, Enter, Clear, Open, Goto, Over,
      events, main, counts, dataset, Numbers, Accounts
<1>3. CASE LoopStep
  BY <1>3, SMTT(60) DEF LoopStep, LoopTimeUp, LoopExit, LoopGoOn, Tick, TickFails,
      Failed, FailedAgain, OneMore, Close, Goto, Over, events, main, counts, dataset,
      Numbers, Accounts
<1>4. CASE RecordStep
  BY <1>4, SMTT(60) DEF RecordStep, After, Decide, Discard, Save, SaveDone, SaveFails,
      Dies, Goto, Over, events, main, counts, dataset, Numbers, Accounts
<1>5. CASE UNCHANGED vars
  BY <1>5 DEF vars, events, main, counts, dataset, Accounts
<1> QED BY <1>1, <1>2, <1>3, <1>4, <1>5, Groups

(* What is to be thrown away stays marked until it is. *)
LEMMA MarkedKept ==
  ASSUME Words, Flags, Events, Door, Marked, [Next]_vars
  PROVE  Marked'
<1>1. CASE ListenRead \/ ListenUnlink \/ \E k \in Key : Press(k)
  BY <1>1 DEF ListenRead, ListenUnlink, Press, listener, events, main, history, Marked
<1>2. CASE ListenLook
  BY <1>2 DEF ListenLook, Writes, events, main, Marked
<1>3. CASE ListenWrite
  <2>1. pc' = pc /\ loop' = loop /\ broken' = broken /\ hit' = hit /\ (rerecord => rerecord')
    BY <1>3 DEF ListenWrite, main
  <2>2. todo' = Tail(todo) /\ todo # <<>>
    BY <1>3 DEF ListenWrite, Events
  <2>3. CASE held = "abort" /\ hit
    <3>1. pc \notin {"save", "saving"}
      BY <2>3 DEF Door
    <3>2. rerecord \/ todo = <<"rerecord", "stop", "exit">>
      BY <1>3, <2>3 DEF ListenWrite, Marked
    <3>3. CASE todo = <<"rerecord", "stop", "exit">>
      <4>1. Head(todo) = "rerecord"
        BY <3>3
      <4>2. rerecord'
        BY <1>3, <4>1, Zenon DEF ListenWrite
      <4> QED BY <2>1, <3>1, <4>2 DEF Marked
    <3>4. CASE rerecord
      BY <2>1, <3>1, <3>4 DEF Marked
    <3> QED BY <3>2, <3>3, <3>4
  <2>4. CASE ~(held = "abort" /\ hit)
    <3>1. condemned' = condemned
      BY <1>3, <2>4 DEF ListenWrite, Flags
    <3>2. lpc' = "write" => held' = held
      BY <1>3 DEF ListenWrite
    <3> QED BY <2>1, <2>4, <3>1, <3>2 DEF Marked
  <2> QED BY <2>3, <2>4
<1>4. CASE EnterStep
  BY <1>4, SMTT(60) DEF EnterStep, Start, While, Enter, Clear, Open, Goto, Over,
      listener, events, main, history, Marked
<1>5. CASE LoopStep
  <2>1. CASE TickFails
    <3>1. loop = "episode" \/ broken' = broken
      BY <2>1, Zenon DEF TickFails, Flags
    <3> QED BY <2>1, <3>1 DEF TickFails, Goto, listener, events, Marked
  <2>2. CASE Failed
    BY <2>2 DEF Failed, Retry, Goto, listener, events, history, Marked
  <2>3. CASE Tick \/ Close
    BY <2>3 DEF Tick, Close, listener, events, history, Marked
  <2>4. CASE LoopTimeUp \/ LoopExit \/ LoopGoOn \/ FailedAgain
    BY <2>4 DEF LoopTimeUp, LoopExit, LoopGoOn, FailedAgain, Goto, Over, listener, events,
        history, Marked
  <2> QED BY <1>5, <2>1, <2>2, <2>3, <2>4 DEF LoopStep
<1>6. CASE RecordStep
  BY <1>6, SMTT(60) DEF RecordStep, After, Decide, Discard, Save, SaveDone, SaveFails,
      Dies, Goto, Over, listener, events, main, history, Door, Marked
<1>7. CASE UNCHANGED vars
  BY <1>7 DEF vars, listener, events, main, history, Marked
<1> QED BY <1>1, <1>2, <1>3, <1>4, <1>5, <1>6, <1>7, Groups DEF ListenStep, Listen

(* An episode that is begun too late is the last. *)
LEMMA LastOneKept == ASSUME Flags, Numbers, LastOne, [Next]_vars PROVE LastOne'
<1>1. CASE ListenStep
  <2>1. UNCHANGED <<pc, loop, extra>>
    BY <1>1 DEF ListenStep, Listen, ListenRead, ListenUnlink, ListenLook, ListenWrite, Press,
        main, history
  <2>2. stop => stop'
    BY <1>1, ZenonT(60) DEF ListenStep, Listen, ListenRead, ListenUnlink, ListenLook, ListenWrite,
        Press, events
  <2> QED BY <2>1, <2>2 DEF LastOne
<1>2. CASE EnterStep
  BY <1>2, SMTT(60) DEF EnterStep, Start, While, More, Enter, Clear, Open, Goto, Over,
      events, main, history, Numbers, LastOne
<1>3. CASE LoopStep
  <2>1. pc' \notin {"enter", "clear", "open"} /\ extra' = extra
    BY <1>3, SMTT(60) DEF LoopStep, LoopTimeUp, LoopExit, LoopGoOn, Tick, TickFails,
        Failed, FailedAgain, Close, Goto, Over, history
  <2>2. stop => stop'
    BY <1>3, ZenonT(60) DEF LoopStep, LoopTimeUp, LoopExit, LoopGoOn, Tick, TickFails,
        Failed, FailedAgain, Retry, Close, Goto, Over, events
  <2> QED BY <2>1, <2>2 DEF LastOne
<1>4. CASE RecordStep
  BY <1>4, SMTT(60) DEF RecordStep, After, Decide, Discard, Save, SaveDone, SaveFails,
      Dies, Goto, Over, events, main, history, LastOne
<1>5. CASE UNCHANGED vars
  BY <1>5 DEF vars, events, main, history, LastOne
<1> QED BY <1>1, <1>2, <1>3, <1>4, <1>5, Groups

(* Every step keeps the whole invariant. *)
LEMMA NextIInv == ASSUME IInv, [Next]_vars PROVE IInv'
  BY WordsKept, FlagsKept, NumbersKept, EventsKept, DoorKept, FramesKept, AccountsKept,
     MarkedKept, LastOneKept DEF IInv

(* The strengthened invariant holds in every state of a session. *)
THEOREM Inductive == Spec => []IInv
  BY InitIInv, NextIInv, PTL DEF Spec

(* What is in memory, in the files and in the dataset has its type.        *)
THEOREM TypeCorrect == Spec => []TypeOK
<1>1. IInv => TypeOK
  <2>1. Events => todo \in Seq({"rerecord", "stop", "exit"})
    <3> DEFINE S == Seq({"rerecord", "stop", "exit"})
    <3>1. <<>> \in S /\ <<"exit">> \in S /\ <<"stop">> \in S
      OBVIOUS
    <3>2. <<"rerecord", "exit">> \in S /\ <<"stop", "exit">> \in S
      OBVIOUS
    <3>3. <<"rerecord", "stop", "exit">> \in S
      OBVIOUS
    <3> QED BY <3>1, <3>2, <3>3 DEF Events
  <2>2. Words /\ Flags => /\ control \in Key \cup {None} /\ held \in Key \cup {None}
                         /\ {exit, rerecord, stop, running, gone} \subseteq BOOLEAN
                         /\ {broken, hit, condemned} \subseteq BOOLEAN
    BY Zenon DEF Words, Flags
  <2>3. Numbers /\ Accounts => /\ skipped \in 0 .. Episodes
                              /\ reported \in 0 .. Earlier + Episodes
    BY SizesAssumption DEF Numbers, Accounts
  <2> QED BY <2>1, <2>2, <2>3 DEF IInv, TypeOK, Words, Numbers
<1> QED BY <1>1, Inductive, PTL

(* An episode during which the bus failed is never saved, however many     *)
(* keys arrive and wherever the handler of the error is overtaken.         *)
THEOREM BrokenNeverSaved == Spec => []BrokenIsDiscarded
<1>1. IInv => BrokenIsDiscarded
  BY DEF IInv, Marked, BrokenIsDiscarded
<1> QED BY <1>1, Inductive, PTL

(* An episode that abort has struck is never saved.                        *)
THEOREM AbortedNeverSaved == Spec => []AbortDiscards
<1>1. IInv => AbortDiscards
  BY DEF IInv, Marked, AbortDiscards
<1> QED BY <1>1, Inductive, PTL

(* Every episode begins with an empty buffer.                              *)
THEOREM NeverMixed == Spec => []EpisodesDoNotMix
<1>1. IInv => EpisodesDoNotMix
  BY DEF IInv, Frames, EpisodesDoNotMix
<1> QED BY <1>1, Inductive, PTL

(* The status of an ended session tells what the dataset has, whether it   *)
(* ended by itself, by an interrupt or in the middle of a save.            *)
THEOREM ReportIsTrue == Spec => []ReportedIsSaved
<1>1. IInv => ReportedIsSaved
  BY DEF IInv, Accounts, ReportedIsSaved
<1> QED BY <1>1, Inductive, PTL

(* A session that nobody ended early saved all its episodes, but for those *)
(* it says were empty.                                                     *)
THEOREM AllAccounted == Spec => []EpisodesAccounted
<1>1. IInv => EpisodesAccounted
  BY SizesAssumption DEF IInv, Numbers, Accounts, EpisodesAccounted
<1> QED BY <1>1, Inductive, PTL

(* After stop_recording is set, at most one more episode begins, however   *)
(* the key was timed.                                                      *)
THEOREM OneMoreAtMost == Spec => []AtMostOneMore
<1>1. IInv => AtMostOneMore
  BY DEF IInv, Numbers, LastOne, AtMostOneMore
<1> QED BY <1>1, Inductive, PTL

----------------------------------------------------------------------------
(* What the recordings become (Storage): the dataset that is edited, thrown  *)
(* away and pushed, and the model that is pulled.                            *)
StoreBounds == IsFiniteSet(Ep) /\ Pushes \in Nat /\ Pulls \in Nat

(* What Storage assumes of its constants. *)
LEMMA BoundsOfStore == StoreBounds
BY EpAssumption, BoundsAssumption DEF StoreBounds

(* A removal takes from the model as long as it runs, and no pull that it met vouches for it. *)
Met == remove => torn /\ \A p \in Puller : ~pull[p].clean

(* What one pull knows of the model: what it has looked at and received is whole, and what *)
(* it has to send is missing in a model that nobody offers or in one that is torn anyway.  *)
Known(p) ==
  /\ Busy(p) /\ ~pull[p].clean => torn \/ model.manifest
  /\ Busy(p) /\ pull[p].clean =>
       \A f \in MFile : f \in pull[p].todo \/ f \in pull[p].want \/ model.files[f] = "whole"
  /\ pull[p].want # {} => Busy(p) /\ (pull[p].beside \/ torn \/ ~model.manifest)
  /\ pull[p].pc = "manifest" => pull[p].todo = {} /\ pull[p].want = {}

(* Of two pulls that run, each ran beside another one. *)
Beside == \A p, q \in Puller : p # q /\ Busy(p) /\ Busy(q) => pull[p].beside

ModelInv == Met /\ (\A p \in Puller : Known(p)) /\ Beside /\ ListedModelIsWhole

(* A copy of one dataset, not all of whose files need be there. *)
PartOf(c, v) == \A f \in File : c[f] = {} \/ (c[f] = v /\ f \in FilesOf(v))

(* An edit writes one dataset, and meets no recording (delete_episode). *)
Editing ==
  /\ edit.pc = "write" => \A c \in dir : PartOf(c, edit.to)
  /\ resuming => edit.pc = "idle"

(* What is under the name of the dataset or its backup is one version of it. *)
OneVersion ==
  /\ \A c \in dir \cup old : \E v \in Version : PartOf(c, v)
  /\ resuming => \A c \in dir : Whole(c) /\ c[0] # {}

LocalInv == Editing /\ OneVersion /\ NothingDestroyed

(* One push at a time, of a dataset that nobody changes meanwhile. *)
Alone ==
  /\ \A p, q \in Pusher : push[p].pc # "idle" /\ push[q].pc # "idle" => p = q
  /\ Pushing => edit.pc = "idle" /\ ~resuming

(* What rsync has not to send any more is on the other side as the dataset has it (push_dataset). *)
Arrived ==
  \A p \in Pusher : push[p].pc \in {"rsync", "rm", "mv"} =>
    /\ dir \subseteq found /\ dir # {} /\ incoming # {}
    /\ push[p].pc # "rsync" => push[p].left = {}
    /\ \A s \in dir, g \in incoming, f \in File :
         s[f] # {} => g[f] = s[f] \/ f \in push[p].left

(* What lies in .incoming was sent by a push, and unless the dataset was changed otherwise than *)
(* by recording, its files are among those the dataset has now.                                 *)
Within ==
  /\ incoming # {} \/ Pushing => pushes > 0
  /\ ~shrunk => \A g \in incoming, f \in File : g[f] # {} => \E s \in dir : s[f] # {}

PushInv == Alone /\ Arrived /\ Within /\ PushedIsWhole

StoreInv == StoreTypes /\ ModelInv /\ LocalInv /\ (~Shared => PushInv)

LocalTypes ==
  /\ AtMostOne(dir) /\ AtMostOne(old) /\ trash \subseteq Copy
  /\ edit \in [pc : {"idle", "move", "write", "tidy"}, to : Version]
  /\ resuming \in BOOLEAN /\ saved \in Version /\ cleared \in Version /\ shrunk \in BOOLEAN

RemoteTypes ==
  /\ AtMostOne(incoming) /\ AtMostOne(final) /\ found \subseteq Copy
  /\ push \in [Pusher -> [pc : {"idle", "mkdir", "rsync", "rm", "mv"}, left : SUBSET File]]
  /\ pushes \in 0..Pushes /\ cut \in BOOLEAN /\ late \in BOOLEAN

ModelTypes ==
  /\ pulls \in 0..Pulls /\ model \in [files : [MFile -> {"none", "part", "whole"}], manifest : BOOLEAN]
  /\ pull \in [Puller -> [pc : {"idle", "rsync", "manifest"}, todo : SUBSET MFile, want : SUBSET MFile,
                          clean : BOOLEAN, beside : BOOLEAN]]
  /\ remove \in BOOLEAN /\ torn \in BOOLEAN /\ half \in {"dataset", "model"}

(* The three parts are TypeOK. *)
LEMMA StoreParts == StoreTypes <=> LocalTypes /\ RemoteTypes /\ ModelTypes
BY DEF StoreTypes, LocalTypes, RemoteTypes, ModelTypes

LocalStep ==
  \/ ResumeStart \/ ResumeSave \/ ResumeEnd \/ MoveToTrash
  \/ DeleteEpisode \/ EditClears \/ EditMove \/ EditWrite \/ EditDone \/ EditTidy
  \/ EditFails \/ EditTimeout

PushStep ==
  \/ \E p \in Pusher :
       \/ Push(p) \/ Mkdir(p) \/ Rsync(p) \/ Sent(p) \/ Remove(p) \/ Removed(p)
       \/ Move(p) \/ PushFails(p)
  \/ LateRemove

ModelStep ==
  \/ \E p \in Puller :
       \/ Pull(p) \/ PullLook(p) \/ PullFile(p) \/ PullSent(p) \/ Manifest(p)
       \/ PullFails(p) \/ PullBreaks(p)
  \/ DeleteModel \/ Unlink \/ RemoveEnds

(* The datasets here, the training machine and the models are changed one at a time. *)
LEMMA StoreSteps ==
  /\ StoreNext <=> LocalStep \/ PushStep \/ ModelStep
  /\ LocalStep => UNCHANGED <<remote, models>>
  /\ PushStep => UNCHANGED <<local, models>>
  /\ ModelStep => UNCHANGED <<local, remote>>
<1>1. StoreNext <=> LocalStep \/ PushStep \/ ModelStep
  BY DEF StoreNext, LocalStep, PushStep, ModelStep
<1>2. LocalStep => UNCHANGED <<remote, models>>
  BY DEF LocalStep, ResumeStart, ResumeSave, ResumeEnd, MoveToTrash,
     DeleteEpisode, EditClears, EditMove, EditWrite, EditDone, EditTidy,
     EditFails, EditTimeout
<1>3. PushStep => UNCHANGED <<local, models>>
  BY DEF PushStep, Push, Mkdir, Rsync, Sent, Remove, Removed, Move,
     PushFails, LateRemove
<1>4. ModelStep => UNCHANGED <<local, remote>>
  BY DEF ModelStep, Pull, PullLook, PullFile, PullSent, Manifest, PullFails,
     PullBreaks, DeleteModel, Unlink, RemoveEnds
<1> QED BY <1>1, <1>2, <1>3, <1>4

(* The files of a version are among those that can be, and name all of its episodes. *)
LEMMA VersionFiles ==
  ASSUME StoreBounds, NEW v \in Version
  PROVE  /\ 0 \in File /\ 0 \in FilesOf(v) /\ FilesOf(v) \subseteq File
         /\ v # {} => 1 \in FilesOf(v)
<1>1. /\ IsFiniteSet(v) /\ Cardinality(v) \in Nat /\ Cardinality(Ep) \in Nat
      /\ Cardinality(v) <= Cardinality(Ep)
  BY FS_Subset, FS_CardinalityType DEF StoreBounds, Version
<1>2. v # {} => Cardinality(v) # 0
  BY <1>1, FS_EmptySet
<1>3. File = 0..Cardinality(Ep) /\ FilesOf(v) = 0..Cardinality(v)
  BY DEF File, FilesOf
<1> QED BY <1>1, <1>2, <1>3

(* A dataset written at once has all of its files and episodes, and no others. *)
LEMMA ExactlyIs ==
  ASSUME StoreBounds, NEW v \in Version
  PROVE  /\ Exactly(v) \in Copy /\ PartOf(Exactly(v), v)
         /\ Exactly(v)[0] = v /\ Whole(Exactly(v))
         /\ v \subseteq EpisodesIn(Exactly(v))
<1> DEFINE x == Exactly(v)
<1>1. x = [f \in File |-> IF f \in FilesOf(v) THEN v ELSE {}]
  BY DEF Exactly
<1>2. {} \in Version
  BY DEF Version
<1>3. x \in Copy /\ PartOf(x, v)
  BY <1>1, <1>2 DEF Copy, PartOf
<1>4. x[0] = v /\ \A f \in FilesOf(v) : x[f] = v
  BY <1>1, VersionFiles
<1>5. v # {} => 1 \in File \ {0} /\ x[1] = v
  BY <1>1, VersionFiles
<1> HIDE DEF x
<1>6. Whole(x)
  BY <1>4 DEF Whole
<1>7. v \subseteq EpisodesIn(x)
  BY <1>5 DEF EpisodesIn
<1> QED BY <1>3, <1>4, <1>6, <1>7 DEF x

(* What is whole and of one version has that version's episodes, and no others. *)
LEMMA WholeEpisodes ==
  ASSUME NEW c, NEW v \in Version, PartOf(c, v), c[0] # {}, StoreBounds
  PROVE  c[0] = v /\ EpisodesIn(c) \subseteq v
<1>1. c[0] = v
  BY VersionFiles DEF PartOf
<1>2. \A f \in File \ {0} : c[f] \subseteq v
  BY DEF PartOf
<1> QED BY <1>1, <1>2 DEF EpisodesIn

(* No files is a copy, and part of any version. *)
LEMMA NoFilesIs ==
  /\ NoFiles \in Copy
  /\ \A v \in Version : PartOf(NoFiles, v)
BY DEF NoFiles, Copy, Version, PartOf

----------------------------------------------------------------------------
(* What is noted of a pull that runs changes nothing else of it. *)
LEMMA Noted ==
  ASSUME NEW x \in [pc : {"idle", "rsync", "manifest"}, todo : SUBSET MFile, want : SUBSET MFile,
                    clean : BOOLEAN, beside : BOOLEAN], NEW b
  PROVE  LET y == [x EXCEPT !.beside = b]
         IN y.pc = x.pc /\ y.todo = x.todo /\ y.want = x.want /\ y.clean = x.clean /\ y.beside = b
OBVIOUS

(* Nor does that it vouches for nothing. *)
LEMMA Refused ==
  ASSUME NEW x \in [pc : {"idle", "rsync", "manifest"}, todo : SUBSET MFile, want : SUBSET MFile,
                    clean : BOOLEAN, beside : BOOLEAN]
  PROVE  LET y == [x EXCEPT !.clean = FALSE]
         IN /\ y \in [pc : {"idle", "rsync", "manifest"}, todo : SUBSET MFile, want : SUBSET MFile,
                          clean : BOOLEAN, beside : BOOLEAN]
            /\ y.pc = x.pc /\ y.todo = x.todo /\ y.want = x.want /\ y.beside = x.beside /\ ~y.clean
OBVIOUS

(* Nor does what it vouches for. *)
LEMMA Vouched ==
  ASSUME NEW x \in [pc : {"idle", "rsync", "manifest"}, todo : SUBSET MFile, want : SUBSET MFile,
                    clean : BOOLEAN, beside : BOOLEAN], NEW b
  PROVE  LET y == [x EXCEPT !.clean = @ /\ ~b]
         IN y.pc = x.pc /\ y.todo = x.todo /\ y.want = x.want /\ y.beside = x.beside
            /\ y.clean = (x.clean /\ ~b)
OBVIOUS

(* A model is whole when it is described, unless a removal or a broken pull met it *)
(* (spark.pull_checkpoint, models.delete_model).                                   *)
LEMMA ModelKept ==
  ASSUME StoreBounds, ModelTypes, ModelInv, ModelStep
  PROVE  ModelTypes' /\ ModelInv'
<1> USE DEF StoreBounds, ModelTypes, ModelInv, Met, Known, Beside, Busy, NoPull
<1>1. ASSUME NEW p \in Puller, Pull(p) PROVE ModelTypes' /\ ModelInv'
  <2> DEFINE r == [pc |-> "rsync", todo |-> MFile, want |-> {}, clean |-> ~remove,
                   beside |-> \E q \in Puller : Busy(q)]
  <2>1. /\ ~Busy(p) /\ pulls < Pulls /\ pulls' = pulls + 1 /\ UNCHANGED <<model, remove, torn, half>>
        /\ pull' = [q \in Puller |-> IF q = p THEN r ELSE [pull[q] EXCEPT !.beside = Busy(q)]]
    BY <1>1 DEF Pull
  <2>2. r \in [pc : {"idle", "rsync", "manifest"}, todo : SUBSET MFile, want : SUBSET MFile,
               clean : BOOLEAN, beside : BOOLEAN]
    BY Zenon
  <2>3. /\ r.pc = "rsync" /\ r.todo = MFile /\ r.want = {} /\ r.clean = ~remove
        /\ \A q \in Puller : Busy(q) => r.beside
    BY Zenon
  <2> HIDE DEF r
  <2>4. \A q \in Puller : q # p => pull'[q] = [pull[q] EXCEPT !.beside = Busy(q)]
    BY <2>1
  <2>5. pull'[p] = r
    BY <2>1
  <2>6. ASSUME NEW q \in Puller, q # p
        PROVE  /\ pull'[q].pc = pull[q].pc /\ pull'[q].todo = pull[q].todo /\ pull'[q].want = pull[q].want
               /\ pull'[q].clean = pull[q].clean /\ pull'[q].beside = Busy(q)
    <3>1. pull'[q] = [pull[q] EXCEPT !.beside = Busy(q)]
      BY <2>4, <2>6
    <3>2. pull[q] \in [pc : {"idle", "rsync", "manifest"}, todo : SUBSET MFile, want : SUBSET MFile,
                       clean : BOOLEAN, beside : BOOLEAN]
      BY <2>6
    <3> QED BY <3>1, <3>2, Noted, Zenon
  <2>7. ModelTypes'
    BY <2>1, <2>2
  <2>8. Met'
    <3>1. (remove' => remove) /\ (torn => torn')
      BY <2>1, Zenon
    <3>2. ASSUME remove, NEW q \in Puller PROVE torn /\ ~pull'[q].clean
      <4>1. torn /\ ~pull[q].clean
        BY <3>2
      <4>2. CASE q = p
        BY <2>3, <2>5, <3>2, <4>1, <4>2, Zenon
      <4>3. CASE q # p
        BY <2>6, <4>1, <4>3, Zenon
      <4> QED BY <4>2, <4>3
    <3>3. remove => torn /\ \A q \in Puller : ~pull'[q].clean
      BY <3>2
    <3>4. remove' => torn' /\ \A q \in Puller : ~pull'[q].clean
      BY <3>1, <3>3, Zenon
    <3> QED BY <3>4
  <2>11. (torn' <=> torn) /\ UNCHANGED model
    BY <2>1, Zenon
  <2>9. ASSUME NEW q \in Puller PROVE Known(q)'
    <3>1. CASE q = p
      <4>1. ~pull'[p].clean => torn'
        BY <2>3, <2>5, <2>11, Zenon
      <4>2. pull'[p].pc = "rsync" /\ pull'[p].todo = MFile /\ pull'[p].want = {}
        BY <2>3, <2>5
      <4> QED BY <3>1, <4>1, <4>2
    <3>2. CASE q # p
      <4>1. /\ pull'[q].pc = pull[q].pc /\ pull'[q].todo = pull[q].todo /\ pull'[q].want = pull[q].want
        BY <2>6, <3>2
      <4>2. (Busy(q) => pull'[q].beside) /\ (pull'[q].clean <=> pull[q].clean)
        BY <2>6, <3>2, Zenon
      <4> QED BY <2>11, <4>1, <4>2
    <3> QED BY <3>1, <3>2
  <2>10. Beside'
    BY <2>1, <2>3, <2>5, <2>6
  <2> QED BY <2>1, <2>7, <2>8, <2>9, <2>10 DEF ListedModelIsWhole
<1>2. ASSUME NEW p \in Puller, PullLook(p) PROVE ModelTypes' /\ ModelInv'
  <2>1. PICK f \in pull[p].todo :
          pull' = [pull EXCEPT ![p].todo = @ \ {f},
                               ![p].want = IF model.files[f] = "whole" THEN @ ELSE @ \cup {f}]
    BY <1>2 DEF PullLook
  <2>2. pull[p].pc = "rsync" /\ UNCHANGED <<model, remove, torn, pulls, half>>
    BY <1>2 DEF PullLook
  <2>3. /\ pull'[p].pc = "rsync" /\ pull'[p].todo = pull[p].todo \ {f}
        /\ pull'[p].want = IF model.files[f] = "whole" THEN pull[p].want ELSE pull[p].want \cup {f}
        /\ pull'[p].clean = pull[p].clean /\ pull'[p].beside = pull[p].beside
        /\ \A q \in Puller : q # p => pull'[q] = pull[q]
    BY <2>1, <2>2
  <2>4. ModelTypes'
    <3>1. pull'[p] \in [pc : {"idle", "rsync", "manifest"}, todo : SUBSET MFile, want : SUBSET MFile,
                        clean : BOOLEAN, beside : BOOLEAN]
      <4>1. pull'[p] = [pull[p] EXCEPT !.todo = pull'[p].todo, !.want = pull'[p].want]
        BY <2>1, <2>3
      <4>2. pull'[p].todo \in SUBSET MFile /\ pull'[p].want \in SUBSET MFile
        BY <2>3
      <4> QED BY <4>1, <4>2
    <3> QED BY <2>1, <2>2, <2>3, <3>1
  <2>5. Met' /\ Beside'
    BY <2>2, <2>3
  <2>6. Known(p)'
    BY <2>1, <2>2, <2>3 DEF ListedModelIsWhole
  <2>7. \A q \in Puller : q # p => Known(q)'
    BY <2>2, <2>3
  <2> QED BY <2>2, <2>4, <2>5, <2>6, <2>7 DEF ListedModelIsWhole
<1>3. ASSUME NEW p \in Puller, PullFile(p) PROVE ModelTypes' /\ ModelInv'
  <2>1. PICK f \in pull[p].want :
          /\ model' = [model EXCEPT !.files[f] = "whole"]
          /\ pull' = [pull EXCEPT ![p].want = @ \ {f}]
    BY <1>3 DEF PullFile
  <2>2. pull[p].pc = "rsync" /\ f \in MFile /\ UNCHANGED <<remove, torn, pulls, half>>
    BY <1>3, <2>1 DEF PullFile
  <2>3. /\ pull'[p].pc = "rsync" /\ pull'[p].todo = pull[p].todo /\ pull'[p].want = pull[p].want \ {f}
        /\ pull'[p].clean = pull[p].clean /\ pull'[p].beside = pull[p].beside
        /\ \A q \in Puller : q # p => pull'[q] = pull[q]
    BY <2>1, <2>2
  <2>4. /\ model'.manifest = model.manifest /\ model'.files[f] = "whole"
        /\ \A g \in MFile : model.files[g] = "whole" => model'.files[g] = "whole"
    BY <2>1, <2>2
  <2>5. ModelTypes'
    BY <2>1, <2>2
  <2>6. Met' /\ Beside'
    BY <2>2, <2>3
  <2>7. Known(p)'
    BY <2>2, <2>3, <2>4
  <2>8. \A q \in Puller : q # p => Known(q)'
    BY <2>2, <2>3, <2>4
  <2> QED BY <2>2, <2>4, <2>5, <2>6, <2>7, <2>8 DEF ListedModelIsWhole
<1>4. ASSUME NEW p \in Puller, PullSent(p) PROVE ModelTypes' /\ ModelInv'
  BY <1>4 DEF PullSent, ListedModelIsWhole
<1>5. ASSUME NEW p \in Puller, Manifest(p) PROVE ModelTypes' /\ ModelInv'
  BY <1>5 DEF Manifest, ListedModelIsWhole
<1>6. ASSUME NEW p \in Puller, PullFails(p) PROVE ModelTypes' /\ ModelInv'
  BY <1>6 DEF PullFails, ListedModelIsWhole
<1>7. ASSUME NEW p \in Puller, PullBreaks(p) PROVE ModelTypes' /\ ModelInv'
  <2>1. PICK f \in pull[p].want : model' = [model EXCEPT !.files[f] = "part"]
    BY <1>7 DEF PullBreaks
  <2>2. /\ torn' = (torn \/ pull[p].beside) /\ UNCHANGED <<remove, pulls, half>>
        /\ pull' = [q \in Puller |-> IF q = p THEN NoPull
                                     ELSE [pull[q] EXCEPT !.clean = @ /\ ~pull[p].beside]]
    BY <1>7 DEF PullBreaks
  <2>3. Busy(p) /\ f \in MFile
    BY <2>1
  <2>4. /\ model'.manifest = model.manifest
        /\ \A g \in MFile : g # f => model'.files[g] = model.files[g]
    BY <2>1, <2>3
  <2>5. pull'[p] = NoPull /\ \A q \in Puller : q # p => pull'[q] = [pull[q] EXCEPT !.clean = @ /\ ~pull[p].beside]
    BY <2>2
  <2>6. ASSUME NEW q \in Puller, q # p
        PROVE  /\ pull'[q].pc = pull[q].pc /\ pull'[q].todo = pull[q].todo /\ pull'[q].want = pull[q].want
               /\ pull'[q].beside = pull[q].beside /\ pull'[q].clean = (pull[q].clean /\ ~pull[p].beside)
    <3>1. pull'[q] = [pull[q] EXCEPT !.clean = @ /\ ~pull[p].beside]
      BY <2>5, <2>6
    <3>2. pull[q] \in [pc : {"idle", "rsync", "manifest"}, todo : SUBSET MFile, want : SUBSET MFile,
                       clean : BOOLEAN, beside : BOOLEAN]
      BY <2>6
    <3> QED BY <3>1, <3>2, Vouched, Zenon
  <2>7. \A q \in Puller : q # p /\ Busy(q) => pull[p].beside
    BY <2>3
  <2>8. ModelTypes'
    BY <2>1, <2>2
  <2>9. torn' => torn \/ pull[p].beside
    BY <2>2, Zenon
  <2>10. torn \/ pull[p].beside => torn'
    BY <2>2, Zenon
  <2>11. Met'
    BY <2>2, <2>5, <2>6, <2>10
  <2>12. Beside'
    BY <2>5, <2>6
  <2>13. Known(p)'
    BY <2>5
  <2>14. ASSUME NEW q \in Puller, q # p PROVE Known(q)'
    BY <2>4, <2>6, <2>7, <2>10, <2>14
  <2>15. ListedModelIsWhole'
    BY <2>1, <2>4, <2>10 DEF ListedModelIsWhole
  <2> QED BY <2>8, <2>11, <2>12, <2>13, <2>14, <2>15
<1>8. CASE DeleteModel
  <2>1. /\ pulls < Pulls /\ pulls' = pulls + 1
        /\ pull' = [p \in Puller |-> [pull[p] EXCEPT !.clean = FALSE]] /\ UNCHANGED <<model, half>>
    BY <1>8 DEF DeleteModel
  <2>5. remove' = TRUE /\ torn' = TRUE
    BY <1>8, Zenon DEF DeleteModel
  <2>2. ModelTypes'
    <3>1. pull' \in [Puller -> [pc : {"idle", "rsync", "manifest"}, todo : SUBSET MFile, want : SUBSET MFile,
                                clean : BOOLEAN, beside : BOOLEAN]]
      <4>1. ASSUME NEW q \in Puller
            PROVE  [pull[q] EXCEPT !.clean = FALSE] \in
                     [pc : {"idle", "rsync", "manifest"}, todo : SUBSET MFile, want : SUBSET MFile,
                      clean : BOOLEAN, beside : BOOLEAN]
        BY Refused
      <4> QED BY <2>1, <4>1
    <3>2. pulls' \in 0..Pulls
      BY <2>1
    <3>3. remove' \in BOOLEAN /\ torn' \in BOOLEAN
      BY <2>5, Zenon
    <3>4. model' = model /\ half' = half
      BY <2>1
    <3> QED BY <3>1, <3>2, <3>3, <3>4, Zenon
  <2>3. ASSUME NEW q \in Puller
        PROVE  /\ pull'[q].pc = pull[q].pc /\ pull'[q].todo = pull[q].todo /\ pull'[q].want = pull[q].want
               /\ pull'[q].beside = pull[q].beside /\ ~pull'[q].clean
    <3>1. pull'[q] = [pull[q] EXCEPT !.clean = FALSE]
      BY <2>1
    <3>2. pull[q] \in [pc : {"idle", "rsync", "manifest"}, todo : SUBSET MFile, want : SUBSET MFile,
                       clean : BOOLEAN, beside : BOOLEAN]
      OBVIOUS
    <3> QED BY <3>1, <3>2, Refused, Zenon
  <2>4. torn' /\ \A q \in Puller : ~pull'[q].clean
    <3>1. \A q \in Puller : ~pull'[q].clean
      BY <2>3
    <3> QED BY <2>5, <3>1, Zenon
  <2>6. Met' /\ ListedModelIsWhole'
    BY <2>4, Zenon DEF ListedModelIsWhole
  <2>7. ASSUME NEW q \in Puller PROVE Known(q)'
    BY <2>3, <2>4
  <2>8. Beside'
    BY <2>3
  <2> QED BY <2>2, <2>6, <2>7, <2>8
<1>9. CASE Unlink
  <2>1. torn /\ \A p \in Puller : ~pull[p].clean
    BY <1>9 DEF Unlink
  <2>2. UNCHANGED <<pull, remove, torn, pulls, half>>
    BY <1>9 DEF Unlink
  <2>3. model' \in [files : [MFile -> {"none", "part", "whole"}], manifest : BOOLEAN]
    <3>1. CASE model' = [model EXCEPT !.manifest = FALSE]
      BY <3>1
    <3>2. ASSUME NEW f \in MFile, model' = [model EXCEPT !.files[f] = "none"]
          PROVE  model' \in [files : [MFile -> {"none", "part", "whole"}], manifest : BOOLEAN]
      BY <3>2
    <3> QED BY <1>9, <3>1, <3>2 DEF Unlink
  <2>4. ModelTypes'
    BY <2>2, <2>3
  <2>5. torn' /\ \A p \in Puller : ~pull'[p].clean
    BY <2>1, <2>2
  <2>6. Met' /\ ListedModelIsWhole'
    BY <2>5, Zenon DEF ListedModelIsWhole
  <2>7. (\A p \in Puller : Known(p)') /\ Beside'
    BY <2>2, <2>5
  <2> QED BY <2>4, <2>6, <2>7
<1>10. CASE RemoveEnds
  BY <1>10 DEF RemoveEnds, ListedModelIsWhole
<1> QED BY <1>1, <1>2, <1>3, <1>4, <1>5, <1>6, <1>7, <1>8, <1>9, <1>10 DEF ModelStep

----------------------------------------------------------------------------
(* Every way an edit, a recording or the trash ends leaves the episodes somewhere *)
(* (datasets.delete_episode, delete_dataset, recording).                          *)
LEMMA LocalKept ==
  ASSUME StoreBounds, LocalTypes, LocalInv, LocalStep
  PROVE  LocalTypes' /\ LocalInv'
<1> USE DEF LocalTypes, LocalInv, Editing, OneVersion, NothingDestroyed, AtMostOne, Edit, backup, Shrinks
<1>1. CASE ResumeStart
  BY <1>1 DEF ResumeStart, Listed, Whole
<1>2. CASE ResumeSave
  <2>1. PICK c \in dir, e \in Ep \ saved :
           dir' = {Exactly(c[0] \cup {e})} /\ saved' = saved \cup {e}
    BY <1>2 DEF ResumeSave
  <2>2. UNCHANGED <<old, cleared, shrunk, trash, edit, resuming>> /\ resuming
    BY <1>2 DEF ResumeSave
  <2> DEFINE v == c[0] \cup {e}
  <2>3. PICK w \in Version : PartOf(c, w)
    BY <2>1
  <2>4. c[0] = w /\ EpisodesIn(c) \subseteq w
    BY <2>1, <2>2, <2>3, WholeEpisodes
  <2>5. v \in Version
    BY <2>4 DEF Version
  <2> HIDE DEF v
  <2>6. /\ Exactly(v) \in Copy /\ PartOf(Exactly(v), v) /\ Exactly(v)[0] = v
        /\ Whole(Exactly(v)) /\ v \subseteq EpisodesIn(Exactly(v))
    BY <2>5, ExactlyIs
  <2>7. v # {} /\ EpisodesIn(c) \subseteq v /\ e \in v /\ dir' = {Exactly(v)}
    BY <2>1, <2>4 DEF v
  <2>8. dir = {c}
    BY <2>1
  <2>9. NothingDestroyed'
    BY <2>1, <2>2, <2>6, <2>7, <2>8
  <2>10. LocalTypes'
    BY <2>1, <2>2, <2>6, <2>7 DEF Version
  <2> QED BY <2>2, <2>5, <2>6, <2>7, <2>9, <2>10
<1>3. CASE ResumeEnd
  BY <1>3 DEF ResumeEnd
<1>4. CASE MoveToTrash
  BY <1>4 DEF MoveToTrash
<1>5. CASE DeleteEpisode
  <2>1. PICK c \in dir, e \in Ep : edit' = [pc |-> "move", to |-> c[0] \ {e}]
    BY <1>5 DEF DeleteEpisode
  <2>2. c[0] \ {e} \in Version
    <3>1. 0 \in File
      BY VersionFiles DEF Version
    <3> QED BY <3>1 DEF Copy, Version
  <2> QED BY <1>5, <2>1, <2>2 DEF DeleteEpisode
<1>6. CASE EditMove
  BY <1>6 DEF EditMove
<1>12. CASE EditClears
  <2>1. \A c \in old : EpisodesIn(c) \subseteq Ep
    BY DEF EpisodesIn, Copy, Version
  <2>2. cleared' \in Version
    BY <1>12, <2>1 DEF EditClears, Version
  <2> QED BY <1>12, <2>2 DEF EditClears
<1>7. CASE EditWrite
  <2> DEFINE now == IF dir = {} THEN NoFiles ELSE CHOOSE c \in dir : TRUE
  <2>1. PICK f \in FilesOf(edit.to) :
           now[f] = {} /\ dir' = {[now EXCEPT ![f] = edit.to]} 
           /\ UNCHANGED <<old, cleared, shrunk, trash, edit, resuming, saved>>
    BY <1>7 DEF EditWrite
  <2>2. edit.pc = "write" /\ edit.to \in Version /\ f \in File
    BY <1>7, VersionFiles DEF EditWrite
  <2>3. now \in Copy /\ PartOf(now, edit.to) /\ \A c \in dir : c = now
    <3>1. CASE dir = {}
      BY <2>2, <3>1, NoFilesIs
    <3>2. CASE dir # {}
      BY <2>2, <3>2
    <3> QED BY <3>1, <3>2
  <2> HIDE DEF now
  <2> DEFINE next == [now EXCEPT ![f] = edit.to]
  <2>4. next \in Copy /\ PartOf(next, edit.to) /\ dir' = {next}
    BY <2>1, <2>2, <2>3 DEF Copy, PartOf
  <2>5. \A g \in File : now[g] \subseteq next[g]
    BY <2>1, <2>3 DEF Copy
  <2> HIDE DEF next
  <2>6. EpisodesIn(now) \subseteq EpisodesIn(next)
    BY <2>5 DEF EpisodesIn
  <2>7. NothingDestroyed'
    BY <2>1, <2>3, <2>4, <2>6
  <2>8. LocalTypes'
    BY <2>1, <2>4
  <2>9. OneVersion' /\ Editing'
    BY <2>1, <2>2, <2>4
  <2> QED BY <2>7, <2>8, <2>9
<1>8. CASE EditDone
  BY <1>8 DEF EditDone
<1>9. CASE EditTidy
  BY <1>9 DEF EditTidy
<1>10. CASE EditFails
  BY <1>10 DEF EditFails
<1>11. CASE EditTimeout
  BY <1>11 DEF EditTimeout
<1> QED BY <1>1, <1>2, <1>3, <1>4, <1>5, <1>6, <1>7, <1>8, <1>9, <1>10, <1>11, <1>12 DEF LocalStep

----------------------------------------------------------------------------
(* A push sends file after file of a dataset that stays as it is, moves it into place *)
(* only when all is there, and may break off anywhere (spark.push_dataset).           *)
LEMMA PushTypes ==
  ASSUME StoreBounds, LocalTypes, RemoteTypes, PushStep
  PROVE  RemoteTypes'
<1> USE DEF LocalTypes, RemoteTypes, AtMostOne, StoreBounds
<1>1. ASSUME NEW p \in Pusher, Push(p) PROVE RemoteTypes'
  BY <1>1 DEF Push, At, landing
<1>2. ASSUME NEW p \in Pusher, Mkdir(p) PROVE RemoteTypes'
  BY <1>2, NoFilesIs DEF Mkdir
<1>3. ASSUME NEW p \in Pusher, Rsync(p) PROVE RemoteTypes'
  <2>1. PICK f \in push[p].left, c \in dir :
          /\ incoming' = {[got EXCEPT ![f] = c[f]] : got \in IF incoming = {} THEN {NoFiles} ELSE incoming}
          /\ push' = [push EXCEPT ![p].left = @ \ {f}]
    BY <1>3 DEF Rsync
  <2>2. \A got \in IF incoming = {} THEN {NoFiles} ELSE incoming : [got EXCEPT ![f] = c[f]] \in Copy
    BY <2>1, NoFilesIs DEF Copy
  <2>3. AtMostOne(incoming')
    BY <2>1, <2>2
  <2>4. push' \in [Pusher -> [pc : {"idle", "mkdir", "rsync", "rm", "mv"}, left : SUBSET File]]
    BY <2>1
  <2>5. UNCHANGED <<final, cut, late, found, pushes>>
    BY <1>3 DEF Rsync
  <2> QED BY <2>3, <2>4, <2>5
<1>4. ASSUME NEW p \in Pusher, Sent(p) PROVE RemoteTypes'
  BY <1>4 DEF Sent, At, landing
<1>5. ASSUME NEW p \in Pusher, Move(p) PROVE RemoteTypes'
  BY <1>5 DEF Move, At
<1>6. ASSUME NEW p \in Pusher, PushFails(p) PROVE RemoteTypes'
  <2>1. UNCHANGED <<incoming, final, cut, pushes, found>> /\ push' = [push EXCEPT ![p] = NoPush]
    BY <1>6 DEF PushFails
  <2>2. late' \in BOOLEAN
    BY <1>6, Zenon DEF PushFails
  <2> QED BY <2>1, <2>2 DEF NoPush
<1>7. ASSUME Removes PROVE AtMostOne(final') /\ cut' \in BOOLEAN
  <2>1. PICK f \in File : final' = {[c EXCEPT ![f] = {}] : c \in final}
    BY <1>7 DEF Removes
  <2>2. \A c \in final : [c EXCEPT ![f] = {}] \in Copy
    BY DEF Copy, Version
  <2>3. AtMostOne(final')
    BY <2>1, <2>2
  <2> QED BY <1>7, <2>3 DEF Removes
<1>8. ASSUME NEW p \in Pusher, Remove(p) PROVE RemoteTypes'
  BY <1>7, <1>8 DEF Remove
<1>9. ASSUME NEW p \in Pusher, Removed(p) PROVE RemoteTypes'
  BY <1>9 DEF Removed, At
<1>10. CASE LateRemove
  <2>1. UNCHANGED <<incoming, push, pushes, found>>
    BY <1>10 DEF LateRemove
  <2>2. AtMostOne(final') /\ cut' \in BOOLEAN
    BY <1>7, <1>10 DEF LateRemove
  <2>3. late' \in BOOLEAN
    BY <1>10 DEF LateRemove
  <2> QED BY <2>1, <2>2, <2>3
<1> QED BY <1>1, <1>2, <1>3, <1>4, <1>5, <1>6, <1>8, <1>9, <1>10 DEF PushStep

(* Nobody edits, records or throws away what one push is about to send (app.push_dataset). *)
LEMMA AloneKept ==
  ASSUME ~Shared, LocalTypes, RemoteTypes, Alone, LocalStep \/ PushStep
  PROVE  Alone'
<1> USE DEF Alone, LocalTypes, RemoteTypes, Pushing
<1>1. ASSUME NEW p \in Pusher, Push(p) PROVE Alone'
  BY <1>1 DEF Push, At, local
<1>2. ASSUME NEW p \in Pusher,
             \/ Mkdir(p) \/ Rsync(p) \/ Sent(p) \/ Remove(p) \/ Removed(p)
             \/ Move(p) \/ PushFails(p)
      PROVE  Alone'
  BY <1>2 DEF Mkdir, Rsync, Sent, Remove, Removed, Move, PushFails, NoPush, At, local
<1>3. CASE LateRemove
  BY <1>3 DEF LateRemove, local
<1>4. CASE LocalStep
  BY <1>4, StoreSteps DEF LocalStep, ResumeStart, ResumeSave, ResumeEnd, MoveToTrash, Apart,
     DeleteEpisode, EditClears, EditMove, EditWrite, EditDone, EditTidy,
     EditFails, EditTimeout, Edit, remote
<1> QED BY <1>1, <1>2, <1>3, <1>4 DEF PushStep

(* The dataset a push is about stays as the push found it (delete_dataset, delete_episode). *)
LEMMA DirStays ==
  ASSUME ~Shared, LocalTypes, Alone, Pushing, LocalStep
  PROVE  dir' = dir
BY DEF Alone, Apart, LocalTypes, LocalStep, ResumeStart, ResumeSave, ResumeEnd, MoveToTrash,
   DeleteEpisode, EditClears, EditMove, EditWrite, EditDone, EditTidy,
   EditFails, EditTimeout

(* A recording appends, an edit that breaks off takes nothing away, and what takes files away from *)
(* a dataset that may have been sent is remembered (recording, delete_episode, delete_dataset).    *)
LEMMA WithinLocal ==
  ASSUME StoreBounds, LocalTypes, RemoteTypes, OneVersion, Within, LocalStep, UNCHANGED remote
  PROVE  Within'
<1> USE DEF LocalTypes, AtMostOne
<1>1. UNCHANGED <<incoming, pushes, push>>
  BY DEF remote, landing
<1>2. CASE \A f \in File, c \in dir : c[f] # {} => \E s \in dir' : s[f] # {}
  <2>1. shrunk => shrunk'
    BY DEF LocalStep, ResumeStart, ResumeSave, ResumeEnd, MoveToTrash, DeleteEpisode, EditClears,
       EditMove, EditWrite, EditDone, EditTidy, EditFails, EditTimeout, Shrinks
  <2> QED BY <1>1, <1>2, <2>1 DEF Within, Pushing
<1>3. CASE MoveToTrash \/ EditMove
  <2>1. shrunk' \/ pushes = 0
    <3>1. pushes = 0 \/ pushes > 0
      BY DEF RemoteTypes
    <3> QED BY <1>3, <3>1, Zenon DEF MoveToTrash, EditMove, Shrinks
  <2> QED BY <1>1, <2>1 DEF Within, Pushing
<1>4. CASE ResumeSave
  <2>1. PICK c \in dir, e \in Ep : dir' = {Exactly(c[0] \cup {e})} /\ resuming
    BY <1>4 DEF ResumeSave
  <2>2. PICK w \in Version : PartOf(c, w)
    BY <2>1 DEF OneVersion
  <2>3. c[0] = w /\ dir = {c}
    BY <2>1, <2>2, WholeEpisodes DEF OneVersion
  <2> DEFINE v == w \cup {e}
  <2>4. v \in Version /\ v # {}
    BY DEF Version
  <2>5. FilesOf(w) \subseteq FilesOf(v)
    <3>1. IsFiniteSet(v) /\ w \subseteq v
      BY <2>4, FS_Subset DEF StoreBounds, Version
    <3>2. Cardinality(w) <= Cardinality(v) /\ Cardinality(w) \in Nat /\ Cardinality(v) \in Nat
      BY <3>1, FS_Subset, FS_CardinalityType
    <3> QED BY <3>2 DEF FilesOf
  <2>6. \A f \in File : c[f] # {} => Exactly(v)[f] # {}
    BY <2>2, <2>4, <2>5 DEF PartOf, Exactly
  <2> QED BY <1>2, <2>1, <2>3, <2>6
<1>5. CASE EditWrite
  <2> DEFINE now == IF dir = {} THEN NoFiles ELSE CHOOSE c \in dir : TRUE
  <2>1. PICK f \in FilesOf(edit.to) : now[f] = {} /\ dir' = {[now EXCEPT ![f] = edit.to]}
    BY <1>5 DEF EditWrite
  <2>2. now \in Copy /\ \A c \in dir : c = now
    BY NoFilesIs
  <2> HIDE DEF now
  <2>3. \A g \in File : now[g] # {} => [now EXCEPT ![f] = edit.to][g] # {}
    BY <2>1, <2>2 DEF Copy
  <2> QED BY <1>2, <2>1, <2>2, <2>3
<1>6. CASE dir' = dir \/ dir = {}
  BY <1>2, <1>6
<1> QED BY <1>3, <1>4, <1>5, <1>6 DEF LocalStep, ResumeStart, ResumeEnd, DeleteEpisode, EditClears,
     EditDone, EditTidy, EditFails, EditTimeout

(* A push sends what the dataset has. *)
LEMMA WithinRemote ==
  ASSUME StoreBounds, LocalTypes, RemoteTypes, Within, PushStep, UNCHANGED local
  PROVE  Within'
<1> USE DEF LocalTypes, RemoteTypes, AtMostOne, Within, Pushing
<1>1. UNCHANGED <<dir, shrunk>>
  BY DEF local
<1>2. ASSUME NEW p \in Pusher, Push(p) PROVE Within'
  <2>1. pushes' > 0 /\ UNCHANGED incoming
    BY <1>2 DEF Push, landing
  <2> QED BY <1>1, <2>1
<1>3. ASSUME NEW p \in Pusher, Mkdir(p) PROVE Within'
  <2>1. pushes > 0 /\ UNCHANGED pushes
    BY <1>3 DEF Mkdir
  <2>2. \A g \in incoming', f \in File : g[f] # {} => g \in incoming
    BY <1>3 DEF Mkdir, NoFiles
  <2> QED BY <1>1, <2>1, <2>2
<1>4. ASSUME NEW p \in Pusher, Rsync(p) PROVE Within'
  <2>1. PICK f \in push[p].left, c \in dir :
          /\ incoming' = {[got EXCEPT ![f] = c[f]] : got \in IF incoming = {} THEN {NoFiles} ELSE incoming}
          /\ push' = [push EXCEPT ![p].left = @ \ {f}]
    BY <1>4 DEF Rsync
  <2>2. pushes > 0 /\ UNCHANGED pushes
    BY <1>4 DEF Rsync
  <2>3. \A got \in Copy, g \in File : [got EXCEPT ![f] = c[f]][g] = IF g = f THEN c[f] ELSE got[g]
    BY DEF Copy
  <2>4. \A g \in incoming' : \E got \in Copy :
           /\ g = [got EXCEPT ![f] = c[f]]
           /\ got \in incoming \/ \A h \in File : got[h] = {}
    BY <2>1, NoFilesIs DEF NoFiles
  <2>5. ASSUME ~shrunk, NEW g \in incoming', NEW h \in File, g[h] # {} PROVE \E s \in dir : s[h] # {}
    <3>1. PICK got \in Copy : /\ g = [got EXCEPT ![f] = c[f]]
                              /\ got \in incoming \/ \A i \in File : got[i] = {}
      BY <2>4
    <3>2. CASE h = f
      BY <2>1, <2>3, <2>5, <3>1, <3>2
    <3>3. CASE h # f
      <4>1. got[h] # {} /\ got \in incoming
        BY <2>3, <2>5, <3>1, <3>3
      <4> QED BY <2>5, <4>1, Zenon
    <3> QED BY <3>2, <3>3
  <2> QED BY <1>1, <2>2, <2>5
<1>5. ASSUME NEW p \in Pusher, Sent(p) \/ Remove(p) \/ Removed(p) \/ Move(p) \/ PushFails(p) PROVE Within'
  <2>1. incoming' \in {incoming, {}} /\ UNCHANGED pushes /\ push[p].pc # "idle"
    BY <1>5 DEF Sent, Remove, Removed, Move, PushFails, landing
  <2> QED BY <1>1, <2>1
<1>6. CASE LateRemove
  BY <1>1, <1>6 DEF LateRemove
<1> QED BY <1>2, <1>3, <1>4, <1>5, <1>6 DEF PushStep

(* Rsync's list shrinks by what has arrived; what is moved into place has arrived (push_dataset). *)
LEMMA PushKept ==
  ASSUME StoreBounds, ~Shared, LocalTypes, RemoteTypes, Alone, Arrived, Within, PushedIsWhole, PushStep
  PROVE  Arrived' /\ PushedIsWhole'
<1> USE DEF Alone, RemoteTypes, AtMostOne
<1>1. dir' = dir /\ shrunk' = shrunk /\ (dir = {} \/ \E s \in Copy : dir = {s})
  BY StoreSteps DEF LocalTypes, local
<1>10. ASSUME UNCHANGED <<final, cut>>, found \subseteq found' PROVE PushedIsWhole'
  BY <1>1, <1>10 DEF PushedIsWhole
<1>2. ASSUME NEW p \in Pusher, Push(p) PROVE Arrived' /\ PushedIsWhole'
  <2>1. push'[p].pc = "mkdir" /\ UNCHANGED <<incoming, final, cut, found>>
    BY <1>2 DEF Push, At, landing
  <2>2. \A q \in Pusher : q # p => push'[q].pc = "idle"
    BY <1>2 DEF Push, At, Pushing
  <2>3. Arrived'
    BY <2>1, <2>2 DEF Arrived
  <2> QED BY <1>10, <2>1, <2>3
<1>3. ASSUME NEW p \in Pusher, Mkdir(p) PROVE Arrived' /\ PushedIsWhole'
  <2>1. PICK s \in dir : push' = [push EXCEPT ![p] = [pc |-> "rsync", left |-> {f \in File : s[f] # {}}]]
    BY <1>3 DEF Mkdir
  <2>2. incoming' # {} /\ found' = found \cup dir /\ UNCHANGED <<final, cut>> /\ dir = {s}
    BY <1>1, <1>3 DEF Mkdir
  <2>3. PushedIsWhole'
    BY <1>10, <2>2
  <2>4. \A q \in Pusher : q # p => push'[q].pc = "idle"
    BY <1>3, <2>1 DEF Mkdir
  <2>5. push'[p].pc = "rsync" /\ push'[p].left = {f \in File : s[f] # {}}
    BY <2>1
  <2>6. Arrived'
    BY <1>1, <2>2, <2>4, <2>5 DEF Arrived
  <2> QED BY <2>3, <2>6
<1>4. ASSUME NEW p \in Pusher, Rsync(p) PROVE Arrived' /\ PushedIsWhole'
  <2>1. PICK f \in push[p].left, c \in dir :
          /\ incoming' = {[got EXCEPT ![f] = c[f]] : got \in IF incoming = {} THEN {NoFiles} ELSE incoming}
          /\ push' = [push EXCEPT ![p].left = @ \ {f}]
    BY <1>4 DEF Rsync
  <2>2. push[p].pc = "rsync" /\ UNCHANGED <<final, cut, found>>
    BY <1>4 DEF Rsync
  <2>3. dir = {c} /\ c \in found /\ incoming # {} /\ incoming \subseteq Copy
    BY <1>1, <2>1, <2>2 DEF Arrived
  <2>4. PICK got \in incoming : incoming = {got}
    BY <2>3
  <2>5. incoming' = {[got EXCEPT ![f] = c[f]]}
    BY <2>1, <2>4
  <2>6. \A g \in File : c[g] # {} =>
           [got EXCEPT ![f] = c[f]][g] = c[g] \/ g \in push[p].left \ {f}
    BY <2>2, <2>3, <2>4 DEF Arrived, Copy
  <2>7. \A q \in Pusher : q # p => push'[q].pc = "idle"
    BY <2>1, <2>2
  <2>8. push'[p].pc = "rsync" /\ push'[p].left = push[p].left \ {f}
    BY <2>1, <2>2
  <2>9. Arrived'
    BY <1>1, <2>2, <2>3, <2>5, <2>6, <2>7, <2>8 DEF Arrived
  <2> QED BY <1>10, <2>2, <2>9
<1>5. ASSUME NEW p \in Pusher, Sent(p) PROVE Arrived' /\ PushedIsWhole'
  <2>1. /\ push[p].pc = "rsync" /\ push[p].left = {}
        /\ push' = [push EXCEPT ![p].pc = "rm"] /\ UNCHANGED <<incoming, final, cut, found>>
    BY <1>5 DEF Sent, At, landing
  <2>2. push'[p].left = {} /\ \A q \in Pusher : q # p => push'[q].pc = "idle"
    BY <2>1
  <2>3. /\ dir \subseteq found /\ dir # {} /\ incoming # {}
        /\ \A s \in dir, g \in incoming, f \in File : s[f] # {} => g[f] = s[f]
    BY <2>1 DEF Arrived
  <2>4. Arrived'
    BY <1>1, <2>1, <2>2, <2>3 DEF Arrived
  <2> QED BY <1>10, <2>1, <2>4
<1>6. ASSUME NEW p \in Pusher, Remove(p) PROVE Arrived' /\ PushedIsWhole'
  <2>1. cut' /\ UNCHANGED <<incoming, push, found>>
    BY <1>6 DEF Remove, Removes
  <2> QED BY <1>1, <2>1 DEF Arrived, PushedIsWhole
<1>7. ASSUME NEW p \in Pusher, push[p].pc = "mv"
      PROVE  \A c \in incoming : \E s \in found :
               IF shrunk THEN \A f \in File : s[f] # {} => c[f] = s[f] ELSE c = s
  <2>1. push[p].left = {} /\ dir # {} /\ dir \subseteq found
    BY <1>7 DEF Arrived
  <2>2. PICK s \in Copy : dir = {s}
    BY <1>1, <2>1
  <2>3. \A c \in incoming, f \in File : s[f] # {} => c[f] = s[f]
    BY <1>7, <2>1, <2>2 DEF Arrived
  <2>4. ASSUME ~shrunk, NEW c \in incoming PROVE c = s
    <3>1. \A f \in File : c[f] # {} => s[f] # {}
      BY <2>2, <2>4, Zenon DEF Within
    <3>2. \A f \in File : c[f] = s[f]
      BY <2>3, <3>1
    <3> QED BY <2>2, <3>2 DEF Copy
  <2> QED BY <2>1, <2>2, <2>3, <2>4
<1>8. ASSUME NEW p \in Pusher, Move(p) PROVE Arrived' /\ PushedIsWhole'
  <2>1. final' \in {final, incoming} /\ UNCHANGED <<cut, found>> /\ push[p].pc = "mv"
    BY <1>8 DEF Move
  <2>2. \A q \in Pusher : push'[q].pc = "idle"
    BY <1>8 DEF Move, At
  <2>3. PushedIsWhole'
    <3>1. CASE final' = final
      BY <1>10, <2>1, <3>1
    <3>2. CASE final' = incoming
      <4>1. shrunk' = shrunk /\ found' = found
        BY <1>1, <2>1
      <4>2. \A c \in final' : \E s \in found : IF shrunk THEN \A f \in File : s[f] # {} => c[f] = s[f] ELSE c = s
        BY <1>7, <2>1, <3>2
      <4> QED BY <4>1, <4>2, Zenon DEF PushedIsWhole
    <3> QED BY <2>1, <3>1, <3>2
  <2> QED BY <2>2, <2>3 DEF Arrived
<1>9. ASSUME NEW p \in Pusher, PushFails(p) PROVE Arrived' /\ PushedIsWhole'
  <2>1. UNCHANGED <<final, cut, found>>
    BY <1>9 DEF PushFails
  <2>2. \A q \in Pusher : push'[q].pc = "idle"
    BY <1>9 DEF PushFails, NoPush
  <2> QED BY <1>10, <2>1, <2>2 DEF Arrived
<1>11. ASSUME NEW p \in Pusher, Removed(p) PROVE Arrived' /\ PushedIsWhole'
  <2>1. final' = {} /\ UNCHANGED <<incoming, found>> /\ push[p].pc = "rm"
    BY <1>11 DEF Removed
  <2>2. push' = [push EXCEPT ![p].pc = "mv"]
    BY <1>11 DEF Removed, At
  <2> QED BY <1>1, <2>1, <2>2 DEF Arrived, PushedIsWhole
<1>12. CASE LateRemove
  <2>1. UNCHANGED <<incoming, push, found>>
    BY <1>12 DEF LateRemove
  <2>2. PushedIsWhole'
    <3>1. CASE Removes
      BY <3>1 DEF Removes, PushedIsWhole
    <3>2. CASE final' = {}
      BY <3>2 DEF PushedIsWhole
    <3>3. CASE UNCHANGED <<final, cut>>
      BY <1>10, <2>1, <3>3
    <3> QED BY <1>12, <3>1, <3>2, <3>3 DEF LateRemove
  <2> QED BY <1>1, <2>1, <2>2 DEF Arrived
<1> QED BY <1>2, <1>3, <1>4, <1>5, <1>6, <1>8, <1>9, <1>11, <1>12 DEF PushStep

----------------------------------------------------------------------------
(* The first session leaves one whole dataset, and nothing else is there. *)
LEMMA StoreInvInit == ASSUME StoreBounds, StoreInit PROVE StoreInv
<1>1. saved \in Version /\ dir = {Exactly(saved)} /\ old = {} /\ trash = {} /\ edit = [pc |-> "idle", to |-> {}]
      /\ resuming = FALSE /\ cleared = {} /\ shrunk = FALSE /\ {} \in Version
  BY DEF StoreInit, Version
<1>2. LocalTypes /\ LocalInv
  BY <1>1, ExactlyIs DEF LocalTypes, LocalInv, AtMostOne, Editing, OneVersion, NothingDestroyed
<1>3. RemoteTypes
  <2>1. push = [p \in Pusher |-> NoPush] /\ pushes = 0 /\ incoming = {} /\ final = {} /\ found = {}
    BY DEF StoreInit
  <2>2. cut \in BOOLEAN /\ late \in BOOLEAN
    BY Zenon DEF StoreInit
  <2> QED BY <2>1, <2>2 DEF RemoteTypes, AtMostOne, StoreBounds, NoPush
<1>4. ModelTypes /\ ModelInv
  <2>1. /\ model = [files |-> [f \in MFile |-> "none"], manifest |-> FALSE] /\ pull = [p \in Puller |-> NoPull]
        /\ remove = FALSE /\ torn = FALSE /\ pulls = 0 /\ half \in {"dataset", "model"}
    BY DEF StoreInit
  <2>2. model \in [files : [MFile -> {"none", "part", "whole"}], manifest : BOOLEAN]
    BY <2>1
  <2>3. NoPull \in [pc : {"idle", "rsync", "manifest"}, todo : SUBSET MFile, want : SUBSET MFile,
                    clean : BOOLEAN, beside : BOOLEAN]
    BY DEF NoPull
  <2>4. pulls \in 0..Pulls
    BY <2>1 DEF StoreBounds
  <2>5. remove \in BOOLEAN /\ torn \in BOOLEAN
    BY <2>1, Zenon
  <2>6. ModelTypes
    BY <2>1, <2>2, <2>3, <2>4, <2>5, Zenon DEF ModelTypes
  <2>7. ModelInv
    BY <2>1 DEF ModelInv, Met, Known, Beside, Busy, NoPull, ListedModelIsWhole
  <2> QED BY <2>6, <2>7
<1>5. PushInv
  BY DEF StoreInit, NoPush, PushInv, Alone, Arrived, Within, Pushing, PushedIsWhole
<1> QED BY <1>2, <1>3, <1>4, <1>5, StoreParts DEF StoreInv

(* The three parts are StoreInv, also after a step. *)
LEMMA StoreWhole ==
  ASSUME LocalTypes', RemoteTypes', ModelTypes', ModelInv', LocalInv', ~Shared => PushInv'
  PROVE  StoreInv'
<1>1. StoreTypes'
  BY DEF StoreTypes, LocalTypes, RemoteTypes, ModelTypes
<1> QED BY <1>1 DEF StoreInv

(* The three parts keep their invariants beside each other. *)
LEMMA StoreInvNext == ASSUME StoreBounds, StoreInv, [StoreNext]_(storeVars) PROVE StoreInv'
<1>1. LocalTypes /\ RemoteTypes /\ ModelTypes /\ ModelInv /\ LocalInv /\ (~Shared => PushInv)
  BY StoreParts DEF StoreInv
<1>2. ASSUME UNCHANGED local PROVE LocalTypes' /\ LocalInv'
  BY <1>1, <1>2 DEF local, backup, LocalTypes, LocalInv, Editing, OneVersion, NothingDestroyed
<1>3. ASSUME UNCHANGED models PROVE ModelTypes' /\ ModelInv'
  BY <1>1, <1>3 DEF models, ModelTypes, ModelInv, Met, Known, Beside, Busy, ListedModelIsWhole
<1>4. ASSUME UNCHANGED remote PROVE RemoteTypes'
  BY <1>1, <1>4 DEF remote, landing, RemoteTypes
<1>5. ASSUME UNCHANGED <<local, remote>> PROVE ~Shared => PushInv'
  <2>1. UNCHANGED <<dir, shrunk, edit, resuming, incoming, final, cut, push, pushes, found>>
    BY <1>5 DEF local, remote, landing
  <2>2. Alone => Alone'
    BY <2>1 DEF Alone, Pushing
  <2>3. Arrived => Arrived'
    BY <2>1 DEF Arrived
  <2>4. PushedIsWhole => PushedIsWhole'
    BY <2>1 DEF PushedIsWhole
  <2>5. Within => Within'
    BY <2>1 DEF Within, Pushing
  <2> QED BY <1>1, <2>2, <2>3, <2>4, <2>5 DEF PushInv
<1>6. CASE LocalStep
  <2>1. LocalTypes' /\ LocalInv' /\ UNCHANGED <<remote, models>>
    BY <1>1, <1>6, LocalKept, StoreSteps
  <2>2. ASSUME ~Shared PROVE PushInv'
    <3>1. Alone' /\ (Pushing => dir' = dir)
      BY <1>1, <1>6, <2>2, AloneKept, DirStays DEF PushInv
    <3>2. UNCHANGED <<incoming, final, cut, push, found>>
      BY <2>1 DEF remote, landing
    <3>3. Arrived'
      BY <1>1, <2>2, <3>1, <3>2 DEF PushInv, Arrived, Pushing
    <3>4. PushedIsWhole'
      <4>1. shrunk => shrunk'
        BY <1>6 DEF LocalStep, ResumeStart, ResumeSave, ResumeEnd, MoveToTrash, DeleteEpisode, EditClears,
           EditMove, EditWrite, EditDone, EditTidy, EditFails, EditTimeout, Shrinks
      <4> QED BY <1>1, <2>2, <3>2, <4>1 DEF PushInv, PushedIsWhole
    <3>5. Within'
      BY <1>1, <1>6, <2>1, <2>2, WithinLocal DEF PushInv, LocalInv
    <3> QED BY <3>1, <3>3, <3>4, <3>5 DEF PushInv
  <2> QED BY <1>3, <1>4, <2>1, <2>2, StoreWhole
<1>7. CASE PushStep
  <2>1. RemoteTypes' /\ UNCHANGED <<local, models>>
    BY <1>1, <1>7, PushTypes, StoreSteps
  <2>2. ASSUME ~Shared PROVE PushInv'
    BY <1>1, <1>7, <2>1, <2>2, AloneKept, PushKept, WithinRemote DEF PushInv
  <2> QED BY <1>2, <1>3, <2>1, <2>2, StoreWhole
<1>8. CASE ModelStep
  <2>1. ModelTypes' /\ ModelInv' /\ UNCHANGED <<local, remote>>
    BY <1>1, <1>8, ModelKept, StoreSteps
  <2> QED BY <1>2, <1>4, <1>5, <2>1, StoreWhole
<1>9. CASE UNCHANGED storeVars
  <2>1. UNCHANGED <<local, remote, models>>
    BY <1>9 DEF storeVars
  <2> QED BY <1>2, <1>3, <1>4, <1>5, <2>1, StoreWhole
<1> QED BY <1>6, <1>7, <1>8, <1>9, StoreSteps

(* The invariant of the datasets and models. *)
LEMMA StoreInductive == ASSUME StoreBounds PROVE StoreSpec => []StoreInv
<1>1. StoreInit => StoreInv
  BY StoreInvInit
<1>2. StoreInv /\ [StoreNext]_(storeVars) => StoreInv'
  BY StoreInvNext
<1> QED BY <1>1, <1>2, PTL DEF StoreSpec

(* Each name has at most one copy, and every place of every command is one it can be at. *)
THEOREM StoreTypeCorrect == StoreSpec => []StoreTypes
<1>1. StoreInv => StoreTypes
  BY DEF StoreInv
<1> QED BY <1>1, BoundsOfStore, StoreInductive, PTL

(* No request destroys a demonstration, whichever of its steps fails or is killed, with   *)
(* any number of episodes and edits; only a backup that an edit broke off left is removed *)
(* by the next edit (delete_episode, delete_dataset).                                     *)
THEOREM DemonstrationsStay == StoreSpec => []NothingDestroyed
<1>1. StoreInv => NothingDestroyed
  BY DEF StoreInv, LocalInv
<1> QED BY <1>1, BoundsOfStore, StoreInductive, PTL

(* If no second push and no change meets a push, what is listed on the training machine is *)
(* the dataset as one push found it, however many pushes broke off before and wherever they *)
(* did, unless an rm -rf has begun on it; after an edit between pushes each file of the    *)
(* dataset is as the push found it, and files of an earlier attempt may lie beside them    *)
(* (push_dataset).                                                                         *)
THEOREM PushedDatasetsAreWhole == ASSUME ~Shared PROVE StoreSpec => []PushedIsWhole
<1>1. StoreInv => PushedIsWhole
  BY DEF StoreInv, PushInv
<1> QED BY <1>1, BoundsOfStore, StoreInductive, PTL

(* A model that is described is whole, unless a removal or one of two pulls that broke off met it *)
(* since, with any number of pulls at once (pull_checkpoint, delete_model).                       *)
THEOREM ListedModelsAreWhole == StoreSpec => []ListedModelIsWhole
<1>1. StoreInv => ListedModelIsWhole
  BY DEF StoreInv, ModelInv
<1> QED BY <1>1, BoundsOfStore, StoreInductive, PTL
============================================================================
