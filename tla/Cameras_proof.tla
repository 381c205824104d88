--------------------------- MODULE Cameras_proof ---------------------------
(* What a camera promises its viewers and the other programs, for every    *)
(* number of viewers and of streams that break; and, in the second half,   *)
(* what the rig that keeps the lenses and places of the cameras promises   *)
(* (Perception), for every number of cameras, lenses, views and poses.     *)
EXTENDS Cameras, Perception, FiniteSetTheorems, TLAPS

(* TypeOK, in three parts: the words, the kernel's lock, the count. *)
Words ==
  /\ owner \in {"none", "preview", "job"}
  /\ th \in {"none", "lock", "open", "opening", "on", "quit", "end"}
  /\ letgo \in BOOLEAN /\ halt \in BOOLEAN /\ reopen \in BOOLEAN
  /\ error \in BOOLEAN /\ frame \in BOOLEAN
  /\ viewer \in [Viewer -> {"off", "asked", "watch", "leave"}]
  /\ stopper \in {"idle", "wait", "handed"}

Locked == owner = "preview" <=> letgo \/ th \in {"open", "opening", "on", "end"}

Counted == lost \in 0..Lost /\ clients = Cardinality(Watching) + lost

(* The three parts are TypeOK (CameraPreview, camera_owner). *)
LEMMA SameType == TypeOK <=> Words /\ Locked /\ Counted
BY DEF TypeOK, Words, Locked, Counted

(* While the last step of a thread still has the lock no later thread has it, *)
(* so that returning it does not take it from one that captures (_capture).   *)
OneThread == letgo => th \notin {"open", "opening", "on", "end"}

(* The steps of the thread and of the programs that share the camera: no stream comes or goes. *)
Machine ==
  \/ TakeLock \/ Profile \/ Open \/ Frame \/ Halted \/ Reopened \/ Unplugged \/ Cleared \/ GiveBack
  \/ Configure \/ StopWorker \/ StopReturns \/ StopTimesOut \/ ModeStarts \/ ModeEnds

(* A step is one of the thread and the other programs, or one of a stream (CameraPreview). *)
LEMMA StepsOf == Next <=> Machine \/ Streams
BY DEF Next, Machine, Capture

(* What the thread and the programs that take the camera do keeps the lock with the *)
(* thread that captures, and touches no stream (_capture, configure, stop_worker).  *)
LEMMA MachineSteps ==
  ASSUME Words, Locked, OneThread, Machine
  PROVE  Words' /\ Locked' /\ OneThread' /\ UNCHANGED <<viewer, clients, lost>>
<1> USE DEF Words, Locked, OneThread
<1>1. CASE TakeLock
  BY <1>1 DEF TakeLock
<1>2. CASE Open
  BY <1>2 DEF Open
<1>15. CASE Profile
  BY <1>15 DEF Profile
<1>3. CASE Frame
  BY <1>3 DEF Frame
<1>4. CASE Halted
  BY <1>4 DEF Halted
<1>5. CASE Reopened
  BY <1>5 DEF Reopened
<1>6. CASE Unplugged
  BY <1>6 DEF Unplugged
<1>7. CASE Cleared
  BY <1>7 DEF Cleared
<1>8. CASE GiveBack
  BY <1>8 DEF GiveBack
<1>9. CASE Configure
  BY <1>9 DEF Configure
<1>10. CASE StopWorker
  BY <1>10 DEF StopWorker
<1>11. CASE StopReturns
  BY <1>11 DEF StopReturns
<1>12. CASE StopTimesOut
  BY <1>12 DEF StopTimesOut
<1>13. CASE ModeStarts
  BY <1>13 DEF ModeStarts
<1>14. CASE ModeEnds
  BY <1>14 DEF ModeEnds
<1> QED  BY <1>1, <1>2, <1>3, <1>4, <1>5, <1>6, <1>7, <1>8, <1>9, <1>10, <1>11, <1>12, <1>13, <1>14, <1>15 DEF Machine

(* A stream starts a thread only where none is, and stops it only by its halt flag *)
(* (acquire, release).                                                             *)
LEMMA StreamSteps ==
  ASSUME Words, Locked, OneThread, NEW v \in Viewer,
         Ask(v) \/ Acquire(v) \/ StreamEnds(v) \/ ViewerGoes(v) \/ StreamRaises(v) \/ Release(v)
  PROVE  Words' /\ Locked' /\ OneThread'
<1>1. CASE Ask(v) \/ StreamEnds(v) \/ ViewerGoes(v)
  BY <1>1 DEF Ask, StreamEnds, ViewerGoes, Words, Locked, OneThread
<1>2. CASE Acquire(v)
  BY <1>2 DEF Acquire, Words, Locked, OneThread
<1>3. CASE StreamRaises(v)
  BY <1>3 DEF StreamRaises, Words, Locked, OneThread
<1>4. CASE Release(v)
  <2>1. halt' \in BOOLEAN
    BY <1>4 DEF Release
  <2> QED  BY <1>4, <2>1 DEF Release, Words, Locked, OneThread
<1> QED  BY <1>1, <1>2, <1>3, <1>4

(* The streams are finitely many. *)
LEMMA FewWatch == IsFiniteSet(Watching) /\ Cardinality(Watching) \in Nat
BY ViewerAssumption, FS_Subset, FS_CardinalityType DEF Watching

(* The count goes up with a stream, down with its release, and an error leaves it (acquire, release). *)
LEMMA CountSteps ==
  ASSUME Words, Counted, NEW v \in Viewer,
         Ask(v) \/ Acquire(v) \/ StreamEnds(v) \/ ViewerGoes(v) \/ StreamRaises(v) \/ Release(v)
  PROVE  Counted'
<1>1. CASE Ask(v) \/ StreamEnds(v) \/ ViewerGoes(v)
  <2>1. Watching' = Watching
    BY <1>1 DEF Ask, StreamEnds, ViewerGoes, Words, Watching
  <2> QED  BY <1>1, <2>1 DEF Ask, StreamEnds, ViewerGoes, Counted
<1>2. CASE Acquire(v)
  <2>1. Watching' = Watching \cup {v} /\ v \notin Watching
    BY <1>2 DEF Acquire, Words, Watching
  <2>2. Cardinality(Watching') = Cardinality(Watching) + 1
    BY <2>1, FewWatch, FS_AddElement
  <2>3. clients' = clients + 1 /\ lost' = lost
    BY <1>2 DEF Acquire
  <2> QED  BY <2>2, <2>3, FewWatch, LostAssumption DEF Counted
<1>3. CASE StreamRaises(v) \/ Release(v)
  <2>1. Watching' = Watching \ {v} /\ v \in Watching
    BY <1>3 DEF StreamRaises, Release, Words, Watching
  <2>2. Cardinality(Watching') = Cardinality(Watching) - 1 /\ Cardinality(Watching) > 0
    BY <2>1, FewWatch, FS_RemoveElement, FS_EmptySet
  <2>3. CASE StreamRaises(v)
    <3>1. clients' = clients /\ lost' = lost + 1 /\ lost < Lost
      BY <2>3 DEF StreamRaises
    <3> QED  BY <2>2, <3>1, FewWatch, LostAssumption DEF Counted
  <2>4. CASE Release(v)
    <3>1. clients' = (IF clients = 0 THEN 0 ELSE clients - 1) /\ lost' = lost
      BY <2>4 DEF Release
    <3> QED  BY <2>2, <3>1, FewWatch, LostAssumption DEF Counted
  <2> QED  BY <1>3, <2>3, <2>4
<1> QED  BY <1>1, <1>2, <1>3

IInv == Words /\ Locked /\ OneThread /\ Counted

(* Nothing captures and nobody watches at the start (CameraPreview.__init__). *)
LEMMA InitIInv == Init => IInv
<1> SUFFICES ASSUME Init PROVE IInv
  OBVIOUS
<1>1. Words /\ Locked /\ OneThread
  BY DEF Init, Words, Locked, OneThread
<1>2. Watching = {}
  BY DEF Init, Watching
<1>3. clients = 0 /\ lost = 0
  BY DEF Init
<1>4. Counted
  BY <1>2, <1>3, FS_EmptySet, LostAssumption DEF Counted
<1> QED  BY <1>1, <1>4 DEF IInv

(* Every step keeps the lock, the one thread and the count. *)
LEMMA NextIInv == IInv /\ [Next]_vars => IInv'
<1> SUFFICES ASSUME IInv, [Next]_vars PROVE IInv'
  OBVIOUS
<1>1. CASE Machine
  <2>1. Words' /\ Locked' /\ OneThread' /\ UNCHANGED <<viewer, clients, lost>>
    BY <1>1, MachineSteps DEF IInv
  <2>2. Watching' = Watching
    BY <2>1 DEF Watching
  <2> QED  BY <2>1, <2>2 DEF IInv, Counted
<1>2. CASE Streams
  BY <1>2, StreamSteps, CountSteps DEF IInv, Streams
<1>3. CASE UNCHANGED vars
  BY <1>3 DEF vars, IInv, Words, Locked, OneThread, Counted, Watching
<1> QED  BY <1>1, <1>2, <1>3, StepsOf

(* ... and so they hold while the console runs. *)
LEMMA SpecIInv == Spec => []IInv
BY InitIInv, NextIInv, PTL DEF Spec

(* The lock of the camera is the preview's exactly while its thread has it, *)
(* and the count is that of the streams and of those that broke.            *)
THEOREM TypeCorrect == Spec => []TypeOK
<1>1. IInv => TypeOK
  BY SameType DEF IInv
<1> QED  BY <1>1, SpecIInv, PTL

(* Nobody's leaving stops the picture of one who watches. *)
THEOREM WatchersStay == Spec => OthersKeepWatching
<1>1. IInv /\ IInv' /\ [Next]_vars => [~halt /\ halt' /\ stopper' = stopper => Watching' = {}]_vars
  <2> SUFFICES ASSUME IInv, IInv', Next, ~halt, halt', stopper' = stopper PROVE Watching' = {}
    OBVIOUS
  <2>1. CASE Machine
    BY <2>1 DEF Machine, TakeLock, Profile, Open, Frame, Halted, Reopened, Unplugged, Cleared, GiveBack, Configure,
                StopWorker, StopReturns, StopTimesOut, ModeStarts, ModeEnds
  <2>2. CASE Streams
    <3>1. PICK v \in Viewer : Release(v)
      BY <2>2 DEF Streams, Ask, Acquire, StreamEnds, ViewerGoes, StreamRaises
    <3>2. clients' = 0
      BY <3>1 DEF Release
    <3>3. IsFiniteSet(Watching') /\ Cardinality(Watching') \in Nat
      BY ViewerAssumption, FS_Subset, FS_CardinalityType DEF Watching
    <3>4. Cardinality(Watching') = 0
      BY <3>2, <3>3, LostAssumption DEF IInv, Counted
    <3> QED  BY <3>3, <3>4, FS_EmptySet
  <2> QED  BY <2>1, <2>2, StepsOf
<1> QED  BY <1>1, SpecIInv, PTL DEF Spec, OthersKeepWatching

----------------------------------------------------------------------------
(* The rig: the lenses and places of the cameras, which the hub of the      *)
(* console and the calibration job both write (Perception).                 *)
RigBounds == Views \in Nat /\ Poses \in Nat /\ Lenses \in Nat \ {0} /\ Calibrations \in Nat

(* What Perception assumes of its bounds. *)
LEMMA BoundsOfRig == RigBounds
BY ViewsAssumption, PosesAssumption, BoundsAssumption DEF RigBounds

(* The hub's own state, and the disk's: with the job they are RigTypes. *)
HubTypes ==
  /\ rig \in Rig /\ known \in BOOLEAN /\ collect \in Role \cup {"none"}
  /\ detect \in Role \cup {"none"} /\ views \in [Role -> 0..Views]
  /\ solving \in Role \cup {"none"} /\ stuck \in BOOLEAN
  /\ op \in [by : {"nobody", "solve", "discard", "reload", "answer"},
             at : {"free", "open", "fill", "replace", "stat"}]
  /\ handle \in {"none", "live", "dead"} /\ asking \in {"no", "wait", "reload"}
  /\ made \in Lens /\ started \in 0..Calibrations /\ gone \in [Role -> SUBSET Lens]

DiskTypes ==
  /\ file \in Rig /\ tmp \subseteq Rig /\ (\A t, u \in tmp : t = u)
  /\ dest \in [Writer -> {"none", "tmp", "file", "gone"}] /\ crossed \in BOOLEAN

Jobs == [pc : {"off", "boot", "move", "capture", "solve", "open", "fill", "replace", "return"},
         rig : Rig, samples : [Role -> 0..Poses], pose : 0..Poses, stop : BOOLEAN]

(* The three parts are RigTypes (hub.py, store.py, calibrating.py). *)
LEMMA SameRigTypes == RigTypes <=> HubTypes /\ DiskTypes /\ child \in Jobs
BY DEF RigTypes, HubTypes, DiskTypes, Jobs

(* A camera is seen at most once in a pose (calibrating.py). *)
Sampled ==
  /\ \A r \in Role : child.samples[r] <= child.pose
  /\ child.pc = "capture" => child.pose < Poses

(* The job works with a rig in which no lens is missing (calibrating.main). *)
ReadWhole == child.pc \notin {"off", "boot", "return"} => Complete(child.rig)

(* Every rig somebody has, or may yet find in a file *)
Rigs == {rig, file, child.rig, NoRig} \cup tmp

(* Every lens anybody knows of was solved before (PerceptionHub._solve). *)
Solved == \A x \in Rigs, c \in Role : x.lens[c] <= made

(* As long as no two saves met, rig.tmp is the file of the one who saves (store.save). *)
Alone ==
  ~crossed =>
    /\ ~(op.at \in {"fill", "replace"} /\ child.pc \in {"fill", "replace"})
    /\ op.at = "fill" => dest["hub"] = "tmp" /\ tmp = {NoRig}
    /\ child.pc = "fill" => dest["job"] = "tmp" /\ tmp = {NoRig}
    /\ op.at = "replace" => tmp = {rig}
    /\ child.pc = "replace" => tmp = {child.rig}

(* Where a has no lens of the camera, b has none or one that was discarded. *)
Yields(a, b, c) == a.lens[c] = 0 => b.lens[c] = 0 \/ b.lens[c] \in gone[c]

(* What may be written over the file has lost no lens but a discarded one (store.save). *)
Kept(c) == ~crossed => Yields(rig, file, c) /\ Yields(rig, child.rig, c) /\ Yields(file, child.rig, c)

RigInv == RigTypes /\ Sampled /\ ReadWhole /\ Solved /\ NoMixedRig /\ Alone /\ \A c \in Role : Kept(c)

(* The steps of the hub that touch no file, those of its save, of the job's, and the others of the job. *)
Requests ==
  \/ Stat \/ StopCollect \/ Detect \/ Collect \/ SolveFails \/ SolveEnds \/ Reload \/ Adopt \/ Answer
  \/ \E r \in Role : StartCollect(r) \/ Solve(r) \/ Discard(r)
HubSaves == Truncate \/ Write \/ Replace \/ SaveFails
JobSaves == SaveOpen \/ SaveWrite \/ SaveReplace
JobSteps ==
  \/ StopCalibration \/ Boot \/ Move \/ CapturePose \/ Fails \/ Places \/ Return \/ Killed
  \/ \E answered \in BOOLEAN : Start(answered)

(* These are all the steps. *)
LEMMA RigSteps == RigNext <=> Requests \/ HubSaves \/ JobSaves \/ JobSteps
BY DEF RigNext, Requests, HubSaves, JobSaves, JobSteps, Saving, Job

(* The job that is not there knows no lens and has seen nothing. *)
LEMMA NoChildIs ==
  ASSUME RigBounds
  PROVE  /\ NoChild \in Jobs /\ NoChild.pc = "off" /\ NoChild.pose = 0
         /\ \A r \in Role : NoChild.samples[r] = 0 /\ NoChild.rig.lens[r] = 0 /\ NoChild.rig.place[r] = 0
BY DEF NoChild, NoRig, Rig, Lens, Jobs, RigBounds

(* The job starts with nothing seen (PerceptionManager.start). *)
LEMMA StartEffect ==
  ASSUME RigBounds, NEW answered \in BOOLEAN, Start(answered)
  PROVE  /\ child' \in Jobs /\ child'.pc = "boot" /\ child'.pose = 0
         /\ child'.rig = NoChild.rig /\ child'.samples = NoChild.samples
BY NoChildIs DEF Start, Jobs

(* main reads the rig whole or ends (calibrating.main). *)
LEMMA BootEffect ==
  ASSUME RigBounds, child \in Jobs, file \in Rig, Boot
  PROVE  \/ child' = NoChild
         \/ /\ child' \in Jobs /\ child'.rig = file /\ child'.pc = "move"
            /\ child'.samples = child.samples /\ child'.pose = child.pose
            /\ Complete(file)
BY DEF Boot, Goes, Ends, Jobs

(* A pose is captured if there is one more and no stop (calibrating.main). *)
LEMMA MoveEffect ==
  ASSUME RigBounds, child \in Jobs, Move
  PROVE  /\ child' \in Jobs /\ child'.rig = child.rig
         /\ child'.samples = child.samples /\ child'.pose = child.pose
         /\ child'.pc = "capture" => child.pose < Poses
<1>1. CASE child' = [child EXCEPT !.pc = "solve"]
  BY <1>1 DEF Jobs
<1>2. CASE child' = [child EXCEPT !.pc = "capture"] /\ child.pose # Poses
  BY <1>2 DEF Jobs, RigBounds
<1> QED BY <1>1, <1>2 DEF Move, Goes

(* Each camera that sees the board has one sample more (calibrating.main). *)
LEMMA CaptureEffect ==
  ASSUME RigBounds, child \in Jobs, Sampled, CapturePose
  PROVE  /\ child' \in Jobs /\ child'.rig = child.rig /\ child'.pc = "move"
         /\ child'.pose = child.pose + 1
         /\ \A r \in Role : child'.samples[r] <= child'.pose
<1>1. PICK seen \in SUBSET Role :
          child' = [child EXCEPT !.pc = "move", !.pose = @ + 1,
                             !.samples = [r \in Role |-> IF r \in seen THEN @[r] + 1 ELSE @[r]]]
  BY DEF CapturePose, Goes
<1> DEFINE more == [r \in Role |-> IF r \in seen THEN child.samples[r] + 1 ELSE child.samples[r]]
<1>2. child' = [pc |-> "move", rig |-> child.rig, samples |-> more, pose |-> child.pose + 1, stop |-> child.stop]
  BY <1>1, Zenon DEF Jobs
<1>3. child.pose + 1 \in 0..Poses
  BY DEF CapturePose, Sampled, Jobs, RigBounds
<1>4. \A r \in Role : more[r] \in 0..Poses /\ more[r] <= child.pose + 1
  BY <1>3 DEF Sampled, Jobs, RigBounds
<1> HIDE DEF more
<1>5. more \in [Role -> 0..Poses]
  BY <1>4 DEF more
<1> QED BY <1>2, <1>3, <1>4, <1>5 DEF Jobs

(* Another place leaves the lens of every camera (store.Rig). *)
LEMMA OtherPlace ==
  ASSUME NEW x \in Rig, NEW P \in [Role -> Lens]
  PROVE  [x EXCEPT !.place = P] = [lens |-> x.lens, place |-> P]
BY DEF Rig

(* On the way back the job has neither a rig nor samples (calibrating.main). *)
LEMMA BackEffect ==
  ASSUME RigBounds, child \in Jobs, GoesBack
  PROVE  /\ child' \in Jobs /\ child'.pc = "return" /\ child'.pose = 0
         /\ child'.rig = NoRig /\ child'.samples = NoChild.samples
<1>1. NoChild \in Jobs /\ NoChild.pose = 0 /\ NoChild.rig = NoRig
  BY NoChildIs DEF NoChild
<1>2. child' = [NoChild EXCEPT !.pc = "return", !.stop = child.stop]
  BY DEF GoesBack
<1> QED BY <1>1, <1>2 DEF Jobs

(* The places go with the lenses the job has read (calibrating.main). *)
LEMMA PlacesEffect ==
  ASSUME RigBounds, child \in Jobs, Places
  PROVE  \/ GoesBack
         \/ /\ child' \in Jobs /\ child'.rig.lens = child.rig.lens /\ child'.pc = "open"
            /\ child'.samples = NoChild.samples /\ child'.pose = 0
            /\ \A r \in Role : child'.rig.place[r] \in {child.rig.lens[r], child.rig.place[r]}
<1> SUFFICES ASSUME ~GoesBack
             PROVE  /\ child' \in Jobs /\ child'.rig.lens = child.rig.lens /\ child'.pc = "open"
                    /\ child'.samples = NoChild.samples /\ child'.pose = 0
                    /\ \A r \in Role : child'.rig.place[r] \in {child.rig.lens[r], child.rig.place[r]}
  OBVIOUS
<1>1. PICK fits \in SUBSET Role :
          LET solved == [child.rig EXCEPT !.place =
                            [r \in Role |-> IF r \in fits THEN child.rig.lens[r] ELSE @[r]]]
          IN child' = [NoChild EXCEPT !.rig = solved, !.pc = "open", !.stop = child.stop]
  BY Zenon DEF Places, Goes
<1> DEFINE places == [r \in Role |-> IF r \in fits THEN child.rig.lens[r] ELSE child.rig.place[r]]
           solved == [lens |-> child.rig.lens, place |-> places]
<1>2. [child.rig EXCEPT !.place = [r \in Role |-> IF r \in fits THEN child.rig.lens[r] ELSE @[r]]] = solved
  <2>1. child.rig \in Rig /\ places \in [Role -> Lens]
    BY DEF Jobs, Rig
  <2> HIDE DEF places
  <2>2. [child.rig EXCEPT !.place = places] = [lens |-> child.rig.lens, place |-> places]
    BY <2>1, OtherPlace
  <2> QED BY <2>2, Zenon DEF places
<1>3. child' = [NoChild EXCEPT !.rig = solved, !.pc = "open", !.stop = child.stop]
  BY <1>1, <1>2, Zenon
<1>4. solved \in Rig
  BY DEF Jobs, Rig
<1>5. solved.lens = child.rig.lens /\ \A r \in Role : solved.place[r] \in {child.rig.lens[r], child.rig.place[r]}
  OBVIOUS
<1> HIDE DEF solved
<1>6. NoChild \in Jobs /\ NoChild.pose = 0
  BY NoChildIs
<1> QED BY <1>3, <1>4, <1>5, <1>6 DEF Jobs

(* What a step that writes no file does to the job: its rig is the one it had, the file's or     *)
(* none, or has the lenses it had with places found through them (calibrating.main).             *)
Carried ==
  /\ child' \in Jobs /\ Sampled' /\ ReadWhole'
  /\ \/ child'.rig \in {child.rig, file, NoRig}
     \/ /\ child'.rig.lens = child.rig.lens
        /\ \A r \in Role : child'.rig.place[r] \in {child.rig.lens[r], child.rig.place[r]}
  /\ child'.pc \in {"fill", "replace"} => child'.pc = child.pc /\ child'.rig = child.rig

(* Each of the job's steps but those of its save does so. *)
LEMMA JobCarries ==
  ASSUME RigBounds, RigTypes, Sampled, ReadWhole, JobSteps
  PROVE  Carried
<1>0. child \in Jobs /\ file \in Rig
  BY SameRigTypes DEF DiskTypes
<1>1. ASSUME child' = NoChild PROVE Carried
  BY <1>1, NoChildIs DEF Carried, Sampled, ReadWhole, NoChild
<1>2. ASSUME GoesBack PROVE Carried
  BY <1>0, <1>2, BackEffect, NoChildIs DEF Carried, Sampled, ReadWhole
<1>3. ASSUME NEW answered \in BOOLEAN, Start(answered) PROVE Carried
  BY <1>3, StartEffect, NoChildIs DEF Carried, Sampled, ReadWhole, NoChild
<1>4. ASSUME StopCalibration PROVE Carried
  <2>1. child' \in {child, [child EXCEPT !.stop = TRUE]}
    BY <1>4 DEF StopCalibration
  <2>2. /\ child' \in Jobs /\ child'.pc = child.pc /\ child'.rig = child.rig
        /\ child'.samples = child.samples /\ child'.pose = child.pose
    BY <1>0, <2>1 DEF Jobs
  <2> QED BY <2>2 DEF Carried, Sampled, ReadWhole
<1>5. ASSUME Boot PROVE Carried
  BY <1>0, <1>1, <1>5, BootEffect DEF Carried, Sampled, ReadWhole
<1>6. ASSUME Move PROVE Carried
  <2>1. child.pc = "move" /\ child'.pc \in {"solve", "capture"}
    BY <1>0, <1>6 DEF Move, Goes, Jobs
  <2> QED BY <1>0, <1>6, <2>1, MoveEffect DEF Carried, Sampled, ReadWhole
<1>7. ASSUME CapturePose PROVE Carried
  <2>1. child.pc = "capture"
    BY <1>7 DEF CapturePose
  <2> QED BY <1>0, <1>7, <2>1, CaptureEffect DEF Carried, Sampled, ReadWhole
<1>8. ASSUME Fails PROVE Carried
  BY <1>2, <1>8 DEF Fails
<1>9. ASSUME Places PROVE Carried
  <2>1. child.pc = "solve"
    BY <1>9 DEF Places
  <2> QED BY <1>0, <1>2, <1>9, <2>1, PlacesEffect, NoChildIs DEF Carried, Sampled, ReadWhole, Complete
<1>10. ASSUME Return PROVE Carried
  BY <1>1, <1>10 DEF Return, Ends
<1>11. ASSUME Killed PROVE Carried
  BY <1>1, <1>11 DEF Killed, Ends
<1> QED BY <1>3, <1>4, <1>5, <1>6, <1>7, <1>8, <1>9, <1>10, <1>11 DEF JobSteps

(* ... and leaves the files and what the hub has in memory (calibrating.py). *)
LEMMA JobAround ==
  ASSUME RigBounds, HubTypes, DiskTypes, JobSteps
  PROVE  HubTypes' /\ DiskTypes' /\ UNCHANGED <<rig, op, made, gone, file, tmp, crossed>>
         /\ (child.pc \in {"fill", "replace"} /\ child'.pc = child.pc => UNCHANGED dest)
         /\ dest'["hub"] = dest["hub"]
<1> USE DEF RigBounds, HubTypes, DiskTypes, hub, job, disk
<1>1. ASSUME NEW answered \in BOOLEAN, Start(answered)
      PROVE  HubTypes' /\ UNCHANGED <<rig, op, made, gone, disk>>
  BY <1>1 DEF Start
<1>2. ASSUME StopCalibration
      PROVE  HubTypes' /\ UNCHANGED <<rig, op, made, gone, disk>>
  BY <1>2 DEF StopCalibration
<1>3. ASSUME Ends
      PROVE  HubTypes' /\ UNCHANGED <<rig, op, made, gone>>
  BY <1>3 DEF Ends
<1>4. ASSUME Boot \/ Move \/ CapturePose \/ Places
      PROVE  HubTypes' /\ UNCHANGED <<rig, op, made, gone, disk>>
  <2>1. Ends \/ UNCHANGED <<hub, handle, asking, started>>
    BY <1>4 DEF Boot, Move, CapturePose, Places, Goes, GoesBack
  <2>2. UNCHANGED disk
    BY <1>4 DEF Boot, Move, CapturePose, Places
  <2> QED BY <1>3, <2>1, <2>2
<1>5. ASSUME Return
      PROVE  HubTypes' /\ UNCHANGED <<rig, op, made, gone, disk>>
  BY <1>3, <1>5 DEF Return
<1>6. ASSUME LetsGo
      PROVE  DiskTypes' /\ UNCHANGED <<file, tmp, crossed>> /\ dest'["hub"] = dest["hub"]
  BY <1>6 DEF LetsGo, Writer
<1>7. ASSUME Killed \/ Fails
      PROVE  HubTypes' /\ UNCHANGED <<rig, op, made, gone>> /\ LetsGo /\ child'.pc \in {"off", "return"}
  <2>1. LetsGo /\ (Ends \/ UNCHANGED <<hub, handle, asking, started>>)
    BY <1>7 DEF Killed, Fails, GoesBack
  <2>2. child'.pc \in {"off", "return"}
    <3>1. NoChild.pc = "off" /\ [NoChild EXCEPT !.pc = "return", !.stop = child.stop].pc = "return"
      BY DEF NoChild
    <3> QED BY <1>7, <3>1 DEF Killed, Fails, GoesBack, Ends
  <2>3. HubTypes' /\ UNCHANGED <<rig, op, made, gone>>
    BY <1>3, <2>1
  <2> QED BY <2>1, <2>2, <2>3
<1> QED BY <1>1, <1>2, <1>4, <1>5, <1>6, <1>7 DEF JobSteps

(* A request changes the rig of the hub when nobody saves: to the file's, or one lens *)
(* of it, solved now or discarded (PerceptionHub._solve, discard, reload).            *)
Asked ==
  \/ rig' \in {rig, file} /\ UNCHANGED <<made, gone>>
  \/ \E r \in Role : made < Lenses /\ made' = made + 1 /\ rig' = WithLens(r, made') /\ UNCHANGED gone
  \/ \E r \in Role : UNCHANGED made /\ rig' = WithLens(r, 0) /\ gone' = [gone EXCEPT ![r] = 1..made]

(* ... and no file, nor the job. *)
LEMMA RequestEffect ==
  ASSUME RigBounds, HubTypes, file \in Rig, Requests
  PROVE  /\ HubTypes' /\ Asked /\ UNCHANGED <<disk, child>>
         /\ op'.at \in {"fill", "replace"} => UNCHANGED <<op, rig>>
<1> DEFINE Effect == /\ HubTypes' /\ Asked /\ UNCHANGED <<disk, child>>
                     /\ op'.at \in {"fill", "replace"} => UNCHANGED <<op, rig>>
<1> USE DEF RigBounds, hub, job
<1>1. CASE Stat
  BY <1>1 DEF Stat, Free, HubTypes, Asked
<1>2. CASE StopCollect
  BY <1>2 DEF StopCollect, HubTypes, Asked
<1>3. CASE Detect
  BY <1>3 DEF Detect, HubTypes, Asked
<1>4. CASE Collect
  <2>1. views' \in [Role -> 0..Views]
    BY <1>4 DEF Collect, HubTypes
  <2>2. detect' = "none" /\ UNCHANGED <<rig, known, collect, solving, stuck, op, made, gone, disk, job>>
    BY <1>4 DEF Collect
  <2> QED BY <2>1, <2>2 DEF HubTypes, Asked
<1>5. CASE SolveFails
  BY <1>5 DEF SolveFails, HubTypes, Asked
<1>6. CASE SolveEnds
  <2>1. /\ made < Lenses /\ made' = made + 1 /\ solving \in Role /\ rig' = WithLens(solving, made')
        /\ op' = [by |-> "solve", at |-> "open"]
        /\ UNCHANGED <<known, collect, detect, views, solving, stuck, gone, disk, job>>
    BY <1>6 DEF SolveEnds, HubTypes
  <2>2. made' \in Lens /\ 0 \in Lens
    BY <2>1 DEF HubTypes, Lens
  <2>3. rig' \in Rig
    BY <2>1, <2>2 DEF WithLens, Rig, HubTypes
  <2> QED BY <2>1, <2>2, <2>3 DEF HubTypes, Asked
<1>7. CASE Reload
  BY <1>7 DEF Reload, HubTypes, Asked
<1>8. CASE Adopt
  BY <1>8 DEF Adopt, HubTypes, Asked
<1>9. CASE Answer
  BY <1>9 DEF Answer, HubTypes, Asked
<1>10. ASSUME NEW r \in Role, StartCollect(r) PROVE Effect
  BY <1>10 DEF StartCollect, HubTypes, Asked
<1>11. ASSUME NEW r \in Role, Solve(r) PROVE Effect
  BY <1>11 DEF Solve, HubTypes, Asked
<1>12. ASSUME NEW r \in Role, Discard(r) PROVE Effect
  <2>1. /\ rig' = WithLens(r, 0) /\ gone' = [gone EXCEPT ![r] = 1..made] /\ views' = [views EXCEPT ![r] = 0]
        /\ op' = [by |-> "discard", at |-> "open"]
        /\ UNCHANGED <<known, collect, detect, solving, stuck, made, disk, job>>
    BY <1>12 DEF Discard
  <2>2. 0 \in Lens /\ 0 \in 0..Views /\ 1..made \subseteq Lens
    BY DEF HubTypes, Lens
  <2>3. rig' \in Rig
    BY <2>1, <2>2 DEF WithLens, Rig, HubTypes
  <2>4. gone' \in [Role -> SUBSET Lens] /\ views' \in [Role -> 0..Views]
    BY <2>1, <2>2 DEF HubTypes
  <2> QED BY <2>1, <2>3, <2>4 DEF HubTypes, Asked
<1> QED BY <1>1, <1>2, <1>3, <1>4, <1>5, <1>6, <1>7, <1>8, <1>9, <1>10, <1>11, <1>12 DEF Requests

----------------------------------------------------------------------------
(* store.save on the disk, in either process. *)

(* A rig without anything is a rig (store.Rig). *)
LEMMA NoRigIs == RigBounds => NoRig \in Rig
BY DEF RigBounds, NoRig, Rig, Lens

(* Opening leaves rig.tmp there and empty (store.save). *)
LEMMA OpensEffect ==
  ASSUME RigBounds, DiskTypes, NEW w \in Writer, NEW begun, Opens(w, begun)
  PROVE  DiskTypes' /\ tmp' = {NoRig} /\ UNCHANGED <<file, known>>
BY NoRigIs DEF Opens, DiskTypes

(* What is written is a rig or no JSON; a file that is its own and empty takes it whole (store.save). *)
LEMMA FillsEffect ==
  ASSUME RigBounds, DiskTypes, known \in BOOLEAN, NEW w \in Writer, NEW r \in Rig, Fills(w, r)
  PROVE  /\ DiskTypes' /\ known' \in BOOLEAN
         /\ file' \in {file, r, NoRig} /\ (\A t \in tmp' : t \in tmp \cup {r, NoRig})
         /\ dest[w] = "tmp" /\ tmp = {NoRig} => file' = file /\ tmp' = {r}
         /\ dest' = [dest EXCEPT ![w] = "none"] /\ crossed' = crossed
<1>1. /\ dest' = [dest EXCEPT ![w] = "none"] /\ crossed' = crossed
      /\ dest' \in [Writer -> {"none", "tmp", "file", "gone"}] /\ crossed' \in BOOLEAN
  BY DEF Fills, DiskTypes
<1>2. \A old \in Rig : Laid(old, r) \subseteq {r, NoRig}
  BY DEF Laid
<1>3. CASE dest[w] = "tmp"
  <2>1. UNCHANGED <<file, known>>
    BY <1>3 DEF Fills
  <2>2. PICK t \in tmp : \E x \in Laid(t, r) : tmp' = {x}
    BY <1>3 DEF Fills
  <2>3. PICK x \in Laid(t, r) : tmp' = {x}
    BY <2>2
  <2>4. tmp = {NoRig} => x = r
    BY <2>2, <2>3 DEF Laid
  <2>5. x \in {r, NoRig} /\ x \in Rig
    BY <1>2, <2>3, NoRigIs DEF DiskTypes
  <2> QED BY <1>1, <2>1, <2>3, <2>4, <2>5 DEF DiskTypes
<1>4. CASE dest[w] = "file"
  <2>1. file' \in Laid(file, r) /\ known' = FALSE /\ UNCHANGED tmp
    BY <1>4 DEF Fills
  <2>2. file' \in {r, NoRig} /\ file' \in Rig
    BY <1>2, <2>1, NoRigIs DEF DiskTypes
  <2> QED BY <1>1, <1>4, <2>1, <2>2 DEF DiskTypes
<1>5. CASE dest[w] \notin {"tmp", "file"}
  BY <1>1, <1>5 DEF Fills, DiskTypes
<1> QED BY <1>3, <1>4, <1>5

(* The name rig.json goes to what rig.tmp was (store.save). *)
LEMMA RenamesEffect ==
  ASSUME RigBounds, DiskTypes, Renames
  PROVE  DiskTypes' /\ file' \in tmp /\ tmp' = {} /\ known' = FALSE /\ crossed' = crossed
BY DEF Renames, DiskTypes, Writer

(* A step of the hub's save goes on to the next one (store.save). *)
LEMMA SaveGoesOn ==
  ASSUME HubTypes, NEW at \in {"fill", "replace", "stat"}, SaveGoes(at), known' \in BOOLEAN
  PROVE  HubTypes' /\ UNCHANGED <<rig, made, gone, child>> /\ op'.at = at
BY DEF SaveGoes, HubTypes, job

(* The hub's save (PerceptionHub, store.save). *)
LEMMA HubSaveEffect ==
  ASSUME RigBounds, HubTypes, DiskTypes, HubSaves
  PROVE  HubTypes' /\ DiskTypes' /\ UNCHANGED <<rig, made, gone, child>>
<1>2. CASE Truncate
  <2>1. DiskTypes' /\ known' = known
    BY <1>2, OpensEffect DEF Truncate, Writer
  <2> QED BY <1>2, <2>1, SaveGoesOn DEF Truncate, HubTypes
<1>3. CASE Write
  <2>1. DiskTypes' /\ known' \in BOOLEAN
    BY <1>3, FillsEffect DEF Write, Writer, HubTypes
  <2> QED BY <1>3, <2>1, SaveGoesOn DEF Write
<1>4. CASE Replace
  <2>1. DiskTypes' /\ known' \in BOOLEAN
    BY <1>4, RenamesEffect DEF Replace
  <2> QED BY <1>4, <2>1, SaveGoesOn DEF Replace
<1>5. CASE SaveFails
  <2>1. DiskTypes'
    BY <1>5 DEF SaveFails, DiskTypes, Writer
  <2>2. HubTypes' /\ UNCHANGED <<rig, made, gone, child>>
    BY <1>5 DEF SaveFails, HubTypes, Free, job
  <2> QED BY <2>1, <2>2
<1> QED BY <1>2, <1>3, <1>4, <1>5 DEF HubSaves

(* The job's save (calibrating.main, store.save). *)
LEMMA JobSaveEffect ==
  ASSUME RigBounds, HubTypes, DiskTypes, child \in Jobs, JobSaves
  PROVE  HubTypes' /\ DiskTypes' /\ child' \in Jobs /\ UNCHANGED <<rig, op, made, gone>>
         /\ (SaveOpen => child.pc = "open" /\ child'.pc = "fill" /\ child'.rig = child.rig)
         /\ (SaveWrite => child.pc = "fill" /\ child'.pc = "replace" /\ child'.rig = child.rig)
         /\ (SaveReplace => child.pc = "replace" /\ child'.pc = "return" /\ child'.rig = NoRig)
         /\ ((child'.samples = child.samples /\ child'.pose = child.pose) \/ GoesBack)
<1> USE DEF hub, job
<1>1. ASSUME NEW pc \in {"fill", "replace"}, SavingGoes(pc), known' \in BOOLEAN
      PROVE  HubTypes' /\ UNCHANGED <<rig, op, made, gone>> /\ child' \in Jobs
             /\ child'.pc = pc /\ child'.rig = child.rig
             /\ child'.samples = child.samples /\ child'.pose = child.pose
  <2>1. HubTypes' /\ UNCHANGED <<rig, op, made, gone>>
    BY <1>1 DEF SavingGoes, HubTypes
  <2> QED BY <1>1, <2>1 DEF SavingGoes, Jobs
<1>2. CASE SaveOpen
  <2>1. DiskTypes' /\ known' = known
    BY <1>2, OpensEffect DEF SaveOpen, Writer
  <2>2. SavingGoes("fill") /\ child.pc = "open"
    BY <1>2 DEF SaveOpen
  <2> QED BY <1>1, <2>1, <2>2 DEF SaveWrite, SaveReplace, HubTypes
<1>3. CASE SaveWrite
  <2>1. DiskTypes' /\ known' \in BOOLEAN
    BY <1>3, FillsEffect DEF SaveWrite, Writer, HubTypes, Jobs
  <2>2. SavingGoes("replace") /\ child.pc = "fill"
    BY <1>3 DEF SaveWrite
  <2> QED BY <1>1, <2>1, <2>2 DEF SaveOpen, SaveReplace
<1>4. CASE SaveReplace
  <2>1. DiskTypes' /\ known' = FALSE
    BY <1>4, RenamesEffect DEF SaveReplace
  <2>2. GoesBack /\ child.pc = "replace" /\ UNCHANGED <<rig, collect, detect, views, solving, stuck, op, made, gone>>
    BY <1>4 DEF SaveReplace
  <2>3. HubTypes'
    BY <2>1, <2>2 DEF HubTypes, GoesBack
  <2> QED BY <2>1, <2>2, <2>3, BackEffect DEF SaveOpen, SaveWrite
<1> QED BY <1>2, <1>3, <1>4 DEF JobSaves

----------------------------------------------------------------------------
(* The invariant of the rig, part by part. *)

(* Every step keeps the hub, the files and the job in their sets (hub.py, store.py, calibrating.py). *)
LEMMA RigTyped ==
  ASSUME RigBounds, RigTypes, Sampled, ReadWhole, RigNext \/ UNCHANGED rigVars
  PROVE  RigTypes'
<1>0. HubTypes /\ DiskTypes /\ child \in Jobs /\ file \in Rig
  BY SameRigTypes DEF DiskTypes
<1>1. (RigTypes <=> HubTypes /\ DiskTypes /\ child \in Jobs)'
  BY SameRigTypes, PTL
<1>2. CASE Requests
  <2>1. HubTypes' /\ UNCHANGED <<disk, child>>
    BY <1>0, <1>2, RequestEffect
  <2> QED BY <1>0, <1>1, <2>1 DEF DiskTypes, disk
<1>3. CASE HubSaves
  BY <1>0, <1>1, <1>3, HubSaveEffect
<1>4. CASE JobSaves
  BY <1>0, <1>1, <1>4, JobSaveEffect
<1>5. CASE JobSteps
  <2>1. child' \in Jobs
    BY <1>5, JobCarries DEF Carried
  <2> QED BY <1>0, <1>1, <1>5, <2>1, JobAround
<1>6. CASE UNCHANGED rigVars
  BY <1>0, <1>1, <1>6 DEF rigVars, hub, job, disk, HubTypes, DiskTypes
<1> QED BY <1>2, <1>3, <1>4, <1>5, <1>6, RigSteps

(* A pose is looked at once, and the job goes on from its start only with every lens (calibrating.main). *)
LEMMA JobKept ==
  ASSUME RigBounds, RigTypes, Sampled, ReadWhole, RigNext \/ UNCHANGED rigVars
  PROVE  Sampled' /\ ReadWhole'
<1>0. HubTypes /\ DiskTypes /\ child \in Jobs /\ file \in Rig
  BY SameRigTypes DEF DiskTypes
<1>1. CASE UNCHANGED child
  BY <1>1 DEF Sampled, ReadWhole
<1>2. CASE Requests \/ HubSaves
  BY <1>0, <1>1, <1>2, RequestEffect, HubSaveEffect
<1>3. CASE JobSaves
  <2>1. CASE SaveReplace
    <3>1. GoesBack
      BY <2>1 DEF SaveReplace
    <3> QED BY <1>0, <3>1, BackEffect, NoChildIs DEF Sampled, ReadWhole
  <2>2. CASE SaveOpen \/ SaveWrite
    <3>1. child'.pc \in {"fill", "replace"} /\ child.pc \in {"open", "fill"} /\ child'.rig = child.rig
      BY <1>0, <1>3, <2>2, JobSaveEffect
    <3>2. child'.samples = child.samples /\ child'.pose = child.pose
      BY <1>0, <2>2 DEF SaveOpen, SaveWrite, SavingGoes, Jobs
    <3> QED BY <3>1, <3>2 DEF Sampled, ReadWhole
  <2> QED BY <1>3, <2>1, <2>2 DEF JobSaves
<1>4. CASE JobSteps
  BY <1>4, JobCarries DEF Carried
<1>5. CASE UNCHANGED rigVars
  BY <1>1, <1>5 DEF rigVars, job
<1> QED BY <1>2, <1>3, <1>4, <1>5, RigSteps

(* A rig is one that was there before, or one with another lens, or one with the places of a *)
(* calibration (PerceptionHub._solve, discard, calibrating.main, store.save).                *)
LEMMA Sources ==
  ASSUME RigBounds, RigTypes, Sampled, ReadWhole, RigNext \/ UNCHANGED rigVars, NEW x \in Rigs'
  PROVE  \/ x \in Rigs /\ made' \in {made, made + 1}
         \/ \E r \in Role : x = WithLens(r, made') /\ made' = made + 1
         \/ \E r \in Role : x = WithLens(r, 0) /\ made' = made
         \/ /\ x.lens = child.rig.lens /\ made' = made
            /\ \A r \in Role : x.place[r] \in {child.rig.lens[r], child.rig.place[r]}
<1>0. HubTypes /\ DiskTypes /\ child \in Jobs /\ file \in Rig /\ rig \in Rig /\ child.rig \in Rig
  BY SameRigTypes DEF DiskTypes, HubTypes, Jobs
<1>1. x = rig' \/ x = file' \/ x = child'.rig \/ x = NoRig \/ x \in tmp'
  BY DEF Rigs
<1>2. CASE Requests
  <2>1. Asked /\ UNCHANGED <<file, tmp, child>>
    BY <1>0, <1>2, RequestEffect DEF disk
  <2>2. x = rig' \/ x \in Rigs
    BY <1>1, <2>1 DEF Rigs
  <2>3. made' \in {made, made + 1}
    BY <2>1 DEF Asked
  <2> QED BY <2>1, <2>2, <2>3 DEF Asked, Rigs
<1>3. CASE HubSaves
  <2>1. UNCHANGED <<rig, made, child>>
    BY <1>0, <1>3, HubSaveEffect
  <2>2. file' \in Rigs /\ tmp' \subseteq Rigs
    <3>1. CASE Truncate
      BY <3>1 DEF Truncate, Opens, Rigs
    <3>2. CASE Write
      <4>1. file' \in {file, rig, NoRig} /\ (\A t \in tmp' : t \in tmp \cup {rig, NoRig})
        BY <1>0, <3>2, FillsEffect DEF Write, Writer, HubTypes
      <4> QED BY <4>1 DEF Rigs
    <3>3. CASE Replace
      BY <1>0, <3>3, RenamesEffect DEF Replace, Rigs
    <3>4. CASE SaveFails
      BY <3>4 DEF SaveFails, Rigs
    <3> QED BY <1>3, <3>1, <3>2, <3>3, <3>4 DEF HubSaves
  <2> QED BY <1>1, <2>1, <2>2 DEF Rigs
<1>4. CASE JobSaves
  <2>1. UNCHANGED <<rig, made>> /\ child'.rig \in {child.rig, NoRig}
    BY <1>0, <1>4, JobSaveEffect DEF JobSaves
  <2>2. file' \in Rigs /\ tmp' \subseteq Rigs
    <3>1. CASE SaveOpen
      BY <3>1 DEF SaveOpen, Opens, Rigs
    <3>2. CASE SaveWrite
      <4>1. file' \in {file, child.rig, NoRig} /\ (\A t \in tmp' : t \in tmp \cup {child.rig, NoRig})
        BY <1>0, <3>2, FillsEffect DEF SaveWrite, Writer, HubTypes
      <4> QED BY <4>1 DEF Rigs
    <3>3. CASE SaveReplace
      BY <1>0, <3>3, RenamesEffect DEF SaveReplace, Rigs
    <3> QED BY <1>4, <3>1, <3>2, <3>3 DEF JobSaves
  <2> QED BY <1>1, <2>1, <2>2 DEF Rigs
<1>5. CASE JobSteps
  <2>1. UNCHANGED <<rig, made, file, tmp>>
    BY <1>0, <1>5, JobAround
  <2>2. \/ child'.rig \in {child.rig, file, NoRig}
        \/ /\ child'.rig.lens = child.rig.lens
           /\ \A r \in Role : child'.rig.place[r] \in {child.rig.lens[r], child.rig.place[r]}
    BY <1>5, JobCarries DEF Carried
  <2> QED BY <1>1, <2>1, <2>2 DEF Rigs
<1>6. CASE UNCHANGED rigVars
  BY <1>1, <1>6 DEF rigVars, hub, job, disk, Rigs
<1> QED BY <1>2, <1>3, <1>4, <1>5, <1>6, RigSteps

(* A lens comes from _solve, or from a rig that was written (PerceptionHub._solve, store.load). *)
LEMMA SolvedKept ==
  ASSUME RigBounds, RigTypes, Sampled, ReadWhole, Solved, RigNext \/ UNCHANGED rigVars
  PROVE  Solved'
<1> SUFFICES ASSUME NEW x \in Rigs', NEW c \in Role PROVE x.lens[c] <= made'
  BY DEF Solved
<1>0. made \in Nat /\ rig \in Rig /\ rig \in Rigs /\ child.rig \in Rigs /\ \A y \in Rigs : y \in Rig
  BY NoRigIs, SameRigTypes DEF Rigs, HubTypes, DiskTypes, Jobs, Lens, RigBounds
<1>1. \A y \in Rigs : y.lens[c] \in Nat /\ y.lens[c] <= made
  BY <1>0 DEF Solved, Rig, Lens, RigBounds
<1>2. CASE x \in Rigs /\ made' \in {made, made + 1}
  BY <1>0, <1>1, <1>2
<1>3. ASSUME NEW r \in Role, x = WithLens(r, made'), made' = made + 1 PROVE x.lens[c] <= made'
  <2>1. x.lens[c] \in {rig.lens[c], made'}
    BY <1>0, <1>3 DEF WithLens, Rig
  <2> QED BY <1>0, <1>1, <1>3, <2>1
<1>4. ASSUME NEW r \in Role, x = WithLens(r, 0), made' = made PROVE x.lens[c] <= made'
  <2>1. x.lens[c] \in {rig.lens[c], 0}
    BY <1>0, <1>4 DEF WithLens, Rig
  <2> QED BY <1>0, <1>1, <1>4, <2>1
<1>5. CASE x.lens = child.rig.lens /\ made' = made
  BY <1>0, <1>1, <1>5
<1> QED BY <1>2, <1>3, <1>4, <1>5, Sources

(* A place is written with the lens it was found through, and goes with it (calibrating.main, *)
(* PerceptionHub._solve, discard).                                                            *)
LEMMA SoundKept ==
  ASSUME RigBounds, RigTypes, Sampled, ReadWhole, NoMixedRig, RigNext \/ UNCHANGED rigVars
  PROVE  NoMixedRig'
<1>0. rig \in Rig /\ child.rig \in Rig
  BY SameRigTypes DEF HubTypes, Jobs
<1>1. \A y \in Rigs : Sound(y)
  BY DEF NoMixedRig, Rigs, Sound, NoRig
<1>2. ASSUME NEW x \in Rigs' PROVE Sound(x)
  <2>1. ASSUME NEW r \in Role, NEW l, x = WithLens(r, l) PROVE Sound(x)
    BY <1>0, <1>1, <2>1 DEF WithLens, Rig, Sound, Rigs
  <2>2. CASE x.lens = child.rig.lens /\ \A r \in Role : x.place[r] \in {child.rig.lens[r], child.rig.place[r]}
    BY <1>1, <2>2 DEF Sound, Rigs
  <2> QED BY <1>1, <2>1, <2>2, Sources
<1> QED BY <1>2 DEF NoMixedRig, Rigs

(* A save that met no other wrote its own file, and finds there what it wrote (store.save). *)
LEMMA AloneKept ==
  ASSUME RigBounds, RigTypes, Sampled, ReadWhole, Alone, RigNext \/ UNCHANGED rigVars
  PROVE  Alone'
<1> SUFFICES ASSUME ~crossed' PROVE Alone'
  BY DEF Alone
<1>0. HubTypes /\ DiskTypes /\ child \in Jobs /\ file \in Rig /\ rig \in Rig /\ child.rig \in Rig
  BY SameRigTypes DEF DiskTypes, HubTypes, Jobs
<1>1. CASE Requests
  <2>1. UNCHANGED <<disk, child>> /\ (op'.at \in {"fill", "replace"} => UNCHANGED <<op, rig>>)
    BY <1>0, <1>1, RequestEffect
  <2> QED BY <2>1 DEF Alone, disk
<1>2. CASE JobSteps
  <2>1. /\ UNCHANGED <<rig, op, tmp, crossed>> /\ dest'["hub"] = dest["hub"]
        /\ (child.pc \in {"fill", "replace"} /\ child'.pc = child.pc => UNCHANGED dest)
    BY <1>0, <1>2, JobAround
  <2>2. child'.pc \in {"fill", "replace"} => child'.pc = child.pc /\ child'.rig = child.rig
    BY <1>2, JobCarries DEF Carried
  <2> QED BY <2>1, <2>2 DEF Alone
<1>3. CASE Truncate
  <2>1. UNCHANGED <<rig, child>> /\ op'.at = "fill"
    <3>1. SaveGoes("fill") /\ known' \in BOOLEAN
      BY <1>0, <1>3 DEF Truncate, Opens, HubTypes
    <3> QED BY <1>0, <3>1, SaveGoesOn
  <2>2. /\ tmp' = {NoRig} /\ dest' = [dest EXCEPT !["hub"] = "tmp"]
        /\ crossed' = (crossed \/ child.pc \in {"fill", "replace"})
    BY <1>3 DEF Truncate, Opens
  <2>3. dest'["hub"] = "tmp"
    BY <1>0, <2>2 DEF DiskTypes, Writer
  <2> QED BY <2>1, <2>2, <2>3 DEF Alone
<1>4. CASE Write
  <2>1. UNCHANGED <<rig, child>> /\ op.at = "fill" /\ op'.at = "replace"
    <3>1. SaveGoes("replace") /\ op.at = "fill" /\ Fills("hub", rig)
      BY <1>4 DEF Write
    <3>2. known' \in BOOLEAN
      BY <1>0, <3>1, FillsEffect DEF HubTypes, Writer
    <3> QED BY <1>0, <3>1, <3>2, SaveGoesOn
  <2>2. crossed' = crossed /\ (dest["hub"] = "tmp" /\ tmp = {NoRig} => tmp' = {rig})
    BY <1>0, <1>4, FillsEffect DEF Write, Writer, HubTypes
  <2> QED BY <2>1, <2>2 DEF Alone
<1>5. CASE Replace
  <2>1. UNCHANGED <<rig, child>> /\ op.at = "replace" /\ op'.at = "stat"
    <3>1. SaveGoes("stat") /\ op.at = "replace" /\ known' \in BOOLEAN
      BY <1>5 DEF Replace, Renames
    <3> QED BY <1>0, <3>1, SaveGoesOn
  <2>2. crossed' = crossed
    BY <1>5 DEF Replace, Renames
  <2> QED BY <2>1, <2>2 DEF Alone
<1>6. CASE SaveFails
  <2>1. UNCHANGED <<rig, child, tmp, crossed>> /\ op'.at = "free" /\ dest'["job"] = dest["job"]
    BY <1>0, <1>6 DEF SaveFails, Free, job, DiskTypes, Writer
  <2> QED BY <2>1 DEF Alone
<1>7. CASE SaveOpen
  <2>1. UNCHANGED <<rig, op>> /\ child'.pc = "fill"
    BY <1>0, <1>7, JobSaveEffect DEF JobSaves
  <2>2. /\ tmp' = {NoRig} /\ dest' = [dest EXCEPT !["job"] = "tmp"]
        /\ crossed' = (crossed \/ op.at \in {"fill", "replace"})
    BY <1>7 DEF SaveOpen, Opens
  <2>3. dest'["job"] = "tmp"
    BY <1>0, <2>2 DEF DiskTypes, Writer
  <2> QED BY <2>1, <2>2, <2>3 DEF Alone
<1>8. CASE SaveWrite
  <2>1. UNCHANGED <<rig, op>> /\ child.pc = "fill" /\ child'.pc = "replace" /\ child'.rig = child.rig
    BY <1>0, <1>8, JobSaveEffect DEF JobSaves
  <2>2. crossed' = crossed /\ (dest["job"] = "tmp" /\ tmp = {NoRig} => tmp' = {child.rig})
    BY <1>0, <1>8, FillsEffect DEF SaveWrite, Writer, HubTypes
  <2> QED BY <2>1, <2>2 DEF Alone
<1>9. CASE SaveReplace
  <2>1. UNCHANGED <<rig, op>> /\ child.pc = "replace" /\ child'.pc = "return"
    BY <1>0, <1>9, JobSaveEffect DEF JobSaves
  <2>2. crossed' = crossed
    BY <1>9 DEF SaveReplace, Renames
  <2> QED BY <2>1, <2>2 DEF Alone
<1>10. CASE UNCHANGED rigVars
  BY <1>10 DEF rigVars, hub, job, disk, Alone
<1> QED BY <1>1, <1>2, <1>3, <1>4, <1>5, <1>6, <1>7, <1>8, <1>9, <1>10, RigSteps DEF HubSaves, JobSaves

(* As long as no two saves met, rig.json becomes the hub's rig, or that of the job, or stays (store.save). *)
LEMMA FileBecomes ==
  ASSUME RigBounds, RigTypes, Sampled, ReadWhole, Alone, RigNext \/ UNCHANGED rigVars, ~crossed'
  PROVE  /\ ~crossed
         /\ \/ file' = file
            \/ file' = rig /\ UNCHANGED <<rig, child, gone>>
            \/ file' = child.rig /\ Complete(child.rig) /\ child'.rig = NoRig /\ UNCHANGED <<rig, gone>>
<1>0. HubTypes /\ DiskTypes /\ child \in Jobs /\ file \in Rig /\ rig \in Rig /\ child.rig \in Rig
  BY SameRigTypes DEF DiskTypes, HubTypes, Jobs
<1>1. CASE Requests \/ JobSteps
  BY <1>0, <1>1, RequestEffect, JobAround DEF disk
<1>2. CASE Truncate \/ SaveOpen
  BY <1>2 DEF Truncate, SaveOpen, Opens
<1>3. CASE Write
  BY <1>0, <1>3, FillsEffect DEF Write, Writer, HubTypes, Alone
<1>4. CASE SaveWrite
  BY <1>0, <1>4, FillsEffect DEF SaveWrite, Writer, HubTypes, Alone
<1>5. CASE Replace
  <2>1. op.at = "replace" /\ crossed' = crossed /\ file' \in tmp
    BY <1>5 DEF Replace, Renames
  <2>2. UNCHANGED <<rig, child, gone>>
    BY <1>0, <1>5, HubSaveEffect DEF HubSaves
  <2> QED BY <2>1, <2>2 DEF Alone
<1>6. CASE SaveFails
  BY <1>6 DEF SaveFails
<1>7. CASE SaveReplace
  <2>1. child.pc = "replace" /\ crossed' = crossed /\ file' \in tmp
    BY <1>7 DEF SaveReplace, Renames
  <2>2. UNCHANGED <<rig, gone>> /\ child'.rig = NoRig
    BY <1>0, <1>7, JobSaveEffect DEF JobSaves
  <2>3. Complete(child.rig)
    BY <2>1 DEF ReadWhole
  <2> QED BY <2>1, <2>2, <2>3 DEF Alone
<1>8. CASE UNCHANGED rigVars
  BY <1>8 DEF rigVars, disk
<1> QED BY <1>1, <1>2, <1>3, <1>4, <1>5, <1>6, <1>7, <1>8, RigSteps DEF HubSaves, JobSaves

(* Only a discard takes a lens from what may reach the file: the other process writes *)
(* back what it read, and reads it whole (PerceptionHub.discard, calibrating.main).   *)
LEMMA KeptKept ==
  ASSUME RigBounds, RigTypes, Sampled, ReadWhole, Solved, Alone, NEW c \in Role, Kept(c), RigNext \/ UNCHANGED rigVars
  PROVE  Kept(c)'
<1> SUFFICES ASSUME ~crossed' PROVE Kept(c)'
  BY DEF Kept
<1>0. HubTypes /\ DiskTypes /\ child \in Jobs /\ file \in Rig /\ rig \in Rig /\ child.rig \in Rig
  BY SameRigTypes DEF DiskTypes, HubTypes, Jobs
<1>1. Yields(rig, file, c) /\ Yields(rig, child.rig, c) /\ Yields(file, child.rig, c) /\ NoRig.lens[c] = 0
  BY FileBecomes DEF Kept, NoRig
<1>2. CASE UNCHANGED <<rig, gone>> /\ child'.rig.lens \in {child.rig.lens, file.lens, NoRig.lens} /\ file' = file
  BY <1>1, <1>2 DEF Kept, Yields
<1>3. CASE UNCHANGED <<rig, gone, child>>
  <2>1. file' = file \/ file' = rig
    BY <1>3, FileBecomes, NoRigIs DEF Complete, NoRig
  <2> QED BY <1>1, <1>3, <2>1 DEF Kept, Yields
<1>4. CASE Requests
  <2>1. Asked /\ UNCHANGED <<file, child>>
    BY <1>0, <1>4, RequestEffect DEF disk
  <2>2. CASE rig' \in {rig, file} /\ UNCHANGED gone
    BY <1>1, <2>1, <2>2 DEF Kept, Yields
  <2>3. ASSUME NEW r \in Role, made' = made + 1, rig' = WithLens(r, made'), UNCHANGED gone PROVE Kept(c)'
    <3>1. made' # 0
      BY <1>0, <2>3 DEF HubTypes, Lens, RigBounds
    <3>2. rig'.lens[c] = 0 => rig.lens[c] = 0
      BY <1>0, <2>3, <3>1 DEF WithLens, Rig
    <3> QED BY <1>1, <2>1, <2>3, <3>2 DEF Kept, Yields
  <2>4. ASSUME NEW r \in Role, rig' = WithLens(r, 0), gone' = [gone EXCEPT ![r] = 1..made] PROVE Kept(c)'
    <3>1. CASE c = r
      <4>1. gone'[c] = 1..made
        BY <1>0, <2>4, <3>1 DEF HubTypes
      <4>2. ASSUME NEW x \in Rig, x.lens[c] <= made PROVE x.lens[c] = 0 \/ x.lens[c] \in gone'[c]
        <5>1. x.lens[c] \in 0..Lenses /\ made \in Nat
          BY <1>0 DEF Rig, Lens, HubTypes, RigBounds
        <5> QED BY <4>1, <4>2, <5>1 DEF RigBounds
      <4>3. file.lens[c] <= made /\ child.rig.lens[c] <= made
        BY DEF Solved, Rigs
      <4> QED BY <1>0, <2>1, <4>2, <4>3 DEF Kept, Yields
    <3>2. CASE c # r
      <4>1. gone'[c] = gone[c] /\ rig'.lens[c] = rig.lens[c]
        BY <1>0, <2>4, <3>2 DEF HubTypes, WithLens, Rig
      <4> QED BY <1>1, <2>1, <4>1 DEF Kept, Yields
    <3> QED BY <3>1, <3>2
  <2> QED BY <2>1, <2>2, <2>3, <2>4 DEF Asked
<1>5. CASE HubSaves
  BY <1>0, <1>3, <1>5, HubSaveEffect
<1>6. CASE SaveOpen \/ SaveWrite
  <2>1. UNCHANGED <<rig, gone>> /\ child'.rig = child.rig /\ child'.pc # "return" /\ child.pc \in {"open", "fill"}
    BY <1>0, <1>6, JobSaveEffect DEF JobSaves
  <2>2. file' = file
    <3>1. CASE SaveOpen
      BY <3>1 DEF SaveOpen, Opens
    <3>2. CASE SaveWrite
      BY <1>0, <3>2, FillsEffect, FileBecomes DEF SaveWrite, Writer, HubTypes, Alone
    <3> QED BY <1>6, <3>1, <3>2
  <2> QED BY <1>2, <2>1, <2>2
<1>7. CASE SaveReplace
  <2>1. UNCHANGED <<rig, gone>> /\ child'.rig = NoRig
    BY <1>0, <1>7, JobSaveEffect DEF JobSaves
  <2>2. file' \in {file, rig, child.rig}
    BY FileBecomes
  <2> QED BY <1>1, <2>1, <2>2 DEF Kept, Yields
<1>8. CASE JobSteps
  <2>1. UNCHANGED <<rig, gone, file>>
    BY <1>0, <1>8, JobAround
  <2>2. child'.rig.lens \in {child.rig.lens, file.lens, NoRig.lens}
    BY <1>8, JobCarries DEF Carried
  <2> QED BY <1>2, <2>1, <2>2
<1>9. CASE UNCHANGED rigVars
  BY <1>3, <1>9 DEF rigVars, hub, job
<1> QED BY <1>4, <1>5, <1>6, <1>7, <1>8, <1>9, RigSteps DEF JobSaves

(* A rig that was there before has a lens and a place of it for every camera, or none. *)
LEMMA RigInvInit == RigBounds /\ RigInit => RigInv
<1> SUFFICES ASSUME RigBounds, RigInit PROVE RigInv
  OBVIOUS
<1>1. /\ rig = file /\ file \in Rig /\ tmp = {} /\ child = NoChild /\ made = 1 /\ op = Free
      /\ \A r \in Role : file.lens[r] = file.place[r] /\ file.lens[r] <= 1
  BY DEF RigInit, NoRig, Rig, Lens, RigBounds
<1>2. RigTypes
  <2>1. DiskTypes /\ child \in Jobs
    BY <1>1, NoChildIs DEF RigInit, DiskTypes
  <2>2. views \in [Role -> 0..Views] /\ gone \in [Role -> SUBSET Lens] /\ made \in Lens /\ started \in 0..Calibrations
    BY <1>1 DEF RigInit, Lens, RigBounds
  <2>3. HubTypes
    <3>1. op \in [by : {"nobody", "solve", "discard", "reload", "answer"},
                  at : {"free", "open", "fill", "replace", "stat"}]
      BY <1>1 DEF Free
    <3>2. rig \in Rig /\ known \in BOOLEAN /\ stuck \in BOOLEAN
      BY <1>1 DEF RigInit
    <3> QED BY <2>2, <3>1, <3>2 DEF RigInit, HubTypes
  <2> QED BY <2>1, <2>3, SameRigTypes
<1>3. Sampled /\ ReadWhole /\ NoMixedRig
  BY <1>1, NoChildIs DEF Sampled, ReadWhole, NoMixedRig, Sound
<1>4. Solved
  <2>1. \A x \in Rigs : x = file \/ x = NoRig
    BY <1>1 DEF Rigs, NoChild
  <2> QED BY <1>1, <2>1 DEF Solved, NoRig
<1>5. Alone
  BY <1>1 DEF Alone, Free, NoChild
<1>6. \A c \in Role : Kept(c)
  BY <1>1 DEF Kept, Yields, NoChild, NoRig
<1> QED BY <1>2, <1>3, <1>4, <1>5, <1>6 DEF RigInv

(* The invariant of the rig, whichever of the two processes steps. *)
LEMMA RigInductive == ASSUME RigBounds PROVE RigSpec => []RigInv
<1>1. RigInv /\ [RigNext]_(rigVars) => RigInv'
  BY RigTyped, JobKept, SolvedKept, SoundKept, AloneKept, KeptKept DEF RigInv
<1> QED BY <1>1, RigInvInit, PTL DEF RigSpec

(* The hub, the job and the files they share stay in their sets. *)
THEOREM RigTypeCorrect == RigSpec => []RigTypes
<1>1. RigInv => RigTypes
  BY DEF RigInv
<1> QED BY <1>1, BoundsOfRig, RigInductive, PTL

(* No rig, written or half written by either process, has a place beside a lens it was *)
(* not found through (store.save, PerceptionHub._solve, calibrating.main).             *)
THEOREM NoPlaceOfAnotherLens == RigSpec => []NoMixedRig
<1>1. RigInv => NoMixedRig
  BY DEF RigInv
<1> QED BY <1>1, BoundsOfRig, RigInductive, PTL

(* As long as the two processes never saved at the same time, the file loses the lens of *)
(* a camera only to its discard (store.save, PerceptionHub.reload).                      *)
THEOREM LensesStay == RigSpec => LensStays
<1>1. ASSUME RigBounds, RigInv, RigNext, ~crossed', NEW c \in Role, file.lens[c] # 0, file'.lens[c] = 0
      PROVE  file.lens[c] \in gone[c]
  <2>1. /\ Kept(c) /\ ~crossed
        /\ file' = rig \/ (file' = child.rig /\ Complete(child.rig))
    BY <1>1, FileBecomes DEF RigInv
  <2> QED BY <1>1, <2>1 DEF Kept, Yields, Complete
<1>2. RigInv /\ [RigNext]_(rigVars) =>
        [~crossed' => \A c \in Role : file.lens[c] # 0 /\ file'.lens[c] = 0 => file.lens[c] \in gone[c]]_(rigVars)
  BY <1>1, BoundsOfRig
<1> QED BY <1>2, BoundsOfRig, RigInductive, PTL DEF RigSpec, LensStays
=============================================================================
