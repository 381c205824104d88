----------------------------- MODULE Perception -----------------------------
(***************************************************************************)
(* The rig: the lenses and places of the cameras, kept in one file,        *)
(* runtime/perception/rig.json.  Two processes write it.  The console's    *)
(* PerceptionHub collects views of a board, solves a lens in a thread and  *)
(* discards lenses; the calibration job moves the arm through its poses    *)
(* and solves where each camera stands.  Neither locks the file against    *)
(* the other, and both write through the same rig.tmp: a save opens it     *)
(* (and so empties it), writes, and renames it.                            *)
(*                                                                         *)
(* A file is modelled by what store.load makes of it: an empty, torn or    *)
(* missing one is a rig without anything (NoRig).                          *)
(* A lens is a number, one per solution; a place is the number of the lens *)
(* it was solved with, 0 when there is none.                               *)
(***************************************************************************)
EXTENDS Naturals

CONSTANTS Role,
          Views,        \* intrinsics.MINIMUM_VIEWS, also the target of a collection
          MinimumPoses, \* extrinsics.MINIMUM_POSES
          Poses,        \* poses of one calibration
          Lenses,       \* lenses solved (bound)
          Calibrations  \* calibrations started (bound)

ASSUME RoleAssumption == Role # {}
ASSUME ViewsAssumption == Views \in Nat \ {0}
ASSUME PosesAssumption == MinimumPoses \in Nat \ {0} /\ Poses \in Nat
ASSUME BoundsAssumption == Lenses \in Nat \ {0} /\ Calibrations \in Nat

VARIABLES
    rig,      \* PerceptionHub._rig
    known,    \* the file's mtime is _rig_mtime
    collect,  \* _collect_role
    detect,   \* the camera the worker detects a board in, outside the lock
    views,    \* _views: how many per camera
    solving,  \* the camera whose lens _solve computes or stores, or "none"
    stuck,    \* _solving after the thread of _solve died
    op,       \* who holds the hub's lock over several steps, and where it is
    file,     \* rig.json
    tmp,      \* rig.tmp: {} or the one rig in it
    dest,     \* where the file is by now that a process has opened to write: tmp, file, gone; none
    crossed,  \* history: one process began to save while the other was at it
    child,    \* the calibration job
    handle,   \* PerceptionManager._process: none, live, dead
    asking,   \* POST extrinsics/stop: no, waits for the job, reloads
    made,     \* lenses solved so far
    started,  \* calibrations started so far
    gone      \* history: the lenses discarded, by camera

hub == <<rig, known, collect, detect, views, solving, stuck, op, made, gone>>
job == <<child, handle, asking, started>>
disk == <<file, tmp, dest, crossed>>
rigVars == <<hub, disk, job>>

Lens == 0..Lenses
Rig == [lens : [Role -> Lens], place : [Role -> Lens]]
NoRig == [lens |-> [r \in Role |-> 0], place |-> [r \in Role |-> 0]]
Free == [by |-> "nobody", at |-> "free"]
NoChild == [pc |-> "off", rig |-> NoRig, samples |-> [r \in Role |-> 0], pose |-> 0, stop |-> FALSE]
Complete(r) == \A c \in Role : r.lens[c] # 0
Writer == {"hub", "job"}
Running == child.pc # "off"

RigTypes ==
    /\ rig \in Rig /\ known \in BOOLEAN /\ collect \in Role \cup {"none"}
    /\ detect \in Role \cup {"none"} /\ views \in [Role -> 0..Views]
    /\ solving \in Role \cup {"none"} /\ stuck \in BOOLEAN
    /\ op \in [by : {"nobody", "solve", "discard", "reload", "answer"},
               at : {"free", "open", "fill", "replace", "stat"}]
    /\ file \in Rig /\ tmp \subseteq Rig /\ (\A t, u \in tmp : t = u)
    /\ dest \in [Writer -> {"none", "tmp", "file", "gone"}] /\ crossed \in BOOLEAN
    /\ child \in [pc : {"off", "boot", "move", "capture", "solve", "open", "fill", "replace", "return"},
                  rig : Rig, samples : [Role -> 0..Poses], pose : 0..Poses, stop : BOOLEAN]
    /\ handle \in {"none", "live", "dead"} /\ asking \in {"no", "wait", "reload"}
    /\ made \in Lens /\ started \in 0..Calibrations /\ gone \in [Role -> SUBSET Lens]

(* A console started over a rig that was calibrated before, or over none *)
RigInit ==
    /\ file \in {NoRig, [lens |-> [r \in Role |-> 1], place |-> [r \in Role |-> 1]]}
    /\ rig = file /\ known = TRUE /\ tmp = {}
    /\ dest = [w \in Writer |-> "none"] /\ crossed = FALSE
    /\ collect = "none" /\ detect = "none" /\ views = [r \in Role |-> 0]
    /\ solving = "none" /\ stuck = FALSE /\ op = Free /\ made = 1 /\ gone = [r \in Role |-> {}]
    /\ child = NoChild /\ handle = "none" /\ asking = "no" /\ started = 0

----------------------------------------------------------------------------
(* What store.save does to the disk, in either process *)

(* Opening makes rig.tmp or empties the one that is there, whoever is writing it *)
Opens(w, begun) ==
    /\ tmp' = {NoRig} /\ dest' = [dest EXCEPT ![w] = "tmp"]
    /\ crossed' = (crossed \/ begun)
    /\ UNCHANGED <<file, known>>

(* A shorter text over a longer one of the other process is no JSON any more *)
Laid(old, new) == IF old = NoRig THEN {new} ELSE {new, NoRig}

(* The open file may be rig.json by now, or nothing that has a name *)
Fills(w, r) ==
    /\ CASE dest[w] = "tmp"  -> (\E t \in tmp : \E x \in Laid(t, r) : tmp' = {x}) /\ UNCHANGED <<file, known>>
         [] dest[w] = "file" -> file' \in Laid(file, r) /\ known' = FALSE /\ UNCHANGED tmp
         [] OTHER -> UNCHANGED <<file, tmp, known>>
    /\ dest' = [dest EXCEPT ![w] = "none"] /\ UNCHANGED crossed

Renames ==
    /\ file' \in tmp /\ tmp' = {} /\ known' = FALSE
    /\ dest' = [w \in Writer |-> CASE dest[w] = "tmp" -> "file" [] dest[w] = "file" -> "gone" [] OTHER -> dest[w]]
    /\ UNCHANGED crossed

----------------------------------------------------------------------------
(* store.save under the hub's lock; a failing one leaves what the caller had changed *)

SaveGoes(at) ==
    /\ op' = [op EXCEPT !.at = at]
    /\ UNCHANGED <<rig, collect, detect, views, solving, stuck, made, gone, job>>

Truncate ==
    /\ op.at = "open" /\ Opens("hub", child.pc \in {"fill", "replace"})
    /\ SaveGoes("fill")

Write ==
    /\ op.at = "fill" /\ Fills("hub", rig)
    /\ SaveGoes("replace")

Replace ==
    /\ op.at = "replace" /\ Renames
    /\ SaveGoes("stat")

(* The disk is full, or the other process has renamed rig.tmp away *)
SaveFails ==
    /\ op.at \in {"open", "fill"} \/ (op.at = "replace" /\ tmp = {})
    /\ op' = Free /\ dest' = [dest EXCEPT !["hub"] = "none"]
    /\ stuck' = (stuck \/ op.by = "solve")
    /\ solving' = IF op.by = "solve" THEN "none" ELSE solving
    /\ UNCHANGED <<rig, known, collect, detect, views, made, gone, file, tmp, crossed, job>>

(* The stamp of the file as it is now, whoever wrote it last *)
Stat ==
    /\ op.at = "stat"
    /\ known' = TRUE /\ op' = Free
    /\ asking' = IF op.by = "answer" THEN "no" ELSE asking
    /\ IF op.by = "solve" THEN solving' = "none" /\ collect' = "none"
                          ELSE UNCHANGED <<solving, collect>>
    /\ UNCHANGED <<rig, detect, views, stuck, made, gone, disk, child, handle, started>>

----------------------------------------------------------------------------
(* PerceptionHub: requests of the screen, and its worker *)

(* HUBq was asked for the camera a step before: a calibration may have started since *)
StartCollect(r) ==
    /\ op = Free /\ solving = "none" /\ ~stuck
    /\ collect' = r
    /\ UNCHANGED <<rig, known, detect, views, solving, stuck, op, made, gone, disk, job>>

StopCollect ==
    /\ op = Free /\ collect # "none"
    /\ collect' = "none"
    /\ UNCHANGED <<rig, known, detect, views, solving, stuck, op, made, gone, disk, job>>

(* The worker takes the frame and the detector, and looks for the board without the lock *)
Detect ==
    /\ op = Free /\ collect # "none" /\ detect = "none"
    /\ detect' = collect
    /\ UNCHANGED <<rig, known, collect, views, solving, stuck, op, made, gone, disk, job>>

(* mutant: the target of the collection is not looked at *)
CollectMore ==
    /\ op = Free /\ detect # "none" /\ detect' = "none"
    /\ \/ UNCHANGED views
       \/ /\ collect = detect
          /\ views' = [views EXCEPT ![detect] = @ + 1]
    /\ UNCHANGED <<rig, known, collect, solving, stuck, op, made, gone, disk, job>>

(* A board, a new place of it, and still the camera it was for *)
Collect ==
    /\ op = Free /\ detect # "none" /\ detect' = "none"
    /\ \/ UNCHANGED views
       \/ /\ collect = detect /\ views[detect] < Views
          /\ views' = [views EXCEPT ![detect] = @ + 1]
    /\ UNCHANGED <<rig, known, collect, solving, stuck, op, made, gone, disk, job>>

Solve(r) ==
    /\ op = Free /\ solving = "none" /\ ~stuck
    /\ solving' = r
    /\ UNCHANGED <<rig, known, collect, detect, views, stuck, op, made, gone, disk, job>>

(* Too few views, or neither distortion model fits *)
SolveFails ==
    /\ op = Free /\ solving # "none"
    /\ solving' = "none"
    /\ UNCHANGED <<rig, known, collect, detect, views, stuck, op, made, gone, disk, job>>

(* A lens of a camera takes the place with it that was found through the old one *)
WithLens(r, l) == [lens |-> [rig.lens EXCEPT ![r] = l], place |-> [rig.place EXCEPT ![r] = 0]]

(* _solve *)
SolveEnds ==
    /\ op = Free /\ solving # "none" /\ made < Lenses
    /\ made' = made + 1
    /\ rig' = WithLens(solving, made')
    /\ op' = [by |-> "solve", at |-> "open"]
    /\ UNCHANGED <<known, collect, detect, views, solving, stuck, gone, disk, job>>

Discard(r) ==
    /\ op = Free
    /\ views' = [views EXCEPT ![r] = 0]
    /\ rig' = WithLens(r, 0)
    /\ gone' = [gone EXCEPT ![r] = 1..made]
    /\ op' = [by |-> "discard", at |-> "open"]
    /\ UNCHANGED <<known, collect, detect, solving, stuck, made, disk, job>>

(* The worker sees another mtime: the other process has written *)
Reload ==
    /\ op = Free /\ ~known
    /\ rig' = file /\ op' = [by |-> "reload", at |-> "stat"]
    /\ UNCHANGED <<known, collect, detect, views, solving, stuck, made, gone, disk, job>>

----------------------------------------------------------------------------
(* PerceptionManager and its endpoints *)

(* POST extrinsics/start, the answer of HUBq arriving or not.  A handle of  *)
(* a job that ended does not tell whether another one runs: HUBq does.      *)
Start(answered) ==
    /\ ~Running /\ started < Calibrations /\ Complete(file) /\ op = Free
    /\ collect' = "none" /\ started' = started + 1
    /\ child' = [NoChild EXCEPT !.pc = "boot"]
    /\ handle' = IF answered THEN "live" ELSE handle
    /\ UNCHANGED <<rig, known, detect, views, solving, stuck, op, made, gone, disk, asking>>

(* `running`, which every status poll reads *)
Adopt ==
    /\ handle = "none" /\ Running
    /\ handle' = "live"
    /\ UNCHANGED <<hub, disk, child, asking, started>>

(* POST extrinsics/stop: the job it knows of gets SIGTERM, and nothing else does *)
StopCalibration ==
    /\ asking = "no"
    /\ IF handle = "live"
       THEN asking' = "wait" /\ child' = [child EXCEPT !.stop = TRUE]
       ELSE asking' = "reload" /\ UNCHANGED child
    /\ UNCHANGED <<hub, disk, handle, started>>

Answer ==
    /\ asking = "reload" /\ op = Free
    /\ rig' = file /\ op' = [by |-> "answer", at |-> "stat"]
    /\ UNCHANGED <<known, collect, detect, views, solving, stuck, made, gone, disk, job>>

----------------------------------------------------------------------------
(* calibrating.py: the job *)

(* The handle's poll and a waiting stop see the job gone *)
Ends ==
    /\ child' = NoChild /\ handle' = IF handle = "live" THEN "dead" ELSE handle
    /\ asking' = IF asking = "wait" THEN "reload" ELSE asking
    /\ UNCHANGED <<hub, started>>

(* On the way back the job uses neither its rig nor what it has seen *)
GoesBack == child' = [NoChild EXCEPT !.pc = "return", !.stop = child.stop] /\ UNCHANGED <<handle, asking, started>>
Goes(c) == child' = c /\ UNCHANGED <<hub, handle, asking, started>>

(* A file that is open is closed as it is *)
LetsGo == dest' = [dest EXCEPT !["job"] = "none"] /\ UNCHANGED <<file, tmp, crossed>>

SavingGoes(pc) ==
    /\ child' = [child EXCEPT !.pc = pc]
    /\ UNCHANGED <<rig, collect, detect, views, solving, stuck, op, made, gone, handle, asking, started>>

(* mutant: a lens that is missing when the job starts does not end it *)
BootAnyway ==
    /\ child.pc = "boot"
    /\ Goes([child EXCEPT !.pc = "move", !.rig = file])
    /\ UNCHANGED disk

(* main reads the rig it will write back at the end *)
Boot ==
    /\ child.pc = "boot"
    /\ \/ Complete(file) /\ Goes([child EXCEPT !.pc = "move", !.rig = file])
       \/ Ends
    /\ UNCHANGED disk

(* A SIGTERM before the handler is installed; or HUBq's SIGKILL after the time a stop has *)
Killed ==
    /\ Running /\ child.stop /\ Ends /\ LetsGo

Move ==
    /\ child.pc = "move"
    /\ Goes(IF child.stop \/ child.pose = Poses THEN [child EXCEPT !.pc = "solve"]
                                                ELSE [child EXCEPT !.pc = "capture"])
    /\ UNCHANGED disk

CapturePose ==
    /\ child.pc = "capture"
    /\ \E seen \in SUBSET Role :
          Goes([child EXCEPT !.pc = "move", !.pose = @ + 1,
                             !.samples = [r \in Role |-> IF r \in seen THEN @[r] + 1 ELSE @[r]]])
    /\ UNCHANGED disk

(* The bus, a camera, the disk: the error is written and the arm goes back *)
Fails ==
    /\ child.pc \in {"move", "capture", "open", "fill"} \/ (child.pc = "replace" /\ tmp = {})
    /\ GoesBack /\ UNCHANGED hub /\ LetsGo

(* mutant: places of cameras that moved on to another lens are added to the rig of now *)
PlacesOver ==
    /\ child.pc = "solve"
    /\ \E fits \in SUBSET {r \in Role : child.samples[r] >= MinimumPoses} :
          LET solved == [file EXCEPT !.place = [r \in Role |-> IF r \in fits THEN child.rig.lens[r] ELSE @[r]]]
          IN Goes([NoChild EXCEPT !.rig = solved, !.pc = "open", !.stop = child.stop])
    /\ UNCHANGED disk

(* Each camera that was seen often enough and fits; the others keep the place they had *)
Places ==
    /\ child.pc = "solve"
    /\ \E fits \in SUBSET {r \in Role : child.samples[r] >= MinimumPoses} :
          LET solved == [child.rig EXCEPT !.place =
                            [r \in Role |-> IF r \in fits THEN child.rig.lens[r] ELSE @[r]]]
          IN IF \E r \in Role : solved.place[r] # 0
             THEN Goes([NoChild EXCEPT !.rig = solved, !.pc = "open", !.stop = child.stop])
             ELSE GoesBack /\ UNCHANGED hub
    /\ UNCHANGED disk

SaveOpen ==
    /\ child.pc = "open" /\ Opens("job", op.at \in {"fill", "replace"})
    /\ SavingGoes("fill")

SaveWrite ==
    /\ child.pc = "fill" /\ Fills("job", child.rig)
    /\ SavingGoes("replace")

SaveReplace ==
    /\ child.pc = "replace" /\ Renames
    /\ GoesBack /\ UNCHANGED <<rig, collect, detect, views, solving, stuck, op, made, gone>>

(* The way back to where the arm stood is not cut short by a stop *)
Return ==
    /\ child.pc = "return" /\ Ends
    /\ UNCHANGED disk

----------------------------------------------------------------------------
Job == Boot \/ Move \/ CapturePose \/ Fails \/ Places \/ SaveOpen \/ SaveWrite \/ SaveReplace \/ Return
Saving == Truncate \/ Write \/ Replace \/ SaveFails \/ Stat

RigNext ==
    \/ Saving \/ StopCollect \/ Detect \/ Collect \/ SolveFails \/ SolveEnds \/ Reload
    \/ Adopt \/ StopCalibration \/ Answer \/ Job \/ Killed
    \/ \E r \in Role : StartCollect(r) \/ Solve(r) \/ Discard(r)
    \/ \E answered \in BOOLEAN : Start(answered)

RigSpec == RigInit /\ [][RigNext]_rigVars

----------------------------------------------------------------------------
Sound(r) == \A c \in Role : r.place[c] # 0 => r.place[c] = r.lens[c]

(* Whoever wrote, and however the two processes' saves and reloads fell     *)
(* together: no rig that can be loaded from the file or the one half way,   *)
(* and none in memory for whom has the lock, holds a camera's place found   *)
(* through another lens than the one it names (store.py, hub.py).           *)
NoMixedRig == Sound(rig) /\ Sound(file) /\ Sound(child.rig) /\ (\A r \in tmp : Sound(r))

(* As long as the two processes never were in store.save at the same time,  *)
(* no save takes from the file the last lens of a camera that was not       *)
(* discarded, however old the rig is that is written back, and wherever a   *)
(* save failed or was killed.  Two saves at a time share rig.tmp, and the   *)
(* file can lose every lens.                                                *)
LensStays ==
    [][~crossed' => \A c \in Role :
          file.lens[c] # 0 /\ file'.lens[c] = 0 => file.lens[c] \in gone[c]]_rigVars

=============================================================================
