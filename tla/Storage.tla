------------------------------ MODULE Storage -------------------------------
(***************************************************************************)
(* What the recordings become: a dataset under data/, edited, thrown away, *)
(* and copied to the training machine (datasets.py, spark.push_dataset),   *)
(* and a checkpoint brought back to models/ (spark.pull_checkpoint,        *)
(* models.py).  Nothing here is transactional: rsync, mv, rm and LeRobot's *)
(* editor run as commands that fail half way, time out, or finish although *)
(* their answer was lost.                                                  *)
(*                                                                         *)
(* A dataset is named by the set of its episodes.  Its files are           *)
(* meta/info.json, file 0, which carries the totals, and one data file per *)
(* episode, numbered from 1 without gaps.  A copy tells for every file     *)
(* which dataset it belongs to, {} where there is none.                    *)
(***************************************************************************)
EXTENDS FiniteSets, Naturals

CONSTANTS Ep,       \* episodes ever recorded
          Pusher,   \* requests that push the dataset
          Shared,   \* a push may meet a second push, a resumed recording or an edit
          Puller,   \* requests that pull the model
          Pushes,   \* pushes begun (bound)
          Pulls     \* pulls and removals of the model begun (bound)

ASSUME EpAssumption == IsFiniteSet(Ep) /\ Ep # {}
ASSUME SharedAssumption == Shared \in BOOLEAN
ASSUME BoundsAssumption == Pushes \in Nat /\ Pulls \in Nat

VARIABLES
    dir,      \* data/<name>: {} or the one copy in it
    old,      \* data/<name>_old, where LeRobot puts what it edits
    cleared,  \* history: the episodes of backups that LeRobot removed to put a new one there
    shrunk,   \* history: what a push may have begun to send was edited or thrown away
    trash,    \* data/.trash
    edit,     \* delete_episode: where it is, and the dataset it makes
    resuming, \* a recording session appends to the dataset
    saved,    \* history: the episodes that were ever in it
    incoming, \* on the training machine: .incoming/<name>
    final,    \*   and <name>
    cut,      \* an rm -rf has begun on <name> and did not get through
    late,     \* an rm -rf goes on there whose request has given up
    push,     \* the requests: where they are, and the files rsync still has to send
    pushes,   \* pushes begun
    found,    \* history: the dataset as the pushes found it
    model,    \* models/<run>/<step>: its files and whether there is a soarm_model.json
    pull,     \* the requests: where they are, what rsync has to look at and to receive, whether
              \* nothing took from the model meanwhile, and whether another one ran beside it
    remove,   \* delete_model is in rmtree
    torn,     \* history: a removal, or one of two pulls that broke off, took from the model since
    pulls,    \* pulls and removals begun
    half      \* which of the two this behaviour is about: they share no state

backup == <<old, cleared>>
landing == <<incoming, final, cut, late>>
local == <<dir, backup, trash, edit, resuming, saved, shrunk>>
remote == <<landing, push, pushes, found>>
models == <<model, pull, remove, torn, pulls, half>>
storeVars == <<local, remote, models>>

File == 0..Cardinality(Ep)
Version == SUBSET Ep
FilesOf(v) == 0..Cardinality(v)
Copy == [File -> Version]
NoFiles == [f \in File |-> {}]
Exactly(v) == [f \in File |-> IF f \in FilesOf(v) THEN v ELSE {}]
AtMostOne(place) == place \subseteq Copy /\ \A c, e \in place : c = e
(* meta/info.json is there: the copy is listed with the totals it carries *)
Listed(place) == \E c \in place : c[0] # {}
Whole(c) == \A f \in FilesOf(c[0]) : c[f] = c[0]
EpisodesIn(c) == UNION {c[f] : f \in File \ {0}}

MFile == {"config", "train", "weights"}
NoPush == [pc |-> "idle", left |-> {}]
NoPull == [pc |-> "idle", todo |-> {}, want |-> {}, clean |-> FALSE, beside |-> FALSE]
Pushing == \E p \in Pusher : push[p].pc # "idle"
(* Nothing but the claim of the arm is asked for, which a push does not have *)
Apart == Shared \/ ~Pushing

StoreTypes ==
    /\ AtMostOne(dir) /\ AtMostOne(old) /\ AtMostOne(incoming) /\ AtMostOne(final)
    /\ trash \subseteq Copy /\ found \subseteq Copy
    /\ edit \in [pc : {"idle", "move", "write", "tidy"}, to : Version]
    /\ resuming \in BOOLEAN /\ saved \in Version /\ cleared \in Version
    /\ shrunk \in BOOLEAN /\ cut \in BOOLEAN /\ late \in BOOLEAN
    /\ push \in [Pusher -> [pc : {"idle", "mkdir", "rsync", "rm", "mv"}, left : SUBSET File]]
    /\ pushes \in 0..Pushes /\ pulls \in 0..Pulls
    /\ model \in [files : [MFile -> {"none", "part", "whole"}], manifest : BOOLEAN]
    /\ pull \in [Puller -> [pc : {"idle", "rsync", "manifest"}, todo : SUBSET MFile, want : SUBSET MFile,
                            clean : BOOLEAN, beside : BOOLEAN]]
    /\ remove \in BOOLEAN /\ torn \in BOOLEAN /\ half \in {"dataset", "model"}

(* The first session has recorded some episodes; nothing was pushed or pulled *)
StoreInit ==
    /\ saved \in Version \ {{}} /\ dir = {Exactly(saved)}
    /\ old = {} /\ trash = {} /\ edit = [pc |-> "idle", to |-> {}] /\ resuming = FALSE
    /\ cleared = {} /\ shrunk = FALSE /\ cut = FALSE /\ late = FALSE
    /\ incoming = {} /\ final = {} /\ push = [p \in Pusher |-> NoPush]
    /\ pushes = 0 /\ found = {} /\ half \in {"dataset", "model"}
    /\ model = [files |-> [f \in MFile |-> "none"], manifest |-> FALSE]
    /\ pull = [p \in Puller |-> NoPull] /\ remove = FALSE /\ torn = FALSE /\ pulls = 0

----------------------------------------------------------------------------
(* Recording appends; DELETE /api/datasets moves away *)

ResumeStart ==
    /\ half = "dataset" /\ ~resuming /\ edit.pc = "idle" /\ Listed(dir) /\ Apart
    /\ \E c \in dir : Whole(c) /\ c[0] # Ep
    /\ resuming' = TRUE
    /\ UNCHANGED <<dir, backup, trash, edit, saved, shrunk, remote, models>>

(* One episode more, its file and the totals; LeRobot writes in place *)
ResumeSave ==
    /\ resuming
    /\ \E c \in dir, e \in Ep \ saved : dir' = {Exactly(c[0] \cup {e})} /\ saved' = saved \cup {e}
    /\ UNCHANGED <<backup, trash, edit, resuming, shrunk, remote, models>>

ResumeEnd ==
    /\ resuming /\ resuming' = FALSE
    /\ UNCHANGED <<dir, backup, trash, edit, saved, shrunk, remote, models>>

Shrinks == shrunk' = (shrunk \/ pushes > 0)

(* A dataset in the trash keeps all of its files *)
MoveToTrash ==
    /\ half = "dataset" /\ ~resuming /\ edit.pc = "idle" /\ Apart /\ Listed(dir)
    /\ trash' = trash \cup dir /\ dir' = {} /\ Shrinks
    /\ UNCHANGED <<backup, edit, resuming, saved, remote, models>>

----------------------------------------------------------------------------
(* DELETE /api/datasets/<name>/episodes/<i>: lerobot-edit-dataset in a child *)

Edit(pc) == edit' = [edit EXCEPT !.pc = pc]

(* The claim is granted and the episode is one of the dataset *)
DeleteEpisode ==
    /\ half = "dataset" /\ edit.pc = "idle" /\ ~resuming /\ Apart /\ Listed(dir)
    /\ \E c \in dir, e \in Ep :
          /\ e \in c[0] /\ c[0] # {e}
          /\ edit' = [pc |-> "move", to |-> c[0] \ {e}]
    /\ UNCHANGED <<dir, backup, trash, resuming, saved, shrunk, remote, models>>

(* An _old that an earlier edit left makes room for the one of this edit *)
EditClears ==
    /\ edit.pc = "move" /\ old # {}
    /\ old' = {} /\ cleared' = cleared \cup UNION {EpisodesIn(c) : c \in old}
    /\ UNCHANGED <<dir, trash, edit, resuming, saved, shrunk, remote, models>>

EditMove ==
    /\ edit.pc = "move" /\ old = {} /\ Edit("write")
    /\ old' = dir /\ dir' = {} /\ Shrinks
    /\ UNCHANGED <<cleared, trash, resuming, saved, remote, models>>

EditWrite ==
    /\ edit.pc = "write"
    /\ LET now == IF dir = {} THEN NoFiles ELSE CHOOSE c \in dir : TRUE
       IN \E f \in FilesOf(edit.to) : now[f] = {} /\ dir' = {[now EXCEPT ![f] = edit.to]}
    /\ UNCHANGED <<backup, trash, edit, resuming, saved, shrunk, remote, models>>

EditDone ==
    /\ edit.pc = "write" /\ dir = {Exactly(edit.to)} /\ Edit("tidy")
    /\ UNCHANGED <<dir, backup, trash, resuming, saved, shrunk, remote, models>>

(* mutant: the backup is removed, as a temporary file would be *)
EditTidyAway ==
    /\ edit.pc = "tidy" /\ Edit("idle")
    /\ old' = {}
    /\ UNCHANGED <<dir, cleared, trash, resuming, saved, shrunk, remote, models>>

(* The backup goes to the trash: under its name it would be one dataset more *)
EditTidy ==
    /\ edit.pc = "tidy" /\ Edit("idle")
    /\ trash' = trash \cup old /\ old' = {}
    /\ UNCHANGED <<dir, cleared, resuming, saved, shrunk, remote, models>>

(* mutant: the backup is moved back without a look whether its place is free *)
EditPutsBack ==
    /\ edit.pc \in {"move", "write"} /\ Edit("idle")
    /\ dir' = dir \cup old /\ old' = {}
    /\ UNCHANGED <<cleared, trash, resuming, saved, shrunk, remote, models>>

(* The editor exits with an error: what it moved away comes back if nothing took its place *)
EditFails ==
    /\ edit.pc \in {"move", "write"} /\ Edit("idle")
    /\ IF dir = {} THEN dir' = old /\ old' = {} ELSE UNCHANGED <<dir, old>>
    /\ UNCHANGED <<cleared, trash, resuming, saved, shrunk, remote, models>>

(* After 900 s the editor is killed and TimeoutExpired leaves delete_episode; or the console dies *)
EditTimeout ==
    /\ edit.pc # "idle" /\ Edit("idle")
    /\ UNCHANGED <<dir, backup, trash, resuming, saved, shrunk, remote, models>>

----------------------------------------------------------------------------
(* POST /api/spark/datasets/<name>: push_dataset, command by command *)

At(p, pc) == push' = [push EXCEPT ![p].pc = pc]

Push(p) ==
    /\ half = "dataset" /\ push[p].pc = "idle" /\ pushes < Pushes /\ Listed(dir) /\ edit.pc = "idle"
    /\ Shared \/ (~Pushing /\ ~resuming)
    /\ pushes' = pushes + 1 /\ At(p, "mkdir")
    /\ UNCHANGED <<local, landing, found, models>>

(* mkdir -p: what an earlier push left is kept, to go on from *)
Mkdir(p) ==
    /\ push[p].pc = "mkdir"
    /\ incoming' = IF incoming = {} THEN {NoFiles} ELSE incoming
    /\ \E c \in dir : push' = [push EXCEPT ![p] = [pc |-> "rsync", left |-> {f \in File : c[f] # {}}]]
    /\ found' = found \cup dir
    /\ UNCHANGED <<local, final, cut, late, pushes, models>>

(* One file of the list rsync made; without --delete nothing else is touched *)
Rsync(p) ==
    /\ push[p].pc = "rsync"
    /\ \E f \in push[p].left, c \in dir :
          /\ incoming' = {[got EXCEPT ![f] = c[f]] : got \in IF incoming = {} THEN {NoFiles} ELSE incoming}
          /\ push' = [push EXCEPT ![p].left = @ \ {f}]
    /\ UNCHANGED <<local, final, cut, late, pushes, found, models>>

(* mutant: rsync's exit status is not looked at *)
SentUnchecked(p) ==
    /\ push[p].pc = "rsync" /\ At(p, "rm")
    /\ UNCHANGED <<local, landing, pushes, found, models>>

Sent(p) ==
    /\ push[p].pc = "rsync" /\ push[p].left = {} /\ At(p, "rm")
    /\ UNCHANGED <<local, landing, pushes, found, models>>

(* rm -rf: one file after the other, in the order of the directory *)
Removes ==
    /\ \E f \in File :
          /\ \E c \in final : c[f] # {}
          /\ final' = {[c EXCEPT ![f] = {}] : c \in final}
    /\ cut' = TRUE

Remove(p) ==
    /\ push[p].pc = "rm" /\ Removes
    /\ UNCHANGED <<local, incoming, late, push, pushes, found, models>>

(* The directory itself: whatever else was removing it is through as well *)
Removed(p) ==
    /\ push[p].pc = "rm" /\ final \subseteq {NoFiles} /\ At(p, "mv")
    /\ final' = {} /\ cut' = FALSE /\ late' = FALSE
    /\ UNCHANGED <<local, incoming, pushes, found, models>>

(* mv of a directory onto one that is there puts it inside: what is there stays. *)
(* Whether its answer arrives changes nothing any more.                          *)
Move(p) ==
    /\ push[p].pc = "mv" /\ incoming # {} /\ At(p, "idle")
    /\ incoming' = {} /\ final' = IF final = {} THEN incoming ELSE final
    /\ UNCHANGED <<local, cut, late, pushes, found, models>>

(* ssh or rsync fails, or its time is over: a command has done what it has done, and an *)
(* rm -rf may go on on the host                                                         *)
PushFails(p) ==
    /\ push[p].pc # "idle" /\ push' = [push EXCEPT ![p] = NoPush]
    /\ late' = late \/ (late' = TRUE /\ push[p].pc = "rm" /\ final # {})
    /\ UNCHANGED <<local, incoming, final, cut, pushes, found, models>>

(* The rm -rf that was left alone comes to its end, unless the host is restarted *)
LateRemove ==
    /\ late
    /\ \/ Removes /\ UNCHANGED late
       \/ final = {NoFiles} /\ final' = {} /\ cut' = FALSE /\ late' = FALSE
       \/ late' = FALSE /\ UNCHANGED <<final, cut>>
    /\ UNCHANGED <<local, incoming, push, pushes, found, models>>

----------------------------------------------------------------------------
(* POST and DELETE /api/models/<run>/<step> *)

Busy(p) == pull[p].pc # "idle"

(* Nobody locks anything: a request that is repeated runs beside the first one *)
Pull(p) ==
    /\ half = "model" /\ ~Busy(p) /\ pulls < Pulls /\ pulls' = pulls + 1
    /\ pull' = [q \in Puller |->
                  IF q = p THEN [pc |-> "rsync", todo |-> MFile, want |-> {}, clean |-> ~remove,
                                 beside |-> \E r \in Puller : Busy(r)]
                  ELSE [pull[q] EXCEPT !.beside = Busy(q)]]
    /\ UNCHANGED <<local, remote, model, remove, torn, half>>

(* A file that is there and the same is not sent again *)
PullLook(p) ==
    /\ pull[p].pc = "rsync"
    /\ \E f \in pull[p].todo :
          pull' = [pull EXCEPT ![p].todo = @ \ {f},
                               ![p].want = IF model.files[f] = "whole" THEN @ ELSE @ \cup {f}]
    /\ UNCHANGED <<local, remote, model, remove, torn, pulls, half>>

PullFile(p) ==
    /\ pull[p].pc = "rsync"
    /\ \E f \in pull[p].want :
          /\ model' = [model EXCEPT !.files[f] = "whole"]
          /\ pull' = [pull EXCEPT ![p].want = @ \ {f}]
    /\ UNCHANGED <<local, remote, remove, torn, pulls, half>>

(* mutant: what has arrived so far is described *)
PullEarly(p) ==
    /\ pull[p].pc = "rsync"
    /\ pull' = [pull EXCEPT ![p].pc = "manifest"]
    /\ UNCHANGED <<local, remote, model, remove, torn, pulls, half>>

(* rsync returns 0 when it has seen every file, also those a removal took away behind it *)
PullSent(p) ==
    /\ pull[p].pc = "rsync" /\ pull[p].todo = {} /\ pull[p].want = {}
    /\ pull' = [pull EXCEPT ![p].pc = "manifest"]
    /\ UNCHANGED <<local, remote, model, remove, torn, pulls, half>>

(* build_manifest reads config.json and train_config.json; the weights it only counts *)
Manifest(p) ==
    /\ pull[p].pc = "manifest" /\ model.files["config"] = "whole" /\ model.files["train"] = "whole"
    /\ model' = [model EXCEPT !.manifest = TRUE]
    /\ torn' = (torn /\ ~pull[p].clean) /\ pull' = [pull EXCEPT ![p] = NoPull]
    /\ UNCHANGED <<local, remote, remove, pulls, half>>

PullFails(p) ==
    /\ Busy(p) /\ pull' = [pull EXCEPT ![p] = NoPull]
    /\ UNCHANGED <<local, remote, model, remove, torn, pulls, half>>

(* --partial leaves the piece of a file that is under way in the place of the file *)
PullBreaks(p) ==
    /\ \E f \in pull[p].want : model' = [model EXCEPT !.files[f] = "part"]
    /\ torn' = (torn \/ pull[p].beside)
    /\ pull' = [q \in Puller |-> IF q = p THEN NoPull ELSE [pull[q] EXCEPT !.clean = @ /\ ~pull[p].beside]]
    /\ UNCHANGED <<local, remote, remove, pulls, half>>

DeleteModel ==
    /\ half = "model" /\ ~remove /\ pulls < Pulls
    /\ model.manifest \/ \E f \in MFile : model.files[f] # "none"
    /\ remove' = TRUE /\ torn' = TRUE /\ pulls' = pulls + 1
    /\ pull' = [p \in Puller |-> [pull[p] EXCEPT !.clean = FALSE]]
    /\ UNCHANGED <<local, remote, model, half>>

(* rmtree: one entry after the other *)
Unlink ==
    /\ remove
    /\ \/ model.manifest /\ model' = [model EXCEPT !.manifest = FALSE]
       \/ \E f \in MFile : model.files[f] # "none" /\ model' = [model EXCEPT !.files[f] = "none"]
    /\ UNCHANGED <<local, remote, pull, remove, torn, pulls, half>>

(* It is through, or an entry cannot be removed, or the console is restarted *)
RemoveEnds ==
    /\ remove /\ remove' = FALSE
    /\ UNCHANGED <<local, remote, model, pull, torn, pulls, half>>

----------------------------------------------------------------------------
StoreNext ==
    \/ ResumeStart \/ ResumeSave \/ ResumeEnd \/ MoveToTrash
    \/ DeleteEpisode \/ EditClears \/ EditMove \/ EditWrite \/ EditDone \/ EditTidy \/ EditFails \/ EditTimeout
    \/ \E p \in Pusher :
          \/ Push(p) \/ Mkdir(p) \/ Rsync(p) \/ Sent(p) \/ Remove(p) \/ Removed(p) \/ Move(p)
          \/ PushFails(p)
    \/ \E p \in Puller :
          Pull(p) \/ PullLook(p) \/ PullFile(p) \/ PullSent(p) \/ Manifest(p) \/ PullFails(p) \/ PullBreaks(p)
    \/ LateRemove \/ DeleteModel \/ Unlink \/ RemoveEnds

StoreSpec == StoreInit /\ [][StoreNext]_storeVars

----------------------------------------------------------------------------
(* push_dataset receives beside and moves into place when all is there: a   *)
(* copy the training machine lists, once it was moved there and as long as  *)
(* no rm -rf has begun on it, is the dataset as one and the same push found *)
(* it, whichever command failed on whichever attempt; if the dataset was    *)
(* edited between pushes, each of its files is, and others that an attempt  *)
(* before the edit left in .incoming may lie beside them.                   *)
PushedIsWhole ==
    \A c \in final : c[0] # {} /\ ~cut =>
        \E s \in found : IF shrunk THEN \A f \in File : s[f] # {} => c[f] = s[f] ELSE c = s

(* No request destroys a demonstration: whatever was recorded is in a data  *)
(* file under data/, in the dataset, in its backup or in the trash, in the  *)
(* middle of an edit and after one that failed or was killed, unless the    *)
(* next edit finds the backup such an edit left: LeRobot removes it.        *)
NothingDestroyed ==
    \A e \in saved \ cleared : \E c \in dir \cup old \cup trash : e \in EpisodesIn(c)

(* A model the screen offers to run is one rsync brought completely, unless *)
(* since then a removal of it began, or a pull that ran beside another one  *)
(* broke off.                                                               *)
ListedModelIsWhole == model.manifest /\ ~torn => \A f \in MFile : model.files[f] = "whole"
=============================================================================
