------------------------------ MODULE OwnerLock ------------------------------
(***************************************************************************)
(* soarm_console/owner_lock.py: a process reserves a set of devices by     *)
(* taking one advisory flock per device in the order of the canonical      *)
(* names, without blocking, and gives everything back when one of them is  *)
(* taken.  The kernel lock says who owns a device; the JSON in the lock    *)
(* file only describes the owner, and is written after the lock is taken.  *)
(*                                                                         *)
(* A device is a number: its place in the order of canonical names.  One   *)
(* member of Proc is one life of one process, with one DeviceLockSet.      *)
(***************************************************************************)
EXTENDS Naturals, FiniteSets

CONSTANTS
  Proc,        \* processes that cooperate through the lock directory
  Device,      \* canonical devices, numbered in sorted order
  Free,        \* no process has the flock
  Blank        \* a lock file that holds no JSON object

ASSUME DeviceAssumption == Device \subseteq Nat
ASSUME ProcAssumption == Free \notin Proc /\ Blank \notin Proc

VARIABLES
  pc,      \* where the process is in DeviceLockSet.acquire / release
  want,    \* the canonical devices it asked for
  held,    \* the devices in its list `locks`
  flock,   \* the kernel: whose open file description has the flock
  meta     \* the lock file: the process its JSON names, or Blank

vars == <<pc, want, held, flock, meta>>

Busy == {"acquire", "stamp", "write", "rollback", "unwind", "release"}

TypeOK ==
  /\ pc \in [Proc -> Busy \cup {"idle", "holding", "refused", "failed", "released", "dead"}]
  /\ want \in [Proc -> SUBSET Device]
  /\ held \in [Proc -> SUBSET Device]
  /\ flock \in [Device -> Proc \cup {Free}]
  /\ meta \in [Device -> Proc \cup {Blank}]

Init ==
  /\ pc = [p \in Proc |-> "idle"]
  /\ want = [p \in Proc |-> {}]
  /\ held = [p \in Proc |-> {}]
  /\ flock = [d \in Device |-> Free]
  /\ meta = [d \in Device |-> Blank]

Step(p, from, to) == pc[p] = from /\ pc' = [pc EXCEPT ![p] = to]

IsNextUnsorted(p, d) == d \in want[p] \ held[p]

(* The device the loop over `sorted(...)` is at. *)
IsNext(p, d) == /\ d \in want[p] \ held[p]
                /\ \A e \in want[p] \ held[p] : d <= e

(* The device `reversed(locks)` is at. *)
IsLast(p, d) == d \in held[p] /\ \A e \in held[p] : e <= d

Freed(D, p) == [d \in Device |-> IF d \in D /\ flock[d] = p THEN Free ELSE flock[d]]

-----------------------------------------------------------------------------
Begin(p, D) ==
  /\ Step(p, "idle", "acquire")
  /\ want' = [want EXCEPT ![p] = D]
  /\ UNCHANGED <<held, flock, meta>>

(* mutant: the owner is written without asking the kernel *)
LockUnchecked(p, d) ==
  /\ Step(p, "acquire", "stamp")
  /\ IsNext(p, d)
  /\ flock' = IF flock[d] = Free THEN [flock EXCEPT ![d] = p] ELSE flock
  /\ UNCHANGED <<want, held, meta>>

(* flock(LOCK_EX | LOCK_NB) succeeds. *)
Lock(p, d) ==
  /\ Step(p, "acquire", "stamp")
  /\ IsNext(p, d) /\ flock[d] = Free
  /\ flock' = [flock EXCEPT ![d] = p]
  /\ UNCHANGED <<want, held, meta>>

(* It raises BlockingIOError: only this descriptor is closed here. *)
Conflict(p, d) ==
  /\ Step(p, "acquire", "rollback")
  /\ IsNext(p, d) /\ flock[d] # Free
  /\ UNCHANGED <<want, held, flock, meta>>

(* os.ftruncate: the file is empty until the write below. *)
Truncate(p, d) ==
  /\ Step(p, "stamp", "write")
  /\ IsNext(p, d)
  /\ meta' = [meta EXCEPT ![d] = Blank]
  /\ UNCHANGED <<want, held, flock>>

Write(p, d) ==
  /\ pc[p] = "write" /\ IsNext(p, d)
  /\ meta' = [meta EXCEPT ![d] = p]
  /\ held' = [held EXCEPT ![p] = @ \cup {d}]
  /\ pc' = [pc EXCEPT ![p] = IF want[p] \subseteq held'[p] THEN "holding" ELSE "acquire"]
  /\ UNCHANGED <<want, flock>>

(* ftruncate, write or fsync raises: the descriptor that has just taken    *)
(* its flock is not in `locks`, so the caller's clean-up does not see it.  *)
WriteFails(p, d) ==
  /\ pc[p] \in {"stamp", "write"} /\ IsNext(p, d)
  /\ pc' = [pc EXCEPT ![p] = "unwind"]
  /\ \/ meta' = meta
     \/ pc[p] = "write" /\ meta' = [meta EXCEPT ![d] = p]    \* fsync raised
  /\ UNCHANGED <<want, held, flock>>

(* One turn of `for lock in reversed(locks): lock.release()`. *)
ReleaseOne(p, d) ==
  /\ pc[p] \in {"rollback", "unwind", "release"} /\ IsLast(p, d)
  /\ flock' = Freed({d}, p)
  /\ held' = [held EXCEPT ![p] = @ \ {d}]
  /\ UNCHANGED <<pc, want, meta>>

(* mutant: the devices taken before the refused one are kept *)
RefusedKeeping(p) ==
  /\ Step(p, "rollback", "refused")
  /\ UNCHANGED <<want, held, flock, meta>>

(* DeviceLockError to the caller. *)
Refused(p) ==
  /\ held[p] = {} /\ Step(p, "rollback", "refused")
  /\ UNCHANGED <<want, held, flock, meta>>

(* OSError to the caller. *)
Failed(p) ==
  /\ held[p] = {} /\ Step(p, "unwind", "failed")
  /\ UNCHANGED <<want, held, flock, meta>>

Release(p) == Step(p, "holding", "release") /\ UNCHANGED <<want, held, flock, meta>>

Released(p) ==
  /\ held[p] = {} /\ Step(p, "release", "released")
  /\ UNCHANGED <<want, held, flock, meta>>

(* The process dies: the kernel closes every descriptor it has. *)
Die(p) ==
  /\ pc[p] # "dead"
  /\ pc' = [pc EXCEPT ![p] = "dead"]
  /\ flock' = Freed(Device, p)
  /\ held' = [held EXCEPT ![p] = {}]
  /\ UNCHANGED <<want, meta>>

Work(p) ==
  \/ \E d \in Device : \/ Lock(p, d) \/ Conflict(p, d) \/ Truncate(p, d)
                       \/ Write(p, d) \/ WriteFails(p, d) \/ ReleaseOne(p, d)
  \/ \/ Refused(p) \/ Failed(p) \/ Released(p)

Next == \E p \in Proc :
  \/ \E D \in SUBSET Device \ {{}} : Begin(p, D)
  \/ Work(p) \/ Release(p) \/ Die(p)

Spec == Init /\ [][Next]_vars

-----------------------------------------------------------------------------
(* A process that holds its set has the kernel lock of every device it     *)
(* asked for, and every one of those lock files names it: nobody writes    *)
(* into a lock file whose flock it has not taken (DeviceLock.acquire).     *)
HolderOwnsAll ==
  \A p \in Proc : pc[p] = "holding" =>
    \A d \in want[p] : flock[d] = p /\ meta[d] = p

(* All or nothing (ADR 0003): a process whose acquire was refused, or that *)
(* has released, is left with no flock at all.                             *)
NothingKept ==
  \A p \in Proc : pc[p] \in {"idle", "refused", "released", "dead"} =>
    \A d \in Device : flock[d] # p

(* What sorting the devices is for: when every attempt has come to its end *)
(* and nobody died, somebody got what it asked for; competitors cannot     *)
(* refuse each other.                                                      *)
SomeoneWins ==
  (/\ \A p \in Proc : pc[p] \in {"idle", "holding", "refused", "released"}
   /\ \E p \in Proc : pc[p] = "refused")
  => \E p \in Proc : pc[p] \in {"holding", "released"}

(* The locks implement the grants: a process is granted what it asked for  *)
(* from the moment acquire returns until it starts to release or dies.     *)
Grants == INSTANCE ExclusiveGrants WITH
  Owner <- Proc, grant <- [p \in Proc |-> IF pc[p] = "holding" THEN want[p] ELSE {}]

GrantsImplemented == Grants!Spec
=============================================================================
