--------------------------- MODULE OwnerLock_proof ---------------------------
(***************************************************************************)
(* What OwnerLock guarantees for any processes and devices.  The inductive *)
(* invariant says who has a flock at every point of acquire and release:   *)
(* Owned and Taking give exclusion; Kept says that no flock is left behind *)
(* but by a process whose metadata write failed.                           *)
(***************************************************************************)
EXTENDS OwnerLock, TLAPS

(* A device in the list `locks` is locked and names the process. *)
Owned == \A p \in Proc, d \in Device :
           d \in held[p] => flock[d] = p /\ meta[d] = p

(* The device whose metadata is being written is locked. *)
Taking == \A p \in Proc, d \in Device :
            pc[p] \in {"stamp", "write"} /\ IsNext(p, d) => flock[d] = p

Whole == \A p \in Proc : pc[p] = "holding" => want[p] \subseteq held[p]

Empty == \A p \in Proc :
           pc[p] \in {"idle", "refused", "released", "dead"} => held[p] = {}

Kept == \A p \in Proc, d \in Device : flock[d] = p =>
          \/ d \in held[p] \/ pc[p] \in {"unwind", "failed"}
          \/ pc[p] \in {"stamp", "write"} /\ IsNext(p, d)

IInv == TypeOK /\ Owned /\ Taking /\ Whole /\ Empty /\ Kept

-----------------------------------------------------------------------------
(* Every step keeps the types. *)
LEMMA TypeStep == TypeOK /\ [Next]_vars => TypeOK'
<1> SUFFICES ASSUME TypeOK, [Next]_vars PROVE TypeOK'
  OBVIOUS
<1> USE ProcAssumption DEF TypeOK, Step, Freed, Busy, IsNext
<1>1. ASSUME NEW p \in Proc, NEW D \in SUBSET Device \ {{}}, Begin(p, D) PROVE TypeOK'
  BY <1>1 DEF Begin
<1>2. ASSUME NEW p \in Proc, NEW d \in Device,
             Lock(p, d) \/ Conflict(p, d) \/ Truncate(p, d) \/ ReleaseOne(p, d)
      PROVE  TypeOK'
  BY <1>2 DEF Lock, Conflict, Truncate, ReleaseOne
<1>3. ASSUME NEW p \in Proc, NEW d \in Device, Write(p, d) PROVE TypeOK'
  BY <1>3 DEF Write
<1>4. ASSUME NEW p \in Proc, NEW d \in Device, WriteFails(p, d) PROVE TypeOK'
  BY <1>4 DEF WriteFails
<1>5. ASSUME NEW p \in Proc, Refused(p) \/ Failed(p) \/ Released(p) \/ Release(p) PROVE TypeOK'
  BY <1>5 DEF Refused, Failed, Released, Release
<1>6. ASSUME NEW p \in Proc, Die(p) PROVE TypeOK'
  BY <1>6 DEF Die
<1>7. CASE UNCHANGED vars
  BY <1>7 DEF vars
<1> QED BY <1>1, <1>2, <1>3, <1>4, <1>5, <1>6, <1>7 DEF Next, Work

(* The state stays in its types: every action of acquire and release.      *)
THEOREM TypeCorrect == Spec => []TypeOK
<1>1. Init => TypeOK
  BY DEF Init, TypeOK, Busy
<1>2. TypeOK /\ [Next]_vars => TypeOK'
  BY TypeStep
<1> QED BY <1>1, <1>2, PTL DEF Spec

(* The devices are taken in one order, so the loop is at one device. *)
LEMMA NextIsUnique ==
  ASSUME TypeOK, NEW p \in Proc, NEW d \in Device, NEW e \in Device,
         IsNext(p, d), IsNext(p, e)
  PROVE  d = e
BY DeviceAssumption DEF IsNext, TypeOK

(* The invariant holds before anybody has asked for a device. *)
LEMMA InitIInv == Init => IInv
BY ProcAssumption DEF Init, IInv, TypeOK, Busy, Owned, Taking, Whole, Empty, Kept

(* Every step of every process keeps the invariant. *)
LEMMA StepIInv == IInv /\ [Next]_vars => IInv'
<1> SUFFICES ASSUME IInv, [Next]_vars PROVE IInv'
  OBVIOUS
<1>0. TypeOK'
  BY TypeStep DEF IInv
<1>1. ASSUME NEW p \in Proc, NEW D \in SUBSET Device \ {{}}, Begin(p, D) PROVE IInv'
  BY <1>0, <1>1 DEF Begin, Step, IInv, TypeOK, Owned, Taking, Whole, Empty, Kept, IsNext
<1>2. ASSUME NEW p \in Proc, NEW d \in Device, Lock(p, d) PROVE IInv'
  <2> USE <1>0, <1>2, ProcAssumption DEF Lock, Step, IInv, TypeOK, IsNext
  <2>1. Owned'  BY DEF Owned
  <2>2. Taking'
    BY NextIsUnique DEF Taking
  <2>3. Whole' /\ Empty'  BY DEF Whole, Empty
  <2>4. Kept'  BY DEF Kept
  <2> QED BY <2>1, <2>2, <2>3, <2>4
<1>3. ASSUME NEW p \in Proc, NEW d \in Device, Conflict(p, d) PROVE IInv'
  BY <1>0, <1>3 DEF Conflict, Step, IInv, TypeOK, Owned, Taking, Whole, Empty, Kept, IsNext
<1>4. ASSUME NEW p \in Proc, NEW d \in Device, Truncate(p, d) PROVE IInv'
  <2> USE <1>0, <1>4, ProcAssumption DEF Truncate, Step, IInv, TypeOK, IsNext
  <2>1. flock[d] = p  BY DEF Taking
  <2>2. Owned'  BY <2>1 DEF Owned
  <2>3. Taking' /\ Whole' /\ Empty'  BY DEF Taking, Whole, Empty
  <2>4. Kept'  BY DEF Kept
  <2> QED BY <2>2, <2>3, <2>4
<1>5. ASSUME NEW p \in Proc, NEW d \in Device, Write(p, d) PROVE IInv'
  <2> USE <1>0, <1>5, ProcAssumption DEF Write, IInv, TypeOK, IsNext
  <2>1. flock[d] = p  BY DEF Taking
  <2>2. Owned'  BY <2>1 DEF Owned
  <2>3. Taking'  BY DEF Taking
  <2>4. Whole' /\ Empty'  BY DEF Whole, Empty
  <2>5. Kept'
    <3> SUFFICES ASSUME NEW q \in Proc, NEW e \in Device, flock'[e] = q
                 PROVE  \/ e \in held'[q] \/ pc'[q] \in {"unwind", "failed"}
                        \/ pc'[q] \in {"stamp", "write"} /\ IsNext(q, e)'
      BY DEF Kept
    <3>1. CASE q = p
      BY <3>1, NextIsUnique DEF Kept
    <3>2. CASE q # p
      BY <3>2 DEF Kept
    <3> QED BY <3>1, <3>2
  <2> QED BY <2>2, <2>3, <2>4, <2>5
<1>6. ASSUME NEW p \in Proc, NEW d \in Device, WriteFails(p, d) PROVE IInv'
  <2> USE <1>0, <1>6, ProcAssumption DEF WriteFails, IInv, TypeOK, IsNext
  <2>1. flock[d] = p  BY DEF Taking
  <2>2. Owned'  BY <2>1 DEF Owned
  <2>3. Taking' /\ Whole' /\ Empty'  BY DEF Taking, Whole, Empty
  <2>4. Kept'  BY DEF Kept
  <2> QED BY <2>2, <2>3, <2>4
<1>7. ASSUME NEW p \in Proc, NEW d \in Device, ReleaseOne(p, d) PROVE IInv'
  <2> USE <1>0, <1>7, ProcAssumption DEF ReleaseOne, IInv, TypeOK, IsNext, IsLast, Freed
  <2>1. Owned' /\ Taking'  BY DEF Owned, Taking
  <2>2. Whole' /\ Empty'  BY DEF Whole, Empty
  <2>3. Kept'  BY DEF Kept
  <2> QED BY <2>1, <2>2, <2>3
<1>8. ASSUME NEW p \in Proc, Refused(p) \/ Failed(p) \/ Released(p) \/ Release(p) PROVE IInv'
  BY <1>0, <1>8 DEF Refused, Failed, Released, Release, Step, IInv, TypeOK, Owned, Taking, Whole,
     Empty, Kept, IsNext
<1>9. ASSUME NEW p \in Proc, Die(p) PROVE IInv'
  <2> USE <1>0, <1>9, ProcAssumption DEF Die, IInv, TypeOK, IsNext, Freed
  <2>1. Owned' /\ Taking'  BY DEF Owned, Taking
  <2>2. Whole' /\ Empty'  BY DEF Whole, Empty
  <2>3. Kept'  BY DEF Kept
  <2> QED BY <2>1, <2>2, <2>3
<1>10. CASE UNCHANGED vars
  BY <1>10 DEF vars, IInv, TypeOK, Owned, Taking, Whole, Empty, Kept, IsNext
<1> QED
  BY <1>1, <1>2, <1>3, <1>4, <1>5, <1>6, <1>7, <1>8, <1>9, <1>10 DEF Next, Work

(* The strengthened invariant of the lock protocol, for all processes and devices. *)
THEOREM SpecIInv == Spec => []IInv
BY InitIInv, StepIInv, PTL DEF Spec

-----------------------------------------------------------------------------
(* A process whose acquire has returned has the kernel lock of every device *)
(* it asked for and is named by every lock file: DeviceLock.acquire writes *)
(* the metadata only between taking the flock and returning.               *)
THEOREM HoldersOwn == Spec => []HolderOwnsAll
<1>1. IInv => HolderOwnsAll
  BY DEF IInv, TypeOK, Owned, Whole, HolderOwnsAll
<1> QED BY <1>1, SpecIInv, PTL

(* A refused or released process is left with no flock: the clean-up of    *)
(* DeviceLockSet.acquire gives back all that the loop took.                *)
THEOREM NothingIsKept == Spec => []NothingKept
<1>1. IInv => NothingKept
  BY DEF IInv, TypeOK, Kept, Empty, NothingKept
<1> QED BY <1>1, SpecIInv, PTL

(* The locks implement ExclusiveGrants: the step in which acquire returns   *)
(* is a Grant, the first step of a release or a death is a Revoke.         *)
THEOREM ImplementsGrants == Spec => GrantsImplemented
<1> DEFINE grant == [p \in Proc |-> IF pc[p] = "holding" THEN want[p] ELSE {}]
<1>1. Init => Grants!Init
  BY DEF Init, Grants!Init
<1>2. IInv /\ [Next]_vars => [Grants!Next]_grant
  <2> SUFFICES ASSUME IInv, [Next]_vars PROVE Grants!Next \/ grant' = grant
    OBVIOUS
  <2> USE DEF IInv, TypeOK, Grants!Next, Grants!Grant, Grants!Revoke
  <2>1. ASSUME NEW p \in Proc, NEW d \in Device, Write(p, d)
        PROVE  Grants!Next \/ grant' = grant
    <3> USE <2>1 DEF Write
    <3>1. CASE pc'[p] = "holding"
      <4>1. want[p] \subseteq held'[p] /\ held' = [held EXCEPT ![p] = held[p] \cup {d}]
        BY <3>1
      <4>2. flock[d] = p  BY DEF Taking
      <4>3. \A e \in want[p] : flock[e] = p  BY <4>1, <4>2 DEF Owned
      <4>4. \A q \in Proc : grant[q] \cap want[p] = {}
        BY <4>3 DEF Whole, Owned
      <4>5. grant[p] = {} /\ grant' = [grant EXCEPT ![p] = want[p]]
        BY <3>1
      <4> QED BY <4>4, <4>5
    <3>2. CASE pc'[p] # "holding"
      BY <3>2
    <3> QED BY <3>1, <3>2
  <2>2. ASSUME NEW p \in Proc, Release(p) \/ Die(p) PROVE Grants!Next \/ grant' = grant
    <3>1. grant' = [grant EXCEPT ![p] = {}]
      BY <2>2 DEF Release, Die, Step
    <3> QED BY <3>1
  <2>3. ASSUME NEW p \in Proc, NEW D \in SUBSET Device \ {{}}, Begin(p, D) PROVE grant' = grant
    BY <2>3 DEF Begin, Step
  <2>4. ASSUME NEW p \in Proc, NEW d \in Device,
               Lock(p, d) \/ Conflict(p, d) \/ Truncate(p, d) \/ WriteFails(p, d)
                 \/ ReleaseOne(p, d)
        PROVE  grant' = grant
    BY <2>4 DEF Lock, Conflict, Truncate, WriteFails, ReleaseOne, Step
  <2>5. ASSUME NEW p \in Proc, Refused(p) \/ Failed(p) \/ Released(p)
        PROVE  grant' = grant
    BY <2>5 DEF Refused, Failed, Released, Step
  <2>6. CASE UNCHANGED vars
    BY <2>6 DEF vars
  <2> QED BY <2>1, <2>2, <2>3, <2>4, <2>5, <2>6 DEF Next, Work
<1> QED BY <1>1, <1>2, SpecIInv, PTL DEF Spec, GrantsImplemented, Grants!Spec

(* Granting only free devices is enough for exclusion, whatever the owners *)
(* and devices, so that the implementation of ExclusiveGrants is all there *)
(* is to show (ADR 0003).                                                  *)
THEOREM GrantsAreExclusive == Grants!Spec => [](Grants!GrantType /\ Grants!Exclusive)
<1> DEFINE grant == [p \in Proc |-> IF pc[p] = "holding" THEN want[p] ELSE {}]
<1>1. Grants!Init => Grants!GrantType /\ Grants!Exclusive
  BY DEF Grants!Init, Grants!GrantType, Grants!Exclusive
<1>2. Grants!GrantType /\ Grants!Exclusive /\ [Grants!Next]_grant => (Grants!GrantType /\ Grants!Exclusive)'
  <2> SUFFICES ASSUME Grants!GrantType, Grants!Exclusive, Grants!Next \/ UNCHANGED grant
               PROVE  Grants!GrantType' /\ Grants!Exclusive'
    OBVIOUS
  <2> USE DEF Grants!GrantType, Grants!Exclusive
  <2>1. ASSUME NEW o \in Proc, Grants!Revoke(o) PROVE Grants!GrantType' /\ Grants!Exclusive'
    BY <2>1 DEF Grants!Revoke
  <2>2. ASSUME NEW o \in Proc, NEW D \in SUBSET Device, Grants!Grant(o, D)
        PROVE  Grants!GrantType' /\ Grants!Exclusive'
    BY <2>2 DEF Grants!Grant
  <2>3. CASE UNCHANGED grant
    BY <2>3
  <2> QED BY <2>1, <2>2, <2>3 DEF Grants!Next
<1> QED BY <1>1, <1>2, PTL DEF Grants!Spec

(* No device is granted to two processes, whoever dies or fails meanwhile.  *)
THEOREM NoTwoHolders == Spec => []Grants!Exclusive
BY ImplementsGrants, GrantsAreExclusive, PTL DEF GrantsImplemented

-----------------------------------------------------------------------------
(* Why the order of the devices suffices: what a process has is below what *)
(* it has still to take, so who refuses another is further than it was.    *)
Sorted == \A p \in Proc : pc[p] \in {"acquire", "stamp", "write"} =>
            /\ held[p] \subseteq want[p]
            /\ \A d \in held[p], e \in want[p] \ held[p] : d < e

Healthy == \A p \in Proc : pc[p] \notin {"unwind", "failed", "dead"}

Refusal == \E p \in Proc : pc[p] \in {"rollback", "refused"}

Won == \E p \in Proc : pc[p] \in {"holding", "release", "released"}

(* A process on its way that has a device above all that the refused still have. *)
Foremost(q, d) ==
  /\ pc[q] \in {"acquire", "stamp", "write"} /\ flock[d] = q
  /\ \A p \in Proc, e \in Device : pc[p] = "rollback" /\ e \in held[p] => e < d

(* Among processes that neither died nor failed to write, somebody has won or is foremost. *)
SomeoneAhead ==
  Healthy /\ Refusal => Won \/ \E q \in Proc, d \in Device : Foremost(q, d)

(* The loop over the sorted devices takes the smallest that is missing (DeviceLockSet.acquire). *)
LEMMA SortedStep == IInv /\ Sorted /\ [Next]_vars => Sorted'
<1> SUFFICES ASSUME IInv, Sorted, [Next]_vars PROVE Sorted'
  OBVIOUS
<1> USE DeviceAssumption DEF IInv, TypeOK, Sorted, Step
<1>1. ASSUME NEW p \in Proc, NEW D \in SUBSET Device \ {{}}, Begin(p, D) PROVE Sorted'
  BY <1>1 DEF Begin, Empty
<1>2. ASSUME NEW p \in Proc, NEW d \in Device, Write(p, d) PROVE Sorted'
  BY <1>2 DEF Write, IsNext
<1>3. ASSUME NEW p \in Proc, NEW d \in Device,
             Lock(p, d) \/ Conflict(p, d) \/ Truncate(p, d) \/ WriteFails(p, d) \/ ReleaseOne(p, d)
      PROVE  Sorted'
  BY <1>3 DEF Lock, Conflict, Truncate, WriteFails, ReleaseOne
<1>4. ASSUME NEW p \in Proc, Refused(p) \/ Failed(p) \/ Released(p) \/ Release(p) \/ Die(p)
      PROVE  Sorted'
  BY <1>4 DEF Refused, Failed, Released, Release, Die
<1>5. CASE UNCHANGED vars
  BY <1>5 DEF vars
<1> QED BY <1>1, <1>2, <1>3, <1>4, <1>5 DEF Next, Work

(* Nobody who died or failed works on (Die, WriteFails). *)
LEMMA HealthyBefore == ASSUME TypeOK, [Next]_vars, Healthy' PROVE Healthy
<1> SUFFICES ASSUME NEW q \in Proc, pc[q] \in {"unwind", "failed", "dead"}
             PROVE  pc'[q] \in {"unwind", "failed", "dead"}
  BY DEF Healthy
<1>1. CASE UNCHANGED vars
  BY <1>1 DEF vars
<1>2. ASSUME NEW p \in Proc,
             (\E D \in SUBSET Device \ {{}} : Begin(p, D)) \/ Work(p) \/ Release(p) \/ Die(p)
      PROVE  pc'[q] \in {"unwind", "failed", "dead"}
  BY <1>2 DEF TypeOK, Work, Step, Begin, Lock, Conflict, Truncate, Write, WriteFails, ReleaseOne,
     Refused, Failed, Released, Release, Die
<1> QED BY <1>1, <1>2 DEF Next

(* Who refuses another is ahead of it: won, foremost, or refused behind a foremost (Conflict). *)
LEMMA ConflictStep ==
  ASSUME IInv, Sorted, Healthy, SomeoneAhead, NEW p \in Proc, NEW f \in Device, Conflict(p, f)
  PROVE  SomeoneAhead'
<1> USE DeviceAssumption, ProcAssumption DEF IInv, TypeOK, Conflict, Step
<1>1. PICK x \in Proc : flock[f] = x /\ x # p
  BY DEF IsNext, Kept, Owned
<1>2. \A e \in held[p] : e \in Device /\ e < f
  BY DEF Sorted, IsNext
<1>3. CASE Won
  BY <1>3 DEF Won, SomeoneAhead
<1>4. CASE ~Won
  <2>1. pc[x] \in {"acquire", "stamp", "write", "rollback"}
    BY <1>1, <1>4 DEF Won, Healthy, Busy, Kept, Empty
  <2>2. CASE \E q \in Proc, d \in Device : Foremost(q, d) /\ (f < d)
    <3>1. PICK q \in Proc, d \in Device : Foremost(q, d) /\ f < d
      BY <2>2
    <3>2. q # p
      BY <1>2, <3>1 DEF Foremost, Kept, IsNext
    <3>3. Foremost(q, d)'
      BY <1>2, <3>1, <3>2 DEF Foremost
    <3> QED BY <3>3 DEF SomeoneAhead
  <2>3. CASE ~\E q \in Proc, d \in Device : Foremost(q, d) /\ (f < d)
    <3>1. \A q \in Proc, e \in Device : pc[q] = "rollback" /\ e \in held[q] => e < f
      BY <1>4, <2>3 DEF SomeoneAhead, Foremost, Refusal
    <3>2. pc[x] # "rollback"
      BY <1>1, <3>1 DEF Kept
    <3>3. Foremost(x, f)'
      BY <1>1, <1>2, <2>1, <3>1, <3>2 DEF Foremost
    <3> QED BY <3>3 DEF SomeoneAhead
  <2> QED BY <2>2, <2>3
<1> QED BY <1>3, <1>4

(* Every other step leaves who is ahead where it was, or lets it win (DeviceLockSet.acquire). *)
LEMMA AheadStep == IInv /\ Sorted /\ SomeoneAhead /\ [Next]_vars => SomeoneAhead'
<1> SUFFICES ASSUME IInv, Sorted, SomeoneAhead, [Next]_vars, Healthy', Refusal' PROVE SomeoneAhead'
  BY DEF SomeoneAhead
<1>0. Healthy
  BY HealthyBefore DEF IInv
<1> USE <1>0 DEF IInv, TypeOK, Step
<1>1. ASSUME NEW p \in Proc, NEW d \in Device, Conflict(p, d) PROVE SomeoneAhead'
  BY <1>1, ConflictStep
<1>2. ASSUME NEW p \in Proc, NEW D \in SUBSET Device \ {{}}, Begin(p, D) PROVE SomeoneAhead'
  BY <1>2 DEF Begin, SomeoneAhead, Refusal, Won, Foremost
<1>3. ASSUME NEW p \in Proc, NEW d \in Device, Lock(p, d) \/ Truncate(p, d) PROVE SomeoneAhead'
  BY <1>3, ProcAssumption DEF Lock, Truncate, SomeoneAhead, Refusal, Won, Foremost
<1>4. ASSUME NEW p \in Proc, NEW d \in Device, Write(p, d) PROVE SomeoneAhead'
  BY <1>4 DEF Write, SomeoneAhead, Refusal, Won, Foremost
<1>5. ASSUME NEW p \in Proc, NEW d \in Device, ReleaseOne(p, d) PROVE SomeoneAhead'
  <2>1. pc' = pc /\ \A q \in Proc : held'[q] \subseteq held[q]
    BY <1>5 DEF ReleaseOne
  <2>2. \A q \in Proc, e \in Device : q # p /\ flock[e] = q => flock'[e] = q
    BY <1>5, ProcAssumption DEF ReleaseOne, Freed
  <2>3. pc[p] \in {"rollback", "unwind", "release"}
    BY <1>5 DEF ReleaseOne
  <2> QED BY <2>1, <2>2, <2>3 DEF SomeoneAhead, Refusal, Won, Foremost
<1>6. ASSUME NEW p \in Proc, Refused(p) \/ Released(p) \/ Release(p) PROVE SomeoneAhead'
  BY <1>6 DEF Refused, Released, Release, SomeoneAhead, Refusal, Won, Foremost
<1>7. ASSUME NEW p \in Proc,
             Failed(p) \/ Die(p) \/ \E d \in Device : WriteFails(p, d)
      PROVE  ~Healthy'
  BY <1>7 DEF Failed, Die, WriteFails, Healthy
<1>8. CASE UNCHANGED vars
  BY <1>8 DEF vars, SomeoneAhead, Healthy, Refusal, Won, Foremost
<1> QED BY <1>1, <1>2, <1>3, <1>4, <1>5, <1>6, <1>7, <1>8 DEF Next, Work

(* Competitors cannot refuse each other: when every attempt has come to its *)
(* end and nobody died or failed to write its metadata, somebody got all it *)
(* asked for, however many devices were asked for by however many processes *)
(* (the sorted loop of DeviceLockSet.acquire).                              *)
THEOREM OrderLetsSomeoneWin == Spec => []SomeoneWins
<1>1. Init => Sorted /\ SomeoneAhead
  BY DEF Init, Sorted, SomeoneAhead, Refusal
<1>2. Spec => [](Sorted /\ SomeoneAhead)
  <2>1. IInv /\ (Sorted /\ SomeoneAhead) /\ [Next]_vars => (Sorted /\ SomeoneAhead)'
    BY SortedStep, AheadStep
  <2> QED BY <1>1, <2>1, SpecIInv, PTL DEF Spec
<1>3. SomeoneAhead => SomeoneWins
  BY DEF SomeoneAhead, SomeoneWins, Healthy, Refusal, Won, Foremost
<1> QED BY <1>2, <1>3, PTL
=============================================================================
