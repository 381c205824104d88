--------------------------- MODULE ExclusiveGrants ---------------------------
(***************************************************************************)
(* What the owner locks promise (ADR 0003): an owner is granted a set of   *)
(* hardware devices all at once or not at all, two owners are never        *)
(* granted the same device, and a grant is given back whole.  How the      *)
(* kernel locks, the descriptors and the job records achieve it is left    *)
(* to the modules that implement this one (OwnerLock, HubqJobs).           *)
(***************************************************************************)
CONSTANTS Owner, Device

VARIABLE grant          \* the devices each owner may drive; {} is "none"

Init == grant = [o \in Owner |-> {}]

Grant(o, D) ==
  /\ grant[o] = {}
  /\ \A p \in Owner : grant[p] \cap D = {}
  /\ grant' = [grant EXCEPT ![o] = D]

Revoke(o) == grant' = [grant EXCEPT ![o] = {}]

Next == \E o \in Owner : Revoke(o) \/ \E D \in SUBSET Device : Grant(o, D)

Spec == Init /\ [][Next]_grant

-----------------------------------------------------------------------------
GrantType == grant \in [Owner -> SUBSET Device]

(* No device is granted to two owners: the claim of ADR 0003 about every   *)
(* program of the repository that opens a serial port or a camera.         *)
Exclusive == \A o, p \in Owner : o # p => grant[o] \cap grant[p] = {}
=============================================================================
