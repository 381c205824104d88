---------------------------- MODULE SafetyStates ----------------------------
(***************************************************************************)
(* What SAFETY.md asks of everything that commands the follower: its model *)
(* of the states SAFE, READY, ACTIVE, HOLD and FAULT, and its invariants 1 *)
(* and 7.  At most one command authority exists; motion begins with a      *)
(* command of that authority and never in HOLD or FAULT; and who commands  *)
(* has to match the arm's pose first, anew after every stop and for every  *)
(* change of the authority.  How a thread, a lease and a bus achieve it is *)
(* left to the module that implements this one (VLeader).                  *)
(***************************************************************************)
CONSTANTS Operator, None

VARIABLES
  mode,       \* the state, with STOPPED when nothing runs
  authority,  \* who may command the arm, if anybody
  matched     \* whether that one has commanded the arm from where it is

standing == <<mode, authority, matched>>

Halted == {"HOLD", "FAULT"}

Init == mode = "STOPPED" /\ authority = None /\ matched = FALSE

(* Authority is given to one when nobody has it. *)
Entrust(o) ==
  /\ authority = None
  /\ authority' = o /\ matched' = FALSE
  /\ UNCHANGED mode

Dismiss == authority' = None /\ matched' = FALSE /\ UNCHANGED mode

(* SAFETY.md has SAFE refuse commands, too.  The code asks whether there is *)
(* torque, which comes on before the state leaves SAFE (_submit, _loop).    *)
Command(o) ==
  /\ authority = o /\ mode \notin Halted \cup {"STOPPED"}
  /\ mode' = "ACTIVE" /\ matched' = TRUE
  /\ UNCHANGED authority

Halt ==
  /\ mode # "STOPPED" /\ mode' \in Halted
  /\ matched' = FALSE /\ authority' \in {authority, None}

(* Somebody starts, arms, resumes or releases the torque; to start over    *)
(* something that has failed takes the authority with it.                  *)
Prepare ==
  /\ mode' \in {"SAFE", "READY"}
  /\ \/ UNCHANGED <<authority, matched>>
     \/ authority' = None /\ matched' = FALSE

Stop == mode' = "STOPPED" /\ authority' \in {authority, None} /\ matched' = FALSE

Next ==
  \/ Dismiss \/ Halt \/ Prepare \/ Stop
  \/ \E o \in Operator : Entrust(o) \/ Command(o)

Spec == Init /\ [][Next]_standing

-----------------------------------------------------------------------------
(* Whatever was commanded before a stop, or by somebody else, gives nobody *)
(* the right to go on: neither a stopped arm nor one without an authority  *)
(* is matched (SAFETY.md, invariant 7).                                    *)
NothingGoesOn == mode \in Halted \cup {"STOPPED"} \/ authority = None => ~matched
=============================================================================
