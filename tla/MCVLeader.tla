----------------------------- MODULE MCVLeader -----------------------------
(* Two people, a phone and a Mac, over an arm with three poses; the checks *)
(* of the ladder's arithmetic are evaluated with it.                       *)
EXTENDS VLeader, LadderChecks

CONSTANTS phone, mac
============================================================================
