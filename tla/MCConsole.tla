----------------------------- MODULE MCConsole -----------------------------
(* Two requests that start modes at the same time, a phone and the Mac. *)
EXTENDS Console, TLC
CONSTANTS a, b
Symmetry == Permutations({a, b})
=============================================================================
