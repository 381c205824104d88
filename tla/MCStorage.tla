----------------------------- MODULE MCStorage ------------------------------
(* Three episodes: one can be taken out and another one recorded after it. *)
(* Neither they nor the two requests that pull differ in anything.         *)
EXTENDS Storage, TLC
CONSTANTS first, second, third, one, again
Symmetry == Permutations(Ep) \cup Permutations(Puller)
=============================================================================
