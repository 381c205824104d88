---------------------------- MODULE MCPerception ----------------------------
(* Two cameras, one view for a lens, one pose for a place *)
EXTENDS Perception, TLC
CONSTANTS scene, wrist
Symmetry == Permutations({scene, wrist})
=============================================================================
