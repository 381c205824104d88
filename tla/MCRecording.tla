---------------------------- MODULE MCRecording ----------------------------
(* Recording with two episodes of at most two ticks. *)
EXTENDS Recording, QualityChecks
============================================================================
