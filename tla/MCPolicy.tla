------------------------------ MODULE MCPolicy ------------------------------
(* Two trials in a row: the watcher of the first may act while the second  *)
(* one is started, driven or stopped.                                      *)
EXTENDS PolicyManager

MCModes == {[remote |-> TRUE, home |-> TRUE], [remote |-> FALSE, home |-> FALSE]}
=============================================================================
