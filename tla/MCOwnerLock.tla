---------------------------- MODULE MCOwnerLock ----------------------------
(* Three processes over two devices, every non-empty subset asked for: two *)
(* that want both race from either end, and the third wants what one of    *)
(* them has.                                                               *)
EXTENDS OwnerLock

MCDevice == 1..2
============================================================================
