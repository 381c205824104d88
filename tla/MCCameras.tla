----------------------------- MODULE MCCameras -----------------------------
(* Two streams of one camera, and one start of a mode at a time. *)
EXTENDS Cameras
=============================================================================
