--------------------------- MODULE MCSurfaceQueue ---------------------------
(* Instances of SurfaceQueue for TLC.                                      *)
EXTENDS SurfaceQueue
=============================================================================
