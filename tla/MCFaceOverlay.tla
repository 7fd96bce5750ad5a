--------------------------- MODULE MCFaceOverlay ----------------------------
(* Instances of FaceOverlay for TLC.                                       *)
EXTENDS FaceOverlay
=============================================================================
