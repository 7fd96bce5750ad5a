--------------------------- MODULE MCStatusReport ---------------------------
(* Instances of StatusReport for TLC.                                      *)
EXTENDS StatusReport
=============================================================================
