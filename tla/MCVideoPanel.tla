--------------------------- MODULE MCVideoPanel ---------------------------
(* Instances of VideoPanel for TLC.                                        *)
EXTENDS VideoPanel
=============================================================================
