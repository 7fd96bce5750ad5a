-------------------------- MODULE MCSecurityFlow --------------------------
(* Instances of SecurityFlow for TLC.                                      *)
EXTENDS SecurityFlow
=============================================================================
