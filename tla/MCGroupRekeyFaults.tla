------------------------- MODULE MCGroupRekeyFaults -------------------------
(* Instances of GroupRekeyFaults for TLC.                                    *)
EXTENDS GroupRekeyFaults, TLC
=============================================================================
