-------------------------- MODULE MCControlRoomV1 --------------------------
(* Instances of ControlRoomV1 for TLC.                                     *)
EXTENDS ControlRoomV1
=============================================================================
