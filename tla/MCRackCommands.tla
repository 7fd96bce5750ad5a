--------------------------- MODULE MCRackCommands ---------------------------
(* Instances of RackCommands for TLC.                                      *)
EXTENDS RackCommands, TLC
RackSymmetry == Permutations(Racks)
=============================================================================
