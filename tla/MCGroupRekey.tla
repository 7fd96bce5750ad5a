---------------------------- MODULE MCGroupRekey ----------------------------
(* The key change of the PC + Basys3 domain on a small instance: two randoms *)
(* are enough for an epoch's R to differ from the last, three for it to come *)
(* back only after another one.                                              *)
EXTENDS GroupRekeyInv, TLC

Symmetry == Permutations(Randoms)
=============================================================================
