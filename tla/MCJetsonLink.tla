---------------------------- MODULE MCJetsonLink ----------------------------
(* The Jetson link on a small instance: two epochs or more, so that a new    *)
(* one can begin at every point of an earlier one's handshake.              *)
EXTENDS JetsonTiming
=============================================================================
