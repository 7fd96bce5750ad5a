--------------------------- MODULE MCSecureRouter ---------------------------
(* The router on a small instance: a FIFO that is soon full, and schedules   *)
(* and packets of a few clocks, of different lengths.                        *)
EXTENDS SecureRouter
=============================================================================
