----------------------------- MODULE MCFrameSync -----------------------------
EXTENDS FrameSync

(* Two frames without A5 5A inside, whose ends make a search see A5 A5 5A, *)
(* and one that holds it, so that a receiver can begin in its middle.      *)
MCFrames == {<<"A5", "5A", "x", "A5">>, <<"A5", "5A", "5A", "x">>, <<"A5", "5A", "A5", "5A">>}
=============================================================================
