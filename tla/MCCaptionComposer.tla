-------------------------- MODULE MCCaptionComposer --------------------------
(* Small instances of CaptionComposer for TLC.  With MCOrder segment 2 belongs *)
(* before 1 in the transcript and 3 after it: 2 may be inserted before what is *)
(* shown already, 3 follows, and both together may replace 1.                  *)
EXTENDS CaptionComposer

MCOrder(s) == CASE s = 1 -> 2 [] s = 2 -> 1 [] s = 3 -> 3
MCInOrder(s) == s

MCOneConfig == {[hold |-> 2, layout |-> 1]}
MCTwoConfigs == {[hold |-> 2, layout |-> 1], [hold |-> 1, layout |-> 2]}
=============================================================================
