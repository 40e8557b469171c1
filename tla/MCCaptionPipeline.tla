--------------------------- MODULE MCCaptionPipeline ---------------------------
(* Small instances of CaptionPipeline for TLC.  No single choice of bounds has  *)
(* every case and stays small, so a behaviour keeps to one of four:             *)
(*   - two segments, the first revised or replaced or followed by the second;  *)
(*   - three segments for two places, cut from final texts alone;              *)
(*   - one segment that is revised while both switches are moved;               *)
(*   - one segment with two pages and a longer hold, its retry and its turn of  *)
(*     the page, under two configurations.                                      *)
EXTENDS CaptionPipeline

MCInOrder(s) == s

Short == [hold |-> 1, layout |-> 1]
Long == [hold |-> 2, layout |-> 1]
MCConfigs == {Short, Long, [hold |-> 2, layout |-> 2]}

Two == [ids |-> {1, 2}, revised |-> {}, pages |-> 1, configs |-> {Short}, switches |-> {TRUE}]
MCRevised == [Two EXCEPT !.revised = {1}]
MCThree == [Two EXCEPT !.ids = {1, 2, 3}, !.switches = {FALSE}]
MCSwitched == [Two EXCEPT !.ids = {1}, !.revised = {1}, !.switches = BOOLEAN]
MCPages == [ids |-> {1}, revised |-> {1}, pages |-> 2, configs |-> MCConfigs \ {Short},
            switches |-> {TRUE}]

MCOneRevised == {[Two EXCEPT !.ids = {1}, !.revised = {1}, !.configs = {Long}]}

MCExplored == {MCRevised, MCThree, MCSwitched, MCPages}
=============================================================================
