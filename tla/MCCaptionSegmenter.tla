-------------------------- MODULE MCCaptionSegmenter --------------------------
(* A small instance of CaptionSegmenter for TLC.  A behaviour keeps to        *)
(*   - sentences that change, go and come back, two spaces in a row, a point  *)
(*     between digits, and a text of more sentences than there is room for,   *)
(*     which is also longer than MaxSource;                                   *)
(*   - or to words, where nothing is cut before it has been open for long and *)
(*     a segment may end inside a later word or before a mark.                *)
EXTENDS CaptionSegmenter

MCSentences ==
    { << "a", "a", ".", " ", " ", "b" >>,
      << "a", "a", ".", " ", "c" >>,
      << "b", "a", "." >>,
      << "c", ".", " ", "a" >>,
      << "c", ".", " ", "1", ".", "1" >>,
      << "a", ".", " ", "b", ".", " ", "a", "a" >> }

MCWords ==
    { << "b", "a", " ", "c", " ", "a" >>,
      << "b", "a", " ", "c", ".", " ", "1" >>,
      << "b", "a", "." >>,
      << "b", "a", "c" >> }

MCVocabularies == {MCSentences, MCWords}
MCDigits == {"1"}
MCLatin == {"a", "b", "c"} \cup MCDigits
=============================================================================
