---------------------- MODULE MCTranslationScheduler ----------------------
(* Small instances of TranslationScheduler for TLC; the .cfg files choose the *)
(* constants.  MaxQueued and MaxWaiting are small enough that both limits and *)
(* both reasons for exceeding them occur.                                     *)
EXTENDS TranslationScheduler

\* A second generation is worth exploring as long as a request of the first one is
\* still on the wire: without one it is like the first.
MCOutlived == generation = 2 => \E id \in running : id.gen = 1
===========================================================================
