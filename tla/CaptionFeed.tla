------------------------------ MODULE CaptionFeed ------------------------------
(***************************************************************************)
(* What whoever takes caption segments over may rely on, as caption-segment *)
(* .hpp and the comments of caption-segmenter.hpp promise it: an id is never *)
(* used twice, a source revision of a segment is one text, the segments on  *)
(* offer have different places in the transcript, the ones that come for    *)
(* others name exactly those that go with them, and a final segment only    *)
(* goes.  Nothing here says how a text is cut.                              *)
(***************************************************************************)
EXTENDS Naturals

VARIABLES
    shown,      \* the segments on offer, by id
    issued      \* the ids 1..issued have been used

feed == << shown, issued >>

None == [id \in {} |-> 0]

Init == shown = None /\ issued = 0

\* What a later offer of a segment may be.
Later(old, new) ==
    \/ new = old
    \/ /\ ~old.final
       /\ \/ new.rev = old.rev /\ new.text = old.text
          \/ new.rev = old.rev + 1 /\ new.text # old.text

\* One call: some of the segments go, some change, some are new.
Offer(before) ==
    LET going == DOMAIN before \ DOMAIN shown'
        fresh == DOMAIN shown' \ DOMAIN before
    IN  /\ issued' \in Nat /\ issued' >= issued
        /\ \A id \in fresh :
            /\ issued < id /\ id <= issued'
            /\ shown'[id].rev = 1
            /\ shown'[id].replaces \in {{}, going}
        /\ \A id \in DOMAIN shown' \ fresh : Later(before[id], shown'[id])
        /\ \A id, other \in DOMAIN shown' :
            id # other => shown'[id].order # shown'[other].order

\* A new utterance starts without the segments of the last one.
Next == Offer(shown) \/ Offer(None)

Spec == Init /\ [][Next]_feed
=============================================================================
