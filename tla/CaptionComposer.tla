--------------------------- MODULE CaptionComposer ---------------------------
(***************************************************************************)
(* The reducer that decides what the caption box shows                     *)
(* (caption-composer.cpp).  Registered segments wait for their translation *)
(* and for their turn; one at a time owns the display slot, page by page.  *)
(* A segment that owns the slot and is replaced by new ones leaves its     *)
(* text there as a placeholder until the first of them is translated.  The *)
(* texts shown last stay in a rolling window, whose last lines are what    *)
(* the sink is given.                                                      *)
(*                                                                         *)
(* Every member function is one action: the session calls them under one   *)
(* lock.  What is abstracted:                                              *)
(*   - a translation is the number of pages it is wrapped to; whether a    *)
(*     corrected text agrees with what was shown already is a choice;      *)
(*   - absolute times are what the code computes from them: the age of a   *)
(*     waiting segment and, for the slot, the time since the page appeared,*)
(*     since its hold began and since its first page appeared.  Deadlines  *)
(*     always follow the configuration in force, as apply_config keeps     *)
(*     them; the clock does not run backwards;                             *)
(*   - the window is the keys of its chunks, oldest first;                 *)
(*   - keys of another generation are never in segments_, and ids are not  *)
(*     reused across generations (high_water_ survives the reset), so a    *)
(*     key is its segment id; 0 is no key.                                 *)
(* A frame published by tick is the slot after that tick.  The adapter for *)
(* the older interface (push_final, on_translated, on_failed, clear) only  *)
(* calls the operations below.                                             *)
(***************************************************************************)
EXTENDS Naturals, FiniteSets, Sequences

CONSTANTS
    SegIds,         \* segment ids the caller allocates
    Order(_),       \* the order_key of a segment, its place in the transcript
    Configs,        \* display configurations: hold_ms, and width and lines
    MaxRevision,    \* bound on the source revisions of a segment
    MaxPages,       \* bound on the pages of a translation
    MaxManaged,     \* kMaxManaged
    MaxWaiting,     \* kMaxWaiting
    MaxChunks,      \* kMaxWindowChunks
    MinPage,        \* the 1200 ms a page is shown at least, in clock ticks
    StaleAge,       \* kStaleBeforeDisplayMs, in clock ticks
    Lifetime        \* kSegmentLifetimeMs, in clock ticks

ASSUME IdsAssumption ==
    /\ SegIds \subseteq Nat \ {0} /\ IsFiniteSet(SegIds)
    /\ \A s \in SegIds : Order(s) \in Nat
    /\ Configs \subseteq [hold : Nat \ {0}, layout : Nat]
    /\ IsFiniteSet(Configs) /\ Configs # {}

ASSUME LimitsAssumption ==
    /\ MaxRevision \in Nat \ {0} /\ MaxPages \in Nat \ {0}
    /\ MaxManaged \in Nat /\ MaxWaiting \in Nat /\ MaxChunks \in Nat \ {0}
    /\ MinPage \in Nat /\ StaleAge \in Nat \ {0} /\ Lifetime \in Nat \ {0}

VARIABLES
    highWater,  \* high_water_
    segs,       \* segments_, indexed by segment id
    slot,       \* slot_
    window,     \* window_
    config,     \* cfg_
    pending     \* pending_config_, or NoConfig

vars == << highWater, segs, slot, window, config, pending >>

NoConfig == [hold |-> 0, layout |-> 0]
NoJob == [rev |-> 0, att |-> 0]
MaxHold == CHOOSE h \in {c.hold : c \in Configs} : \A c \in Configs : c.hold <= h

Displays == {"Absent", "Waiting", "Visible", "Retired"}
Jobs == [rev : 0..MaxRevision, att : {0, 1, 2}]

\* left is how many pages are still to be shown, the visible one included;
\* job is the one whose translation they are.
Segments ==
    [display : Displays, expected : Jobs, processed : BOOLEAN, final : BOOLEAN,
     job : Jobs, order : Nat, anchor : SegIds \cup {0}, index : 0..MaxPages,
     left : 0..MaxPages, ambiguous : BOOLEAN, age : 0..StaleAge]

Absent ==
    [display |-> "Absent", expected |-> NoJob, processed |-> FALSE, final |-> FALSE,
     job |-> NoJob, order |-> 0, anchor |-> 0, index |-> 0, left |-> 0,
     ambiguous |-> FALSE, age |-> 0]

\* leave is retire_after_minimum, dirty is replacement_dirty.
Slots ==
    [key : SegIds \cup {0}, final : BOOLEAN, placeholder : BOOLEAN, dirty : BOOLEAN,
     leave : BOOLEAN, page : 0..MinPage, hold : 0..MaxHold, life : 0..Lifetime]

NoSlot ==
    [key |-> 0, final |-> FALSE, placeholder |-> FALSE, dirty |-> FALSE,
     leave |-> FALSE, page |-> 0, hold |-> 0, life |-> 0]

TypeOK ==
    /\ highWater \in SegIds \cup {0}
    /\ segs \in [SegIds -> Segments]
    /\ slot \in Slots
    /\ window \in Seq(SegIds) /\ Len(window) <= MaxChunks
    /\ config \in Configs /\ pending \in Configs \cup {NoConfig}

-----------------------------------------------------------------------------
(* The part of the state the helpers of the code update in place.         *)
(* An operator commented "bug:" is not part of the model.  It is the definition  *)
(* below it with a plausible programming error; put in its place, it makes TLC   *)
(* find the property named violated.                                             *)
DisplayOf(S, sl, w, c) == [segs |-> S, slot |-> sl, window |-> w, config |-> c]
Display == DisplayOf(segs, slot, window, config)

\* Between calls a retired segment is only known to be retired, unless its text is
\* still on display: the segmenter replaces no segment it knows to be retired.
Trace(d, s) ==
    IF d.segs[s].display = "Retired" /\ d.slot.key # s
    THEN [Absent EXCEPT !.display = "Retired"] ELSE d.segs[s]

Settled(d) == [d EXCEPT !.segs = [s \in SegIds |-> Trace(d, s)]]
Commit(d) == \E e \in {d} :
    segs' = Settled(e).segs /\ slot' = e.slot /\ window' = e.window /\ config' = e.config

With(d, display) == {s \in SegIds : d.segs[s].display = display}
Waiting(d) == With(d, "Waiting")
Lives(seg) == seg.display \in {"Waiting", "Visible"}
Live(d) == {s \in SegIds : Lives(d.segs[s])}
Managed(d) == SegIds \ With(d, "Absent")

Smaller(m, n) == IF m <= n THEN m ELSE n

PageMinimum(c) == Smaller(c.hold, MinPage)
\* bug: the page may go one tick before its time (PageKeepsMinimum).
PageReadEarly(d) == d.slot.page + 1 >= PageMinimum(d.config)
PageRead(d) == d.slot.page >= PageMinimum(d.config)
HoldOver(d) == d.slot.hold >= d.config.hold

Precedes(d, s, t) ==
    \/ d.segs[s].order < d.segs[t].order
    \/ d.segs[s].order = d.segs[t].order /\ s < t
FirstOf(d, S) == IF S = {} THEN 0 ELSE CHOOSE s \in S : \A t \in S \ {s} : Precedes(d, s, t)

\* bug: a translated segment need not wait for the one before (CaptionsInOrder).
NextTranslated(d) == FirstOf(d, {s \in Waiting(d) : d.segs[s].left > 0})
NextWaiting(d) == FirstOf(d, Waiting(d))

Anchored(d) == {s \in SegIds : d.slot.key # 0 /\ d.segs[s].anchor = d.slot.key}
ReplacementHead(d) == FirstOf(d, Waiting(d) \cap Anchored(d))
Ready(d, s) == s # 0 /\ d.segs[s].left > 0

-----------------------------------------------------------------------------
(* Retirement *)

\* A retired segment's other fields are never read again.
Tombstone(seg) ==
    [seg EXCEPT !.display = "Retired", !.expected = NoJob, !.processed = FALSE,
                !.final = FALSE, !.left = 0, !.age = 0]

\* The slot of an owner retired for one of these waits for the replacement.
Keeps == {"Replaced", "ReconcileAmbiguous"}

\* bug: the slot does not learn that its owner is retired (DisplayOwnsSlot).
RetireUnnoticed(d, S, reason) ==
    [d EXCEPT !.segs = [s \in SegIds |->
         IF Lives(d.segs[s]) /\ s \in S THEN Tombstone(d.segs[s]) ELSE d.segs[s]]]
RetireSegments(d, S, reason) ==
    [d EXCEPT
        !.segs = [s \in SegIds |->
            IF Lives(d.segs[s]) /\ s \in S THEN Tombstone(d.segs[s]) ELSE d.segs[s]],
        !.slot = IF @.key \in S \cap SegIds /\ Lives(d.segs[@.key])
                 THEN [@ EXCEPT !.placeholder = TRUE, !.leave = reason \notin Keeps]
                 ELSE @]

\* bug: an expired slot leaves its text in the window (WindowFollowsSlot).
ClearSlotOnly(d, preserve) ==
    [RetireSegments(d, {d.slot.key} \cup Anchored(d), "Completed") EXCEPT !.slot = NoSlot]
\* What was to replace the slot goes with it.
ClearSlot(d, preserve) ==
    [RetireSegments(d, {d.slot.key} \cup Anchored(d), "Completed") EXCEPT
        !.slot = NoSlot, !.window = IF preserve THEN @ ELSE << >>]

MorePages(d) == d.slot.key # 0 /\ d.segs[d.slot.key].left > 1

\* bug: a slot kept for a replacement never times out (CaptionLeaves).
ExpiredIfOwned(d) ==
    /\ d.slot.key # 0 /\ ~d.slot.placeholder
    /\ \/ MorePages(d) /\ d.slot.life >= Lifetime /\ PageRead(d)
       \/ HoldOver(d) /\ ~MorePages(d)
\* The next page of a long translation may be late; the last one may not.
Expired(d) ==
    /\ d.slot.key # 0
    /\ \/ MorePages(d) /\ d.slot.life >= Lifetime /\ PageRead(d)
       \/ HoldOver(d) /\ (d.slot.placeholder \/ ~MorePages(d))

\* bug: only translated segments go stale (WaitingSettles).
StaleTranslated(d) == {s \in Waiting(d) : d.segs[s].age >= StaleAge /\ d.segs[s].left > 0}
Stale(d) == {s \in Waiting(d) : d.segs[s].age >= StaleAge}

\* A stale segment waits, so it is not the one that owns the slot.
Fresh(d) == RetireSegments(d, Stale(d), "StaleBeforeDisplay")
Expire(d) == IF Expired(d) THEN ClearSlot(Fresh(d), FALSE) ELSE Fresh(d)

\* Every operation but the reset begins with expire.
Now == Expire(Display)

-----------------------------------------------------------------------------
(* The window *)

\* bug: the window keeps what should have left it (TypeOK).
TrimNothing(w) == w
Trim(w) == IF Len(w) > MaxChunks THEN Tail(w) ELSE w

ReplaceChunk(w, old, new) ==
    LET at == {i \in DOMAIN w : w[i] = old} IN
    Trim(IF at = {} THEN Append(w, new)
                    ELSE [w EXCEPT ![CHOOSE i \in at : \A j \in at : j <= i] = new])

-----------------------------------------------------------------------------
(* Generations and registration *)

ResetGeneration ==
    /\ Commit(DisplayOf([s \in SegIds |-> Absent], NoSlot, << >>, config))
    /\ UNCHANGED << highWater, pending >>

\* The first final of what is visible starts its hold again, once.
Confirmed(d) == IF d.slot.final THEN d ELSE [d EXCEPT !.slot.final = TRUE, !.slot.hold = 0]

ConfirmedIf(d, s) == IF d.slot.key = s THEN Confirmed(d) ELSE d
ConfirmFinal(s) ==
    /\ Commit(ConfirmedIf(Now, s))
    /\ UNCHANGED << highWater, pending >>

FirstJob(rev) == [rev |-> rev, att |-> 1]

\* A new source revision is to be translated again; until then what the
\* previous one said stays.
Revised(seg, rev) == [seg EXCEPT !.expected = FirstJob(rev), !.processed = FALSE]
Finalized(seg, final) == [seg EXCEPT !.final = @ \/ final]

\* The segments that only change: the revised ones, those that move in the
\* transcript, and with the final transcript all those that were not final yet.
Update(d, updated, revs, final) ==
    LET confirmed == /\ final /\ d.slot.key \in updated /\ ~d.slot.placeholder
                     /\ ~d.segs[d.slot.key].final
        e == IF confirmed THEN Confirmed(d) ELSE d
    IN [e EXCEPT !.segs = [s \in SegIds |->
           LET seg == [Finalized(e.segs[s], final) EXCEPT !.order = Order(s)] IN
           IF s \notin updated THEN e.segs[s]
           ELSE IF revs[s] > seg.expected.rev THEN Revised(seg, revs[s]) ELSE seg]]

\* A segment can be replaced while it lives and while it, or what it was to
\* replace, is still on display.
Replaceable(d, s) ==
    \/ s \in Live(d)
    \/ d.slot.key # 0 /\ (s = d.slot.key \/ s \in Anchored(d))

\* Where the new segments will appear: in place of the slot's owner, if they
\* replace it or something that was to replace it.
AnchorFor(d, olds) ==
    LET anchors == {d.segs[o].anchor : o \in olds} \ {0} IN
    IF d.slot.key \in olds THEN d.slot.key
    ELSE IF anchors = {} THEN 0 ELSE CHOOSE a \in anchors : TRUE

\* The first of the new segments takes the place of the first replaced.
OrderFor(d, s, fresh, olds) ==
    LET first == {o \in olds[s] : \A t \in fresh : o \in olds[t] => Order(s) <= Order(t)}
        places == {d.segs[o].order : o \in first \ With(d, "Absent")} \cup {Order(s)}
    IN CHOOSE p \in places : \A q \in places : p <= q

NewSegment(d, s, rev, fresh, olds, final) ==
    [Absent EXCEPT !.display = "Waiting", !.expected = FirstJob(rev), !.final = final,
                   !.order = OrderFor(d, s, fresh, olds), !.anchor = AnchorFor(d, olds[s])]

Replace(d, fresh, olds, revs, final) ==
    LET replaced == UNION {olds[s] : s \in fresh}
        lost == {s \in fresh : \E o \in olds[s] : ~Replaceable(d, o)}
        c == IF final /\ d.slot.key \in replaced THEN Confirmed(d) ELSE d
        e == RetireSegments(c, replaced, "Replaced")
        n == [e EXCEPT !.segs = [s \in SegIds |->
                IF s \in fresh THEN NewSegment(d, s, revs[s], fresh, olds, final) ELSE e.segs[s]]]
    IN RetireSegments(n, lost, "ReconcileAmbiguous")

\* Registered no earlier, and on a tie later in the transcript.
Younger(d, s, t) ==
    \/ d.segs[t].age < d.segs[s].age
    \/ d.segs[t].age = d.segs[s].age /\ Precedes(d, s, t)

EnforceWaiting(d) ==
    LET surplus == {s \in Waiting(d) :
                       Cardinality({t \in Waiting(d) \ {s} : Younger(d, s, t)}) >= MaxWaiting}
    IN RetireSegments(d, surplus, "SegmentLimit")

\* Registration is all or nothing: it is refused when one of the segments it
\* updates has just expired, when an id was used already, or when there is no room;
\* then only the ids are used up.
Refused(d, fresh, updated) ==
    (\E s \in updated : s \notin Live(d)) \/ (\E s \in fresh : s <= highWater)
Full(d, fresh) == Cardinality(fresh) > MaxManaged - Cardinality(Managed(d))
Registered(d, fresh, olds, updated, revs, final) ==
    IF Refused(d, fresh, updated) \/ Full(d, fresh) THEN d
    ELSE EnforceWaiting(Replace(Update(d, updated, revs, final), fresh, olds, revs, final))
UsedUp(d, fresh, updated) ==
    IF Refused(d, fresh, updated) \/ fresh = {} THEN highWater
    ELSE CHOOSE s \in fresh : \A t \in fresh : t <= s

\* The segments of the utterance that is still recognised.
Open == {s \in Live(Display) : ~segs[s].final}

\* What the segmenter reports: new segments at one place of the transcript,
\* after whatever is final, in the place of the olds if there are any.
Fits(fresh, olds) ==
    LET others == Live(Display) \ olds IN
    /\ \A t \in others :
          \/ \A s \in fresh \cup olds : Order(t) < Order(s)
          \/ ~segs[t].final /\ \A s \in fresh \cup olds : Order(s) < Order(t)
    /\ \A s, t \in fresh : s < t => Order(s) < Order(t)

\* A new segment pushes what follows it to another place of the transcript.
Moved(kept, fresh, olds) ==
    IF Cardinality(fresh) = Cardinality(olds) THEN {}
    ELSE {s \in kept : \A t \in fresh \cup olds : Order(t) < Order(s)}

Register(fresh, olds, revised, final) ==
    LET d == Now
        kept == Open \ olds
        updated == revised \cup (IF final THEN kept ELSE Moved(kept, fresh, olds))
        revs == [s \in SegIds |-> segs[s].expected.rev + (IF s \in fresh \cup revised THEN 1 ELSE 0)]
    IN /\ fresh = {} => olds = {}
       /\ fresh # {} => revised = {} /\ Fits(fresh, olds)
       /\ fresh \cup updated # {}
       /\ \A s \in revised : segs[s].expected.rev < MaxRevision
       /\ Commit(Registered(d, fresh, [s \in SegIds |-> olds], updated, revs, final))
       /\ highWater' = UsedUp(d, fresh, updated)
       /\ UNCHANGED pending

-----------------------------------------------------------------------------
(* Translations *)

\* A quality retry is requested for a visible translation.
Expecting(d, s, job) ==
    IF s \in Live(d) /\ job.rev = d.segs[s].expected.rev /\ job.att > d.segs[s].expected.att
    THEN [d EXCEPT !.segs[s].expected = job, !.segs[s].processed = FALSE] ELSE d

ExpectRetry(s) ==
    /\ segs[s].display = "Visible" /\ segs[s].processed /\ segs[s].expected.att = 1
    /\ Commit(Expecting(Now, s, [segs[s].expected EXCEPT !.att = 2]))
    /\ UNCHANGED << highWater, pending >>

\* What the text shown already has in common with the new one is not shown again;
\* a text that does not agree with it only replaces the current page.
Realigned(seg, index, pages, aligned) ==
    IF aligned /\ (index = 0 \/ pages > index)
    THEN [seg EXCEPT !.left = pages - index, !.index = index]
    ELSE [seg EXCEPT !.left = 1, !.index = index, !.ambiguous = TRUE]

Restarted(sl) == [sl EXCEPT !.page = 0, !.hold = 0, !.life = 0]

UpdateVisible(d, s, pages, aligned) ==
    LET seg == d.segs[s] IN
    [d EXCEPT !.segs[s] = Realigned(seg, seg.index, pages, ~seg.ambiguous /\ aligned),
              !.slot = [Restarted(@) EXCEPT !.dirty = TRUE],
              !.window = ReplaceChunk(@, s, s)]

\* bug: the answer to a request for an older revision is taken
\* (ShownTextNeverGoesBack).
AcceptsOlder(seg, job) == job.rev <= seg.expected.rev /\ ~seg.processed
Accepts(seg, job) == job = seg.expected /\ ~seg.processed

Shows(d, s) == d.slot.key = s /\ ~d.slot.placeholder

\* pages is 0 for a failed, empty or oversized translation: a segment that was
\* never translated is then given up.
Taken(d, s, job, pages, aligned) ==
    LET e == [d EXCEPT !.segs[s].processed = TRUE]
        t == [e EXCEPT !.segs[s].job = job]
    IN IF d.slot.key = s /\ HoldOver(d) THEN e
       ELSE IF pages = 0
            THEN IF d.segs[s].left = 0 THEN RetireSegments(e, {s}, "TranslationFailed") ELSE e
       ELSE IF Shows(d, s) THEN UpdateVisible(t, s, pages, aligned)
       ELSE [t EXCEPT !.segs[s].left = pages]

Answered(d, s, job, pages, aligned) ==
    IF s \in Live(d) /\ Accepts(d.segs[s], job) THEN Taken(d, s, job, pages, aligned) ELSE d

\* Requests outlive what they were sent for: the job is any that was expected once.
Complete(s, job, pages, aligned) ==
    /\ s <= highWater /\ job.rev <= MaxRevision
    /\ segs[s].display \in {"Waiting", "Visible"} =>
          \/ job.rev < segs[s].expected.rev
          \/ job.rev = segs[s].expected.rev /\ job.att <= segs[s].expected.att
    /\ Commit(Answered(Now, s, job, pages, aligned))
    /\ UNCHANGED << highWater, pending >>

\* What the scheduler or the segmenter retires.
Retire(s, reason) ==
    /\ s \in Live(Display)
    /\ Commit(RetireSegments(Now, {s}, reason))
    /\ UNCHANGED << highWater, pending >>

-----------------------------------------------------------------------------
(* The display *)

\* bug: what was to follow the replacement still waits for the slot it
\* replaced (ReplacementsAnchored).
UnanchoredNone(S, k) == S
Unanchored(S, k) == [s \in SegIds |-> IF S[s].anchor = k THEN [S[s] EXCEPT !.anchor = 0] ELSE S[s]]

Owner(d, s, final, life) ==
    [NoSlot EXCEPT !.key = s, !.final = d.segs[s].final \/ final, !.life = life]

\* A segment, or its next page, comes after what is shown ...
Enter(d, s) ==
    DisplayOf([d.segs EXCEPT ![s].display = "Visible", ![s].age = 0],
              Owner(d, s, FALSE, IF d.slot.key = s THEN d.slot.life ELSE 0),
              Trim(Append(d.window, s)), d.config)

\* ... or takes the place of the slot's owner, on the same page.
Inherit(d, s, aligned) ==
    LET k == d.slot.key
        old == d.segs[k]
        new == IF old.index = 0 THEN d.segs[s]
               ELSE Realigned(d.segs[s], old.index, d.segs[s].left, ~old.ambiguous /\ aligned)
        S == [d.segs EXCEPT ![s] = [new EXCEPT !.display = "Visible", !.age = 0]]
    IN DisplayOf(Unanchored(S, k), Owner(d, s, d.slot.final, 0),
                 ReplaceChunk(d.window, k, s), d.config)

EnterNext(d) == IF Ready(d, NextWaiting(d)) THEN Enter(d, NextWaiting(d)) ELSE d

\* Another width or number of lines wraps what is left into other pages.
Rewrapped(seg, pages) ==
    IF seg.left = 0 THEN seg
    ELSE [seg EXCEPT !.left = IF seg.ambiguous THEN 1 ELSE Smaller(pages, MaxPages - seg.index)]

Reconfigured(d, c, pages) ==
    LET rewrap == c.layout # d.config.layout
        shown == rewrap /\ d.slot.key # 0 /\ ~d.slot.placeholder
    IN DisplayOf(IF rewrap THEN [s \in SegIds |-> Rewrapped(d.segs[s], pages[s])] ELSE d.segs,
                 [d.slot EXCEPT !.dirty = @ \/ shown],
                 IF shown THEN ReplaceChunk(d.window, d.slot.key, d.slot.key) ELSE d.window,
                 c)
ApplyConfig(d, c, pages) == Expire(Reconfigured(d, c, pages))

ReplacementReady(d) ==
    d.slot.placeholder /\ ~d.slot.leave /\ Ready(d, ReplacementHead(d))

\* bug: the next caption does not wait for the pending replacement of the
\* one shown (ReplacedCaptionStays).
FollowsAnything(d) ==
    /\ IF d.slot.placeholder THEN ~d.slot.leave ELSE ~MorePages(d)
    /\ Ready(d, NextWaiting(d))
Follows(d) ==
    /\ IF d.slot.placeholder THEN ~d.slot.leave /\ ReplacementHead(d) = 0 ELSE ~MorePages(d)
    /\ Ready(d, NextWaiting(d))

\* What tick does with the slot: the replacement shows as soon as it is translated;
\* a page corrected in place is published before anything else happens to it; then
\* the slot, once read, turns its page, leaves, or makes way for what follows.
Undisturbed(d) ==
    d.slot.key # 0 /\ ~ReplacementReady(d) /\ ~d.slot.dirty /\ PageRead(d)
TurnsPage(d) == ~d.slot.placeholder /\ MorePages(d)
NextPage(d, s) == Enter([d EXCEPT !.segs[s].left = @ - 1, !.segs[s].index = @ + 1], s)

Rendered(d, aligned) ==
    CASE ReplacementReady(d) -> Inherit(d, ReplacementHead(d), aligned)
      [] ~ReplacementReady(d) /\ d.slot.dirty -> [d EXCEPT !.slot.dirty = FALSE]
      [] Undisturbed(d) /\ TurnsPage(d) -> NextPage(d, d.slot.key)
      [] Undisturbed(d) /\ d.slot.leave -> EnterNext(ClearSlot(d, FALSE))
      [] Undisturbed(d) /\ Follows(d) -> EnterNext(ClearSlot(d, TRUE))
      [] d.slot.key = 0 -> EnterNext(d)
      [] OTHER -> d

\* pages and aligned stand for the texts, if they have to be compared or wrapped.
Tick(pages, aligned) ==
  \E display \in {Display} :
  \E now \in {Expire(display)} :
  \E new \in {IF pending = NoConfig THEN now ELSE Reconfigured(now, pending, pages)} :
  \E d \in {IF pending = NoConfig THEN now ELSE Expire(new)} :
    /\ pending' = NoConfig
    /\ UNCHANGED highWater
    /\ Commit(Rendered(d, aligned))

SetConfig(c, pages) ==
    /\ \E now \in {Now} : Commit(ApplyConfig(now, c, pages))
    /\ pending' = NoConfig
    /\ UNCHANGED highWater

\* The other set_config, for the next tick.
DeferConfig(c) ==
    /\ pending' = c
    /\ UNCHANGED << highWater, segs, slot, window, config >>

ForgetRetired(s) ==
    /\ segs[s].display = "Retired" /\ slot.key # s
    /\ segs' = [segs EXCEPT ![s] = Absent]
    /\ UNCHANGED << highWater, slot, window, config, pending >>

\* The clocks one tick later.
Older(sl) ==
    [sl EXCEPT !.page = Smaller(@ + 1, MinPage), !.hold = Smaller(@ + 1, MaxHold),
               !.life = Smaller(@ + 1, Lifetime)]
Aged(d) ==
    [d EXCEPT !.segs = [s \in SegIds |->
                  IF d.segs[s].display = "Waiting"
                  THEN [d.segs[s] EXCEPT !.age = Smaller(@ + 1, StaleAge)] ELSE d.segs[s]],
              !.slot = IF @.key = 0 THEN @ ELSE Older(@)]
Advance ==
    /\ \E d \in {Aged(Display)} : segs' = d.segs /\ slot' = d.slot
    /\ UNCHANGED << highWater, window, config, pending >>

-----------------------------------------------------------------------------
Init ==
    /\ highWater = 0
    /\ segs = [s \in SegIds |-> Absent]
    /\ slot = NoSlot
    /\ window = << >>
    /\ config \in Configs
    /\ pending = NoConfig

\* What an answer that is refused says does not matter.
Answers(s, job) == IF Accepts(segs[s], job) THEN 0..MaxPages ELSE {0}

\* Only a change of layout wraps anew, and only after the first page is there
\* something shown already that a new text may not agree with.
Layouts(c) == {[s \in SegIds |-> n] :
                  n \in IF c \in {config, NoConfig} \/ c.layout = config.layout THEN {1} ELSE 1..MaxPages}
Alignments == IF slot.key # 0 /\ segs[slot.key].index > 0 THEN BOOLEAN ELSE {TRUE}

Ticks == \E pages \in Layouts(pending), aligned \in Alignments : Tick(pages, aligned)

Next ==
    \/ ResetGeneration
    \/ \E s \in SegIds : ConfirmFinal(s) \/ ExpectRetry(s) \/ ForgetRetired(s)
    \/ \E fresh \in SUBSET {s \in SegIds : s > highWater}, olds \in SUBSET Open,
          revised \in {{}} \cup {{s} : s \in Open}, final \in BOOLEAN :
          Register(fresh, olds, revised, final)
    \/ \E s \in SegIds, job \in [rev : 1..MaxRevision, att : {1, 2}],
          aligned \in Alignments : \E pages \in Answers(s, job) : Complete(s, job, pages, aligned)
    \/ \E s \in SegIds, reason \in {"Replaced", "SegmentLimit"} : Retire(s, reason)
    \/ Ticks
    \/ \E c \in Configs \ {config} : \E pages \in Layouts(c) : SetConfig(c, pages)
    \/ \E c \in Configs \ {config} : DeferConfig(c)
    \/ Advance

Spec == Init /\ [][Next]_vars

\* render_and_publish ticks in every iteration of the WebSocket thread's loops,
\* connected, reconnecting or paused, and time passes.
FairSpec == Spec /\ WF_vars(Ticks) /\ WF_vars(Advance)

-----------------------------------------------------------------------------
(* Properties *)

\* One caption is on display: the visible segment is the one that owns the slot and
\* still has a page there, and the owner of the slot is never forgotten
\* (retire_segment, clear_slot, enter, forget_retired).
DisplayOwnsSlot ==
    /\ \A s \in SegIds : segs[s].display = "Visible" <=> slot.key = s /\ ~slot.placeholder
    /\ slot.placeholder => segs[slot.key].display = "Retired"
    /\ \A s \in SegIds : segs[s].display = "Visible" => segs[s].left > 0

\* A segment that waits to replace another one waits for what is on display now, and
\* that is a placeholder: no replacement is left behind for a slot that is gone.
ReplacementsAnchored ==
    \A s \in Waiting(Display) : segs[s].anchor # 0 =>
        slot.key = segs[s].anchor /\ slot.placeholder

\* The rolling window and the slot agree between calls: the last text of the window is
\* the slot's, and when nothing is on display no text is left that a later caption
\* would bring back (clear_slot with preserve_window, replace_window_chunk).
WindowFollowsSlot ==
    IF slot.key = 0 THEN window = << >>
    ELSE window # << >> /\ window[Len(window)] = slot.key

Shown(sl, S) == IF sl.key = 0 THEN << 0, 0 >> ELSE << sl.key, S[sl.key].index >>
WasReset == \A s \in SegIds : segs'[s].display = "Absent"
Replaces(s, t) == s \in SegIds /\ segs[s].anchor = t

\* A page once shown stays for the minimum time, min(hold_ms, 1200 ms), whatever
\* happens to its segment, unless its replacement is there or the generation ends.
PageKeepsMinimum ==
    [][slot.key # 0 /\ Shown(slot', segs') # Shown(slot, segs)
       => \/ slot.page >= Smaller(PageMinimum(config), PageMinimum(config'))
          \/ Replaces(slot'.key, slot.key)
          \/ WasReset]_vars

\* While a caption stays, its text is never that of an older request and its page is
\* never an earlier one; a replacement does not go back in it either.
ShownTextNeverGoesBack ==
    [][/\ slot.key # 0 /\ slot'.key = slot.key =>
             LET old == segs[slot.key].job
                 new == segs'[slot.key].job
             IN \/ old.rev < new.rev
                \/ old.rev = new.rev /\ old.att <= new.att
       /\ slot.key # 0 /\ slot'.key # 0 /\ (slot'.key = slot.key \/ Replaces(slot'.key, slot.key))
             => segs[slot.key].index <= segs'[slot'.key].index]_vars

\* A caption never appears before one that still waits and comes earlier in the
\* transcript; a replacement, never before another one of the same text.
CaptionsInOrder ==
    [][\A s \in Waiting(Display) :
          /\ slot'.key \notin {0, slot.key, s}
          /\ segs'[s].display = "Waiting"
          /\ segs[slot'.key].anchor \in {0, segs[s].anchor}
          => segs'[slot'.key].order <= segs'[s].order]_vars

\* A caption whose replacement is being translated stays, until the replacement is
\* there or its hold is over: nothing else takes the place, or clears it.
ReplacedCaptionStays ==
    [][/\ slot.placeholder /\ ~slot.leave
       /\ \E s \in Waiting(Display) : segs[s].anchor = slot.key /\ segs[s].age < StaleAge
       /\ slot'.key # slot.key
       => \/ Replaces(slot'.key, slot.key)
          \/ slot.hold >= Smaller(config.hold, config'.hold)
          \/ WasReset]_vars

\* Every caption leaves the display, whatever is or is not translated after it.
CaptionLeaves == \A s \in SegIds : slot.key = s ~> slot.key # s

\* Every registered segment is shown or given up.
WaitingSettles ==
    \A s \in SegIds : segs[s].display = "Waiting" ~> segs[s].display # "Waiting"
=============================================================================
