------------------------- MODULE CaptionComposerSteps -------------------------
(* Proofs about the steps of CaptionComposer for every value of its constants:    *)
(* what a step may never do to the caption on display.                            *)
EXTENDS CaptionComposerProofs

-----------------------------------------------------------------------------
(* What the steps rest on, of a display in the middle of a call. *)

NoOlder(old, new) ==
    \/ old.rev < new.rev
    \/ old.rev = new.rev /\ old.att <= new.att

\* A page is on display at least as long as its hold counts; a placeholder has no
\* page left to turn; no translation is of a later request than the one awaited.
Current(d) ==
    /\ d.slot.page >= Smaller(d.slot.hold, MinPage)
    /\ d.slot.placeholder => d.slot.key \in SegIds /\ d.segs[d.slot.key].left = 0
    /\ \A s \in Live(d) : NoOlder(d.segs[s].job, d.segs[s].expected)

\* The page of d is still on display in e, with a text that is no older.
StillShows(d, e) ==
    /\ e.slot.key = d.slot.key
    /\ d.slot.key # 0 =>
          /\ e.segs[d.slot.key].index = d.segs[d.slot.key].index
          /\ NoOlder(d.segs[d.slot.key].job, e.segs[d.slot.key].job)

LEMMA JobOrder ==
  /\ \A a \in Jobs : NoOlder(a, a)
  /\ \A a, b, c \in Jobs : NoOlder(a, b) /\ NoOlder(b, c) => NoOlder(a, c)
  <1>1. \A a \in Jobs : a.rev \in Nat /\ a.att \in Nat
    BY LimitsAssumption DEF Jobs
  <1> QED
    BY <1>1 DEF NoOlder

LEMMA Fields ==
  ASSUME NEW d, Typed(d)
  PROVE  /\ \A s \in SegIds : /\ d.segs[s].job \in Jobs /\ d.segs[s].expected \in Jobs
                              /\ d.segs[s].left \in Nat /\ d.segs[s].index \in Nat
                              /\ d.segs[s].order \in Nat /\ d.segs[s].age \in Nat
                              /\ d.segs[s] \in PagedSegments
                              /\ d.segs[s].anchor \in SegIds \cup {0}
         /\ d.slot.key \in SegIds \cup {0} /\ d.slot.page \in Nat /\ d.slot.hold \in Nat
         /\ d.slot.life \in Nat /\ d.slot.placeholder \in BOOLEAN /\ d.slot.leave \in BOOLEAN
         /\ d.config \in Configs /\ d.config.hold \in Nat
  <1>1. /\ d.segs \in [SegIds -> PagedSegments] /\ d.slot \in Slots /\ d.config \in Configs
        /\ PagedSegments \subseteq Segments
    BY DEF Typed, PagedSegments
  <1>2. \A s \in SegIds : /\ d.segs[s].job \in Jobs /\ d.segs[s].expected \in Jobs
                          /\ d.segs[s].left \in Nat /\ d.segs[s].index \in Nat
                          /\ d.segs[s].order \in Nat /\ d.segs[s].age \in Nat
                          /\ d.segs[s] \in PagedSegments
                          /\ d.segs[s].anchor \in SegIds \cup {0}
    BY <1>1, LimitsAssumption DEF Segments
  <1>3. /\ d.slot.key \in SegIds \cup {0} /\ d.slot.page \in Nat /\ d.slot.hold \in Nat
        /\ d.slot.life \in Nat /\ d.slot.placeholder \in BOOLEAN /\ d.slot.leave \in BOOLEAN
    BY <1>1, LimitsAssumption, MaxHoldType DEF Slots
  <1>4. d.config.hold \in Nat
    BY <1>1, IdsAssumption
  <1> QED
    BY <1>1, <1>2, <1>3, <1>4

LEMMA TombstoneKeeps ==
  ASSUME NEW seg \in PagedSegments
  PROVE  /\ Tombstone(seg).left = 0 /\ Tombstone(seg).index = seg.index
         /\ Tombstone(seg).job = seg.job
         /\ ~Lives(Tombstone(seg))
  BY DEF Tombstone, Segments, PagedSegments, Lives

\* The slot after a retirement.
LEMMA RetiredSlot ==
  ASSUME NEW d, Typed(d), NEW S, NEW reason
  PROVE  LET r == RetireSegments(d, S, reason) IN
         /\ r.slot.page = d.slot.page /\ r.slot.hold = d.slot.hold
         /\ ~(d.slot.key \in S \cap SegIds /\ Lives(d.segs[d.slot.key])) => r.slot = d.slot
  <1> DEFINE r == RetireSegments(d, S, reason)
             T == [s \in SegIds |->
                     IF Lives(d.segs[s]) /\ s \in S THEN Tombstone(d.segs[s]) ELSE d.segs[s]]
             sl == IF d.slot.key \in S \cap SegIds /\ Lives(d.segs[d.slot.key])
                   THEN [d.slot EXCEPT !.placeholder = TRUE, !.leave = reason \notin Keeps]
                   ELSE d.slot
  <1>1. r = [d EXCEPT !.segs = T, !.slot = sl]
    BY DEF RetireSegments
  <1>2. sl.page = d.slot.page /\ sl.hold = d.slot.hold
    BY DEF Typed, Slots
  <1>3. r.slot = sl
    <2> HIDE DEF T, sl, r
    <2> QED BY <1>1 DEF Typed
  <1> QED
    BY <1>2, <1>3

\* What leaves the slot alone but for its hold and only retires, revises or rewraps.
LEMMA QuietShows ==
  ASSUME NEW d, NEW e, Typed(d), Typed(e), Current(d),
         e.slot.key = d.slot.key, e.slot.placeholder = d.slot.placeholder,
         e.slot.page = d.slot.page, e.slot.hold \in {d.slot.hold, 0},
         \A s \in SegIds :
            /\ e.segs[s].index = d.segs[s].index /\ e.segs[s].job = d.segs[s].job
            /\ d.segs[s].left = 0 => e.segs[s].left = 0
            /\ Lives(e.segs[s]) =>
                  Lives(d.segs[s]) /\ NoOlder(d.segs[s].expected, e.segs[s].expected)
  PROVE  Current(e) /\ StillShows(d, e)
  <1>1. e.slot.page >= Smaller(e.slot.hold, MinPage)
    <2>1. d.slot.page \in Nat /\ d.slot.hold \in Nat /\ MinPage \in Nat
      BY Fields, LimitsAssumption
    <2> QED BY <2>1 DEF Current, Smaller
  <1>2. e.slot.placeholder => e.slot.key \in SegIds /\ e.segs[e.slot.key].left = 0
    BY DEF Current
  <1>3. ASSUME NEW s \in Live(e) PROVE NoOlder(e.segs[s].job, e.segs[s].expected)
    <2>1. s \in SegIds /\ Lives(e.segs[s])
      BY DEF Live
    <2>2. NoOlder(d.segs[s].job, d.segs[s].expected)
      BY <2>1 DEF Current, Live
    <2> QED
      BY <2>1, <2>2, JobOrder, Fields
  <1>4. StillShows(d, e)
    BY Fields, JobOrder DEF StillShows
  <1> QED
    BY <1>1, <1>2, <1>3, <1>4 DEF Current

LEMMA StillShowsItself ==
  ASSUME NEW d, Typed(d)
  PROVE  StillShows(d, d)
  BY Fields, JobOrder DEF StillShows

LEMMA StillShowsOn ==
  ASSUME NEW d, NEW e, NEW f, Typed(d), Typed(e), Typed(f), StillShows(d, e), StillShows(e, f)
  PROVE  StillShows(d, f)
  <1>1. CASE d.slot.key = 0
    BY <1>1 DEF StillShows
  <1>2. CASE d.slot.key # 0
    <2>1. d.slot.key \in SegIds
      BY <1>2, Fields
    <2>2. /\ d.segs[d.slot.key].job \in Jobs /\ e.segs[d.slot.key].job \in Jobs
          /\ f.segs[d.slot.key].job \in Jobs
      BY <2>1, Fields
    <2> QED
      BY <1>2, <2>2, JobOrder DEF StillShows
  <1> QED BY <1>1, <1>2

-----------------------------------------------------------------------------
(* What every operation after expire leaves of the caption on display. *)

LEMMA RetireShows ==
  ASSUME NEW d, Typed(d), Current(d), NEW S, NEW reason
  PROVE  LET r == RetireSegments(d, S, reason) IN Typed(r) /\ Current(r) /\ StillShows(d, r)
  <1> DEFINE r == RetireSegments(d, S, reason)
  <1>1. /\ Typed(r)
        /\ \A s \in SegIds : r.segs[s] = IF Lives(d.segs[s]) /\ s \in S
                                          THEN Tombstone(d.segs[s]) ELSE d.segs[s]
        /\ r.slot.key = d.slot.key
        /\ r.slot.placeholder <=>
              \/ d.slot.placeholder
              \/ d.slot.key \in S \cap SegIds /\ Lives(d.segs[d.slot.key])
    BY RetiredFacts
  <1>2. r.slot.page = d.slot.page /\ r.slot.hold = d.slot.hold
    BY RetiredSlot
  <1> HIDE DEF r
  <1>3. \A s \in SegIds : /\ d.segs[s] \in PagedSegments
                          /\ r.segs[s].job = d.segs[s].job /\ r.segs[s].index = d.segs[s].index
                          /\ \/ r.segs[s] = d.segs[s] /\ ~(Lives(d.segs[s]) /\ s \in S)
                             \/ /\ Lives(d.segs[s]) /\ s \in S
                                /\ r.segs[s].left = 0 /\ ~Lives(r.segs[s])
    BY <1>1, TombstoneKeeps, Fields
  <1>4. r.slot.page >= Smaller(r.slot.hold, MinPage)
    BY <1>2 DEF Current
  <1>5. r.slot.placeholder => r.slot.key \in SegIds /\ r.segs[r.slot.key].left = 0
    <2>1. CASE d.slot.placeholder
      <3>1. d.slot.key \in SegIds /\ d.segs[d.slot.key].left = 0
        BY <2>1 DEF Current
      <3> QED BY <1>1, <1>3, <3>1
    <2>2. CASE d.slot.key \in S \cap SegIds /\ Lives(d.segs[d.slot.key])
      BY <1>1, <1>3, <2>2
    <2> QED BY <1>1, <2>1, <2>2
  <1>6. \A s \in Live(r) : NoOlder(r.segs[s].job, r.segs[s].expected)
    BY <1>3 DEF Current, Live
  <1>7. StillShows(d, r)
    BY <1>1, <1>3, Fields, JobOrder DEF StillShows
  <1> QED
    BY <1>1, <1>4, <1>5, <1>6, <1>7 DEF Current, r

LEMMA ConfirmedShows ==
  ASSUME NEW d, Typed(d), Current(d)
  PROVE  LET c == Confirmed(d) IN
         Typed(c) /\ Current(c) /\ StillShows(d, c) /\ c.segs = d.segs /\ c.slot.key = d.slot.key
  <1> DEFINE c == Confirmed(d)
  <1>0. d.slot \in Slots /\ 0 \in 0..MaxHold
    BY MaxHoldType DEF Typed
  <1>1. /\ c.segs = d.segs /\ c.slot.key = d.slot.key /\ c.slot.placeholder = d.slot.placeholder
        /\ c.slot.page = d.slot.page /\ c.slot.hold \in {d.slot.hold, 0} /\ Typed(c)
    BY <1>0 DEF Confirmed, Typed, Slots
  <1> HIDE DEF c
  <1>2. Current(c) /\ StillShows(d, c)
    BY <1>1, QuietShows, Fields, JobOrder
  <1> QED
    BY <1>1, <1>2 DEF c

LEMMA UpdateShows ==
  ASSUME NEW d, NEW h, Steady(d, h), WindowHolds(d), Current(d), NEW updated \in SUBSET Live(d),
         NEW revs, \A s \in updated : revs[s] \in 0..MaxRevision, NEW final \in BOOLEAN
  PROVE  LET u == Update(d, updated, revs, final) IN Current(u) /\ StillShows(d, u)
  <1> DEFINE confirmed == /\ final /\ d.slot.key \in updated /\ ~d.slot.placeholder
                          /\ ~d.segs[d.slot.key].final
             e == IF confirmed THEN Confirmed(d) ELSE d
             seg(s) == [Finalized(e.segs[s], final) EXCEPT !.order = Order(s)]
             S == [s \in SegIds |->
                     IF s \notin updated THEN e.segs[s]
                     ELSE IF revs[s] > seg(s).expected.rev THEN Revised(seg(s), revs[s])
                     ELSE seg(s)]
             u == Update(d, updated, revs, final)
  <1>1. Typed(d) /\ Typed(e) /\ Current(e) /\ StillShows(d, e) /\ e.segs = d.segs
    BY ConfirmedShows, StillShowsItself, StillShowsOn DEF Steady
  <1>2. u = [e EXCEPT !.segs = S] /\ Typed(u)
    <2>1. u = [e EXCEPT !.segs = S]
      BY DEF Update
    <2>2. Typed(u)
      <3> HIDE DEF u
      <3>1. LET x == Update(d, updated, revs, final) IN Steady(x, h)
        BY UpdateSteady
      <3> QED BY <3>1 DEF u, Steady
    <2> QED BY <2>1, <2>2
  <1> HIDE DEF e
  <1>3. ASSUME NEW s \in SegIds
        PROVE  /\ S[s].display = d.segs[s].display /\ S[s].job = d.segs[s].job
               /\ S[s].left = d.segs[s].left /\ S[s].index = d.segs[s].index
               /\ NoOlder(d.segs[s].expected, S[s].expected)
    <2>0. /\ d.segs[s] \in Segments /\ d.segs[s].expected \in Jobs /\ d.segs[s].expected.rev \in Nat
          /\ NoOlder(d.segs[s].expected, d.segs[s].expected)
      BY <1>1, Fields, JobOrder DEF PagedSegments, Jobs
    <2>1. CASE s \notin updated
      BY <1>1, <2>0, <2>1
    <2>2. CASE s \in updated
      <3>3. /\ seg(s) \in [display : Displays, expected : Jobs, processed : BOOLEAN,
                           final : BOOLEAN, job : Jobs, order : Nat, anchor : SegIds \cup {0},
                           index : 0..MaxPages, left : 0..MaxPages, ambiguous : BOOLEAN,
                           age : 0..StaleAge]
            /\ seg(s).display = d.segs[s].display
            /\ seg(s).job = d.segs[s].job /\ seg(s).left = d.segs[s].left
            /\ seg(s).index = d.segs[s].index /\ seg(s).expected = d.segs[s].expected
        BY <1>1, <2>0, IdsAssumption DEF Finalized, Segments
      <3> HIDE DEF seg
      <3>4. /\ Revised(seg(s), revs[s]).display = d.segs[s].display
            /\ Revised(seg(s), revs[s]).job = d.segs[s].job
            /\ Revised(seg(s), revs[s]).left = d.segs[s].left
            /\ Revised(seg(s), revs[s]).index = d.segs[s].index
            /\ Revised(seg(s), revs[s]).expected = FirstJob(revs[s])
        BY <3>3 DEF Revised
      <3>5. revs[s] > d.segs[s].expected.rev => NoOlder(d.segs[s].expected, FirstJob(revs[s]))
        <4>1. revs[s] \in Nat
          BY <2>2
        <4>2. FirstJob(revs[s]).rev = revs[s]
          BY DEF FirstJob
        <4> QED BY <2>0, <4>1, <4>2 DEF NoOlder
      <3> QED BY <2>0, <2>2, <3>3, <3>4, <3>5
    <2> QED BY <2>1, <2>2
  <1> HIDE DEF S
  <1>5. u.segs = S /\ u.slot = e.slot
    BY <1>1, <1>2 DEF Typed
  <1> HIDE DEF u
  <1>6. Current(u) /\ StillShows(e, u)
    BY <1>1, <1>2, <1>3, <1>5, QuietShows DEF Lives
  <1>7. StillShows(d, u)
    BY <1>1, <1>2, <1>6, StillShowsItself, StillShowsOn
  <1> QED
    BY <1>6, <1>7 DEF u

LEMMA ReplaceShows ==
  ASSUME NEW d, NEW h \in Nat, Steady(d, h), Current(d),
         NEW fresh \in SUBSET SegIds, \A s \in fresh : h < s,
         NEW olds \in [SegIds -> SUBSET SegIds],
         NEW revs, \A s \in fresh : revs[s] \in 0..MaxRevision, NEW final \in BOOLEAN
  PROVE  LET r == Replace(d, fresh, olds, revs, final) IN
         Typed(r) /\ Current(r) /\ StillShows(d, r)
  <1> DEFINE replaced == UNION {olds[s] : s \in fresh}
             lost == {s \in fresh : \E o \in olds[s] : ~Replaceable(d, o)}
             c == IF final /\ d.slot.key \in replaced THEN Confirmed(d) ELSE d
             e == RetireSegments(c, replaced, "Replaced")
             new(s) == NewSegment(d, s, revs[s], fresh, olds, final)
             S == [s \in SegIds |-> IF s \in fresh THEN new(s) ELSE e.segs[s]]
             n == [e EXCEPT !.segs = S]
             r == RetireSegments(n, lost, "ReconcileAmbiguous")
  <1>1. Typed(d) /\ Typed(c) /\ Current(c) /\ StillShows(d, c) /\ c.slot.key = d.slot.key
    BY ConfirmedShows, StillShowsItself, StillShowsOn DEF Steady
  <1> HIDE DEF c
  <1>2. Typed(e) /\ Current(e) /\ StillShows(c, e) /\ e.slot.key = d.slot.key
    BY <1>1, RetireShows, RetiredFacts
  <1> HIDE DEF e
  <1>3. ASSUME NEW s \in fresh
        PROVE  new(s) \in PagedSegments /\ new(s).job = NoJob /\ new(s).expected = FirstJob(revs[s])
    BY <1>3, <1>1, NewSegmentType DEF NewSegment, Absent
  <1> HIDE DEF new
  <1>4. S \in [SegIds -> PagedSegments]
    BY <1>2, <1>3 DEF Typed
  <1>5. n.segs = S /\ n.slot = e.slot /\ Typed(n)
    BY <1>2, <1>4 DEF Typed
  <1> HIDE DEF n
  <1>6. e.slot.key \in SegIds \cup {0} /\ e.slot.key \notin fresh
    <2>1. d.slot.key \in SegIds \cup {0}
      BY <1>1, Fields
    <2>2. d.slot.key # 0 => d.segs[d.slot.key].display # "Absent" /\ d.slot.key <= h
      BY <2>1 DEF Steady, OwnsSlot, LivesAllocated
    <2> QED BY <1>2, <2>1, <2>2, NoId
  <1>7. Current(n)
    <2>1. n.slot.page >= Smaller(n.slot.hold, MinPage)
      BY <1>2, <1>5 DEF Current
    <2>2. n.slot.placeholder => n.slot.key \in SegIds /\ n.segs[n.slot.key].left = 0
      BY <1>2, <1>5, <1>6 DEF Current
    <2>3. ASSUME NEW s \in Live(n) PROVE NoOlder(n.segs[s].job, n.segs[s].expected)
      <3>1. CASE s \in fresh
        <4>1. revs[s] \in Nat
          BY <3>1, LimitsAssumption
        <4>2. n.segs[s] = new(s)
          BY <1>5, <3>1
        <4>3. n.segs[s].job = NoJob /\ n.segs[s].expected = FirstJob(revs[s])
          BY <1>3, <3>1, <4>2
        <4> QED
          BY <4>1, <4>3 DEF NoOlder, NoJob, FirstJob
      <3>2. CASE s \notin fresh
        BY <1>2, <1>5, <3>2 DEF Current, Live
      <3> QED BY <3>1, <3>2
    <2> QED BY <2>1, <2>2, <2>3 DEF Current
  <1>8. StillShows(e, n)
    BY <1>2, <1>5, <1>6, Fields, JobOrder DEF StillShows
  <1>9. Typed(r) /\ Current(r) /\ StillShows(n, r)
    BY <1>5, <1>7, RetireShows
  <1> HIDE DEF r
  <1>10. StillShows(d, r)
    BY <1>1, <1>2, <1>5, <1>8, <1>9, StillShowsItself, StillShowsOn
  <1>11. r = Replace(d, fresh, olds, revs, final)
    BY DEF r, n, new, e, c, Replace
  <1> QED
    BY <1>9, <1>10, <1>11

\* One segment that changes and is on the same page as before.
LEMMA SegmentShows ==
  ASSUME NEW d, Typed(d), Current(d), NEW s \in SegIds, NEW seg \in PagedSegments,
         seg.index = d.segs[s].index, NoOlder(d.segs[s].job, seg.job),
         Lives(seg) => NoOlder(seg.job, seg.expected),
         d.slot.key = s /\ d.slot.placeholder => seg.left = 0
  PROVE  LET e == [d EXCEPT !.segs[s] = seg] IN
         /\ Typed(e) /\ Current(e) /\ StillShows(d, e)
         /\ e.slot = d.slot /\ e.segs = [d.segs EXCEPT ![s] = seg]
  <1> DEFINE e == [d EXCEPT !.segs[s] = seg]
  <1>1. /\ e.segs = [d.segs EXCEPT ![s] = seg] /\ e.slot = d.slot /\ Typed(e)
    BY DEF Typed
  <1> HIDE DEF e
  <1>2. e.segs[s] = seg /\ \A t \in SegIds \ {s} : e.segs[t] = d.segs[t]
    BY <1>1 DEF Typed
  <1>3. Current(e)
    BY <1>1, <1>2 DEF Current, Live
  <1>4. StillShows(d, e)
    BY <1>1, <1>2, Fields, JobOrder DEF StillShows
  <1> QED
    BY <1>1, <1>3, <1>4 DEF e

LEMMA RealignedKeeps ==
  ASSUME NEW seg \in PagedSegments, NEW index, NEW pages, NEW aligned
  PROVE  LET r == Realigned(seg, index, pages, aligned) IN
         /\ r.index = index /\ r.job = seg.job /\ r.expected = seg.expected
         /\ r.order = seg.order /\ r.display = seg.display
  <1>1. seg \in Segments
    BY DEF PagedSegments
  <1>2. CASE aligned /\ (index = 0 \/ pages > index)
    BY <1>1, <1>2 DEF Realigned, Segments
  <1>3. CASE ~(aligned /\ (index = 0 \/ pages > index))
    BY <1>1, <1>3 DEF Realigned, Segments
  <1> QED
    BY <1>2, <1>3

LEMMA ExpectingShows ==
  ASSUME NEW d, Typed(d), Current(d), NEW s \in SegIds, NEW job \in Jobs
  PROVE  LET e == Expecting(d, s, job) IN Typed(e) /\ Current(e) /\ StillShows(d, e)
  <1> DEFINE asked == /\ s \in Live(d) /\ job.rev = d.segs[s].expected.rev
                      /\ job.att > d.segs[s].expected.att
             seg == [d.segs[s] EXCEPT !.expected = job, !.processed = FALSE]
  <1>1. CASE asked
    <2>1. /\ d.segs[s] \in PagedSegments /\ d.segs[s] \in Segments
          /\ d.segs[s].job \in Jobs /\ d.segs[s].expected \in Jobs
      BY Fields DEF PagedSegments
    <2>2. /\ seg \in PagedSegments /\ seg.index = d.segs[s].index /\ seg.job = d.segs[s].job
          /\ seg.expected = job /\ seg.left = d.segs[s].left
      BY <2>1 DEF Segments, PagedSegments, PagesFit
    <2>3. NoOlder(d.segs[s].expected, job)
      <3>1. d.segs[s].expected.att \in Nat /\ job.att \in Nat
        BY <2>1 DEF Jobs
      <3> QED BY <1>1, <3>1 DEF NoOlder
    <2>4. NoOlder(d.segs[s].job, seg.job) /\ NoOlder(seg.job, seg.expected)
      <3>1. NoOlder(d.segs[s].job, d.segs[s].expected)
        BY <1>1 DEF Current
      <3> QED BY <2>1, <2>2, <2>3, <3>1, JobOrder
    <2>5. d.slot.key = s /\ d.slot.placeholder => seg.left = 0
      BY <2>2 DEF Current
    <2>6. [d EXCEPT !.segs[s].expected = job, !.segs[s].processed = FALSE]
          = [d EXCEPT !.segs[s] = seg]
      BY DEF Typed, Segments, PagedSegments
    <2> HIDE DEF seg
    <2>7. LET e == [d EXCEPT !.segs[s] = seg] IN Typed(e) /\ Current(e) /\ StillShows(d, e)
      BY <2>2, <2>4, <2>5, SegmentShows
    <2> QED
      BY <1>1, <2>6, <2>7 DEF Expecting
  <1>2. CASE ~asked
    BY <1>2, StillShowsItself DEF Expecting
  <1> QED
    BY <1>1, <1>2

LEMMA UpdateVisibleShows ==
  ASSUME NEW d, NEW h, Steady(d, h), WindowHolds(d), Current(d), NEW s \in Live(d),
         d.slot.key = s, NEW pages \in 1..MaxPages, NEW aligned, ~d.slot.placeholder
  PROVE  LET e == UpdateVisible(d, s, pages, aligned) IN
         Typed(e) /\ Current(e) /\ StillShows(d, e)
  <1> DEFINE seg == d.segs[s]
             new == Realigned(seg, seg.index, pages, ~seg.ambiguous /\ aligned)
             sl == [Restarted(d.slot) EXCEPT !.dirty = TRUE]
             w == ReplaceChunk(d.window, s, s)
             v == UpdateVisible(d, s, pages, aligned)
  <1>1. s \in SegIds /\ Typed(d) /\ seg \in PagedSegments /\ Lives(seg)
    BY DEF Steady, Live, Typed
  <1>2. new.index = seg.index /\ new.job = seg.job /\ new.expected = seg.expected
    <2> HIDE DEF seg
    <2> QED BY <1>1, RealignedKeeps
  <1> HIDE DEF new
  <1>3. Typed(v)
    <2>1. Steady(v, h)
      BY UpdateVisibleSteady
    <2> QED BY <2>1 DEF Steady
  <1>4. sl.key = s /\ ~sl.placeholder /\ sl.page = 0 /\ sl.hold = 0
    BY <1>1 DEF Restarted, Typed, Slots
  <1> HIDE DEF sl, w
  <1>5. v.segs = [d.segs EXCEPT ![s] = new] /\ v.slot = sl
    BY <1>1 DEF UpdateVisible, Typed, new, sl, w
  <1> HIDE DEF v
  <1>6. v.segs[s] = new /\ \A t \in SegIds \ {s} : v.segs[t] = d.segs[t]
    BY <1>1, <1>5 DEF Typed
  <1>7. NoOlder(seg.job, seg.expected) /\ NoOlder(seg.job, seg.job)
    BY <1>1, Fields, JobOrder DEF Current
  <1>8. Current(v)
    <2>1. v.slot.page >= Smaller(v.slot.hold, MinPage)
      BY <1>4, <1>5, LimitsAssumption DEF Smaller
    <2>2. \A t \in Live(v) : NoOlder(v.segs[t].job, v.segs[t].expected)
      BY <1>2, <1>6, <1>7 DEF Current, Live
    <2> QED BY <1>4, <1>5, <2>1, <2>2 DEF Current
  <1>9. StillShows(d, v)
    BY <1>2, <1>4, <1>5, <1>6, <1>7 DEF StillShows
  <1> QED
    BY <1>3, <1>8, <1>9 DEF v

LEMMA TakenShows ==
  ASSUME NEW d, NEW h, Steady(d, h), WindowHolds(d), Current(d), NEW s \in Live(d),
         NEW job \in Jobs, Accepts(d.segs[s], job), NEW pages \in 0..MaxPages, NEW aligned
  PROVE  LET r == Taken(d, s, job, pages, aligned) IN Current(r) /\ StillShows(d, r)
  <1> DEFINE seg == [d.segs[s] EXCEPT !.processed = TRUE]
             told == [seg EXCEPT !.job = job]
             shown == [told EXCEPT !.left = pages]
             e == [d EXCEPT !.segs[s].processed = TRUE]
             t == [e EXCEPT !.segs[s].job = job]
             x == [t EXCEPT !.segs[s].left = pages]
  <1>1. /\ s \in SegIds /\ Typed(d) /\ d.segs[s] \in PagedSegments /\ d.segs[s].job \in Jobs
        /\ Lives(d.segs[s])
    BY Fields DEF Steady, Live, Typed
  <1>2. NoOlder(d.segs[s].job, job) /\ NoOlder(job, job) /\ NoOlder(d.segs[s].job, d.segs[s].job)
    BY <1>1, JobOrder DEF Current, Accepts
  <1>a. ~(d.slot.key = s /\ d.slot.placeholder)
    BY <1>1 DEF Steady, OwnsSlot, Lives
  <1>b. d.segs[s].expected = job
    BY DEF Accepts
  <1>3. /\ seg \in PagedSegments /\ seg.display = d.segs[s].display /\ seg.job = d.segs[s].job
        /\ seg.expected = d.segs[s].expected /\ seg.index = d.segs[s].index
        /\ seg.anchor = d.segs[s].anchor /\ seg.left = d.segs[s].left
        /\ seg.ambiguous = d.segs[s].ambiguous
    BY <1>1 DEF Segments, PagedSegments, PagesFit
  <1>4. /\ told \in PagedSegments /\ told.display = d.segs[s].display /\ told.job = job
        /\ told.expected = d.segs[s].expected /\ told.index = d.segs[s].index
        /\ told.anchor = d.segs[s].anchor /\ told.left = d.segs[s].left
        /\ told.ambiguous = d.segs[s].ambiguous
    BY <1>3 DEF Segments, PagedSegments, PagesFit
  <1>c. d.segs[s].display = "Waiting" => d.segs[s].index = 0 /\ ~d.segs[s].ambiguous
    BY <1>1 DEF Steady, WaitingUnread, Waiting, With
  <1>5. ASSUME ~Shows(d, s)
        PROVE  /\ shown \in PagedSegments /\ shown.job = job
               /\ shown.expected = d.segs[s].expected /\ shown.index = d.segs[s].index
    <2>1. /\ shown \in Segments /\ shown.left = pages /\ shown.job = job
          /\ shown.expected = d.segs[s].expected /\ shown.index = d.segs[s].index
          /\ shown.ambiguous = d.segs[s].ambiguous
      BY <1>4 DEF Segments, PagedSegments
    <2>2. d.segs[s].display = "Waiting"
      BY <1>1, <1>5 DEF Shows, Steady, OwnsSlot, Lives
    <2>3. PagesFit(shown)
      BY <1>c, <2>1, <2>2 DEF PagesFit
    <2> QED BY <2>1, <2>3 DEF PagedSegments
  <1>6. /\ e = [d EXCEPT !.segs[s] = seg]
        /\ t = [d EXCEPT !.segs[s] = told]
        /\ x = [d EXCEPT !.segs[s] = shown]
    BY <1>1 DEF Typed, Segments, PagedSegments, PagesFit
  <1>7. Taken(d, s, job, pages, aligned) =
          IF d.slot.key = s /\ HoldOver(d) THEN e
          ELSE IF pages = 0
               THEN IF d.segs[s].left = 0 THEN RetireSegments(e, {s}, "TranslationFailed") ELSE e
          ELSE IF Shows(d, s) THEN UpdateVisible(t, s, pages, aligned)
          ELSE x
    BY DEF Taken
  <1>8. seg.display = "Waiting" => seg.index = 0 /\ ~seg.ambiguous
    BY <1>3, <1>c
  <1>9. told.display = "Waiting" => told.index = 0 /\ ~told.ambiguous
    BY <1>4, <1>c
  <1> HIDE DEF seg, told, shown, e, t, x
  <1>10. Typed(e) /\ Current(e) /\ StillShows(d, e)
    <2>1. NoOlder(d.segs[s].job, seg.job) /\ NoOlder(seg.job, seg.expected)
      BY <1>2, <1>3, <1>b
    <2> QED BY <1>1, <1>3, <1>6, <1>a, <2>1, SegmentShows
  <1>11. /\ Typed(t) /\ Current(t) /\ StillShows(d, t) /\ Steady(t, h) /\ WindowHolds(t)
         /\ t.slot = d.slot /\ t.segs = [d.segs EXCEPT ![s] = told]
    <2>1. NoOlder(d.segs[s].job, told.job) /\ NoOlder(told.job, told.expected)
      BY <1>2, <1>4, <1>b
    <2>2. /\ Typed(t) /\ Current(t) /\ StillShows(d, t)
      BY <1>1, <1>4, <1>6, <1>a, <2>1, SegmentShows
    <2>3. Steady(t, h) /\ WindowHolds(t) /\ t.slot = d.slot /\ t.segs = [d.segs EXCEPT ![s] = told]
      BY <1>4, <1>6, <1>9, SegmentSteady
    <2> QED BY <2>2, <2>3
  <1>12. ASSUME ~Shows(d, s) PROVE Current(x) /\ StillShows(d, x)
    <2>1. NoOlder(d.segs[s].job, shown.job) /\ NoOlder(shown.job, shown.expected)
      BY <1>2, <1>5, <1>12, <1>b
    <2> QED BY <1>1, <1>5, <1>6, <1>a, <1>12, <2>1, SegmentShows
  <1>13. LET r == RetireSegments(e, {s}, "TranslationFailed") IN Current(r) /\ StillShows(d, r)
    BY <1>1, <1>10, RetireShows, StillShowsOn
  <1>14. ASSUME Shows(d, s), pages # 0
         PROVE  LET r == UpdateVisible(t, s, pages, aligned) IN Current(r) /\ StillShows(d, r)
    <2>1. s \in Live(t)
      BY <1>1, <1>4, <1>11 DEF Live, Lives, Typed
    <2>2. t.slot.key = s /\ ~t.slot.placeholder /\ pages \in 1..MaxPages
      BY <1>11, <1>14 DEF Shows
    <2>3. LET r == UpdateVisible(t, s, pages, aligned) IN
          Typed(r) /\ Current(r) /\ StillShows(t, r)
      BY <1>11, <2>1, <2>2, UpdateVisibleShows
    <2> QED BY <1>1, <1>11, <2>3, StillShowsOn
  <1> QED
    BY <1>7, <1>10, <1>12, <1>13, <1>14

LEMMA RegisteredShows ==
  ASSUME ComposerInv, Current(Now), NEW fresh \in SUBSET SegIds, NEW olds \in SUBSET SegIds,
         NEW updated, NEW revs, NEW final \in BOOLEAN,
         \A s \in SegIds : s \in fresh \cup updated => revs[s] \in 0..MaxRevision
  PROVE  LET r == Registered(Now, fresh, [s \in SegIds |-> olds], updated, revs, final) IN
         Current(r) /\ StillShows(Now, r)
  <1> DEFINE d == Now
             all == [s \in SegIds |-> olds]
             u == Update(d, updated, revs, final)
             r == Replace(u, fresh, all, revs, final)
  <1>1. Steady(d, highWater) /\ WindowHolds(d) /\ Current(d) /\ Typed(d)
    BY NowKeeps DEF Steady
  <1>2. highWater \in Nat
    BY NoId DEF ComposerInv, TypeOK
  <1> HIDE DEF d
  <1>3. CASE Refused(d, fresh, updated) \/ Full(d, fresh)
    <2>1. Registered(d, fresh, all, updated, revs, final) = d
      BY <1>3 DEF Registered
    <2> QED
      BY <1>1, <2>1, StillShowsItself DEF d
  <1>4. CASE ~Refused(d, fresh, updated) /\ ~Full(d, fresh)
    <2>1. updated \in SUBSET Live(d) /\ \A s \in updated : revs[s] \in 0..MaxRevision
      BY <1>4 DEF Refused, Live
    <2>2. Steady(u, highWater) /\ Typed(u) /\ Current(u) /\ StillShows(d, u)
      BY <1>1, <2>1, UpdateSteady, UpdateShows DEF Steady
    <2> HIDE DEF u
    <2>3. \A s \in fresh : highWater < s
      BY <1>2, <1>4, NoId DEF Refused
    <2>4. all \in [SegIds -> SUBSET SegIds] /\ \A s \in fresh : revs[s] \in 0..MaxRevision
      OBVIOUS
    <2> HIDE DEF all
    <2>5. Typed(r) /\ Current(r) /\ StillShows(u, r)
      BY <1>2, <2>2, <2>3, <2>4, ReplaceShows
    <2> HIDE DEF r
    <2>6. LET x == EnforceWaiting(r) IN Typed(x) /\ Current(x) /\ StillShows(r, x)
      BY <2>5, RetireShows DEF EnforceWaiting
    <2>7. StillShows(d, r)
      BY <1>1, <2>2, <2>5, StillShowsOn
    <2>8. StillShows(d, EnforceWaiting(r))
      BY <1>1, <2>5, <2>6, <2>7, StillShowsOn
    <2>9. Registered(d, fresh, all, updated, revs, final) = EnforceWaiting(r)
      BY <1>4 DEF Registered, r, u
    <2> QED
      BY <2>6, <2>8, <2>9 DEF d, all
  <1> QED
    BY <1>3, <1>4

-----------------------------------------------------------------------------
(* What expire and a new configuration leave of the display. *)

ShortestPage(D, c) == Smaller(PageMinimum(D.config), PageMinimum(c))
ShortestHold(D, c) == Smaller(D.config.hold, c.hold)

\* The caption of D waits for a replacement that may still come.
Awaited(D) ==
    /\ D.slot.placeholder /\ ~D.slot.leave
    /\ \E s \in Waiting(D) : D.segs[s].anchor = D.slot.key /\ D.segs[s].age < StaleAge

\* The caption of D is gone, not before its time, and so is what was to replace it.
Gone(D, c, d) ==
    /\ D.slot.key # 0 /\ d.slot.key = 0
    /\ D.slot.page >= ShortestPage(D, c)
    /\ Awaited(D) => D.slot.hold >= ShortestHold(D, c)
    /\ \A s \in SegIds : s = D.slot.key \/ D.segs[s].anchor = D.slot.key =>
          d.segs[s].display # "Waiting"

\* The caption of D is on display in d as it was, and what may replace it still waits.
Untouched(D, d) ==
    /\ d.slot.key = D.slot.key /\ d.slot.page = D.slot.page /\ d.slot.hold = D.slot.hold
    /\ d.slot.placeholder = D.slot.placeholder /\ d.slot.leave = D.slot.leave
    /\ \A s \in SegIds : D.segs[s].display = "Waiting" /\ D.segs[s].age < StaleAge =>
          d.segs[s].display = "Waiting" /\ d.segs[s].age = D.segs[s].age

\* d is what a call that began with the display D has made of it so far; c is the
\* configuration it ends with.
OnTheWay(D, c, d) ==
    /\ d.config \in {D.config, c}
    /\ \A s \in SegIds : /\ d.segs[s].anchor = D.segs[s].anchor
                         /\ d.segs[s].index = D.segs[s].index
                         /\ d.segs[s].job = D.segs[s].job
                         /\ d.segs[s].display = "Waiting" => D.segs[s].display = "Waiting"
    /\ Gone(D, c, d) \/ Untouched(D, d)

LEMMA FreshWay ==
  ASSUME NEW D, NEW c, NEW d, NEW h, Steady(d, h), Current(d), OnTheWay(D, c, d)
  PROVE  LET f == Fresh(d) IN
         /\ Typed(f) /\ Current(f) /\ OnTheWay(D, c, f)
         /\ f.slot = d.slot /\ f.config = d.config
         /\ \A s \in SegIds : f.segs[s].display = "Waiting" => f.segs[s] = d.segs[s]
  <1> DEFINE f == Fresh(d)
  <1>1. Typed(d) /\ Typed(f) /\ Current(f)
    BY RetireShows DEF Steady, Fresh
  <1>2. /\ \A s \in SegIds : f.segs[s] = IF Lives(d.segs[s]) /\ s \in Stale(d)
                                          THEN Tombstone(d.segs[s]) ELSE d.segs[s]
        /\ f.config = d.config
    BY <1>1, RetiredFacts DEF Fresh
  <1>3. f.slot = d.slot
    <2>1. ~(d.slot.key \in Stale(d) \cap SegIds /\ Lives(d.segs[d.slot.key]))
      BY DEF Steady, OwnsSlot, Stale, Waiting, With
    <2> QED BY <1>1, <2>1, RetiredSlot DEF Fresh
  <1> HIDE DEF f
  <1>4. \A s \in SegIds : /\ d.segs[s] \in PagedSegments
                          /\ \/ f.segs[s] = d.segs[s] /\ s \notin Stale(d)
                             \/ s \in Stale(d) /\ f.segs[s] = Tombstone(d.segs[s])
    BY <1>1, <1>2, Fields DEF Stale, Waiting, With, Lives
  <1>5. \A s \in SegIds : /\ f.segs[s].anchor = d.segs[s].anchor
                          /\ f.segs[s].index = d.segs[s].index /\ f.segs[s].job = d.segs[s].job
                          /\ f.segs[s].display = "Waiting" =>
                                s \notin Stale(d) /\ f.segs[s] = d.segs[s]
    BY <1>4, TombstoneType, TombstoneKeeps
  <1>6. \A s \in SegIds : d.segs[s].display = "Waiting" /\ d.segs[s].age < StaleAge =>
           f.segs[s] = d.segs[s]
    <2>1. \A s \in SegIds : d.segs[s].age \in Nat
      BY <1>1, Fields
    <2>2. StaleAge \in Nat
      BY LimitsAssumption
    <2>3. \A s \in SegIds : d.segs[s].age < StaleAge => s \notin Stale(d)
      BY <2>1, <2>2 DEF Stale
    <2> QED BY <1>4, <2>3
  <1>7. CASE Gone(D, c, d)
    <2>1. Gone(D, c, f)
      BY <1>3, <1>5, <1>7 DEF Gone
    <2> QED BY <1>1, <1>2, <1>3, <1>5, <2>1 DEF OnTheWay, f
  <1>8. CASE Untouched(D, d)
    <2>1. Untouched(D, f)
      BY <1>3, <1>6, <1>8 DEF Untouched
    <2> QED BY <1>1, <1>2, <1>3, <1>5, <2>1 DEF OnTheWay, f
  <1> QED
    BY <1>7, <1>8 DEF OnTheWay

\* The bounds the code waits for before it clears the slot.
LEMMA MinimumsHold ==
  ASSUME NEW D, Typed(D), NEW c \in Configs, NEW d, Typed(d), Current(d),
         Untouched(D, d), d.config \in {D.config, c}
  PROVE  /\ PageRead(d) => D.slot.page >= ShortestPage(D, c)
         /\ HoldOver(d) => /\ D.slot.page >= ShortestPage(D, c)
                           /\ D.slot.hold >= ShortestHold(D, c)
  <1>1. /\ D.config.hold \in Nat /\ c.hold \in Nat /\ d.config.hold \in {D.config.hold, c.hold}
        /\ MinPage \in Nat /\ D.slot.page \in Nat /\ D.slot.hold \in Nat
        /\ d.slot.page = D.slot.page /\ d.slot.hold = D.slot.hold
    BY Fields, IdsAssumption, LimitsAssumption DEF Untouched
  <1>2. PageRead(d) => D.slot.page >= ShortestPage(D, c)
    BY <1>1 DEF PageRead, ShortestPage, PageMinimum, Smaller
  <1>3. HoldOver(d) => PageRead(d) /\ D.slot.hold >= ShortestHold(D, c)
    BY <1>1 DEF Current, HoldOver, PageRead, PageMinimum, ShortestHold, Smaller
  <1> QED
    BY <1>2, <1>3

LEMMA ClearedWay ==
  ASSUME NEW D, Typed(D), NEW c \in Configs, NEW d, NEW h, Steady(d, h), Current(d),
         OnTheWay(D, c, d), d.slot.key # 0, D.slot.page >= ShortestPage(D, c),
         Awaited(D) => D.slot.hold >= ShortestHold(D, c), NEW preserve \in BOOLEAN
  PROVE  LET r == ClearSlot(d, preserve) IN
         Typed(r) /\ Current(r) /\ OnTheWay(D, c, r) /\ Gone(D, c, r)
  <1> DEFINE r == ClearSlot(d, preserve)
  <1>1. /\ Typed(r) /\ Typed(d) /\ r.slot.key = 0 /\ r.config = d.config
        /\ \A s \in SegIds : r.segs[s] = IF Lives(d.segs[s]) /\ s \in {d.slot.key} \cup Anchored(d)
                                         THEN Tombstone(d.segs[s]) ELSE d.segs[s]
    BY ClearSteady DEF Steady
  <1>2. r.slot = NoSlot
    <2> DEFINE t == RetireSegments(d, {d.slot.key} \cup Anchored(d), "Completed")
    <2>1. Typed(t)
      BY <1>1, RetiredFacts
    <2>2. r = [t EXCEPT !.slot = NoSlot, !.window = IF preserve THEN @ ELSE << >>]
      BY DEF ClearSlot
    <2> HIDE DEF t, r
    <2> QED BY <2>1, <2>2 DEF Typed
  <1> HIDE DEF r
  <1>3. \A s \in SegIds : /\ d.segs[s] \in PagedSegments
                          /\ \/ r.segs[s] = d.segs[s]
                                /\ ~(Lives(d.segs[s]) /\ s \in {d.slot.key} \cup Anchored(d))
                             \/ r.segs[s] = Tombstone(d.segs[s])
    BY <1>1, Fields
  <1>4. \A s \in SegIds : /\ r.segs[s].anchor = d.segs[s].anchor
                          /\ r.segs[s].index = d.segs[s].index /\ r.segs[s].job = d.segs[s].job
                          /\ Lives(r.segs[s]) => r.segs[s] = d.segs[s]
                                                 /\ s \notin {d.slot.key} \cup Anchored(d)
    BY <1>3, TombstoneType, TombstoneKeeps
  <1>5. Untouched(D, d)
    BY DEF OnTheWay, Gone
  <1>6. Gone(D, c, r)
    <2>1. D.slot.key = d.slot.key
      BY <1>5 DEF Untouched
    <2>2. ASSUME NEW s \in SegIds, s = D.slot.key \/ D.segs[s].anchor = D.slot.key
          PROVE  r.segs[s].display # "Waiting"
      <3>1. s = d.slot.key \/ d.segs[s].anchor = d.slot.key
        BY <2>1, <2>2 DEF OnTheWay
      <3>2. s \in {d.slot.key} \cup Anchored(d)
        BY <3>1 DEF Anchored
      <3> QED BY <1>4, <3>2 DEF Lives
    <2> QED BY <1>1, <2>1, <2>2 DEF Gone
  <1>7. OnTheWay(D, c, r)
    BY <1>1, <1>4, <1>6 DEF OnTheWay, Lives
  <1>8. Current(r)
    <2>1. r.slot.page = 0 /\ r.slot.hold = 0 /\ ~r.slot.placeholder
      BY <1>2 DEF NoSlot
    <2>2. r.slot.page >= Smaller(r.slot.hold, MinPage)
      BY <2>1, LimitsAssumption DEF Smaller
    <2>3. \A s \in Live(r) : NoOlder(r.segs[s].job, r.segs[s].expected)
      BY <1>4 DEF Current, Live
    <2> QED BY <2>1, <2>2, <2>3 DEF Current
  <1> QED
    BY <1>1, <1>6, <1>7, <1>8 DEF r

LEMMA ExpireWay ==
  ASSUME NEW D, Typed(D), NEW c \in Configs, NEW d, NEW h, Steady(d, h), Current(d),
         OnTheWay(D, c, d)
  PROVE  Current(Expire(d)) /\ OnTheWay(D, c, Expire(d))
  <1> DEFINE f == Fresh(d)
  <1>1. /\ Typed(f) /\ Current(f) /\ OnTheWay(D, c, f) /\ f.slot = d.slot /\ f.config = d.config
    BY FreshWay
  <1>2. Steady(f, h)
    BY RetireSteady DEF Fresh
  <1>a. Expire(d) = IF Expired(d) THEN ClearSlot(f, FALSE) ELSE f
    BY DEF Expire
  <1> HIDE DEF f
  <1>3. CASE Expired(d)
    <2>1. d.slot.key # 0 /\ ((PageRead(d) /\ MorePages(d)) \/ HoldOver(d))
      BY <1>3 DEF Expired
    <2>2. Untouched(D, d) /\ d.config \in {D.config, c} /\ Typed(d)
      BY <2>1 DEF OnTheWay, Gone, Steady
    <2>3. d.slot.placeholder => ~MorePages(d)
      BY DEF Current, MorePages
    <2>4. d.slot.placeholder = D.slot.placeholder
      BY <2>2 DEF Untouched
    <2>5. /\ D.slot.page >= ShortestPage(D, c)
          /\ Awaited(D) => D.slot.hold >= ShortestHold(D, c)
      BY <2>1, <2>2, <2>3, <2>4, MinimumsHold DEF Awaited
    <2>a. f.slot.key # 0 /\ FALSE \in BOOLEAN
      BY <1>1, <2>1
    <2>6. LET r == ClearSlot(f, FALSE) IN Current(r) /\ OnTheWay(D, c, r)
      BY <1>1, <1>2, <2>a, <2>5, ClearedWay
    <2> QED BY <1>3, <1>a, <2>6
  <1>4. CASE ~Expired(d)
    BY <1>1, <1>4, <1>a
  <1> QED
    BY <1>3, <1>4

LEMMA ReconfiguredWay ==
  ASSUME NEW D, NEW c \in Configs, NEW d, NEW h, Steady(d, h), WindowHolds(d), Current(d),
         OnTheWay(D, c, d), NEW pages, \A s \in SegIds : pages[s] \in 1..MaxPages
  PROVE  LET r == Reconfigured(d, c, pages) IN
         Current(r) /\ OnTheWay(D, c, r) /\ r.config = c /\ Typed(r) /\ StillShows(d, r)
  <1> DEFINE rewrap == c.layout # d.config.layout
             shown == rewrap /\ d.slot.key # 0 /\ ~d.slot.placeholder
             T == [s \in SegIds |-> Rewrapped(d.segs[s], pages[s])]
             S == IF rewrap THEN T ELSE d.segs
             sl == [d.slot EXCEPT !.dirty = @ \/ shown]
             w == IF shown THEN ReplaceChunk(d.window, d.slot.key, d.slot.key) ELSE d.window
             r == Reconfigured(d, c, pages)
  <1>1. Typed(d) /\ Typed(r) /\ d.slot \in Slots
    <2>1. Steady(r, h)
      BY ReconfiguredSteady
    <2> QED BY <2>1 DEF Steady, Typed
  <1>2. /\ sl.key = d.slot.key /\ sl.page = d.slot.page /\ sl.hold = d.slot.hold
        /\ sl.placeholder = d.slot.placeholder /\ sl.leave = d.slot.leave
    BY <1>1 DEF Slots
  <1>3. ASSUME NEW s \in SegIds
        PROVE  /\ S[s].display = d.segs[s].display /\ S[s].anchor = d.segs[s].anchor
               /\ S[s].index = d.segs[s].index /\ S[s].job = d.segs[s].job
               /\ S[s].expected = d.segs[s].expected /\ S[s].age = d.segs[s].age
               /\ d.segs[s].left = 0 => S[s].left = 0
    <2>1. d.segs[s] \in Segments
      BY <1>1, Fields DEF PagedSegments
    <2>2. LET x == Rewrapped(d.segs[s], pages[s]) IN
               /\ x.display = d.segs[s].display /\ x.anchor = d.segs[s].anchor
               /\ x.index = d.segs[s].index /\ x.job = d.segs[s].job
               /\ x.expected = d.segs[s].expected /\ x.age = d.segs[s].age
               /\ d.segs[s].left = 0 => x.left = 0
      <3>1. CASE d.segs[s].left = 0
        BY <3>1 DEF Rewrapped
      <3>2. CASE d.segs[s].left # 0
        BY <2>1, <3>2 DEF Rewrapped, Segments
      <3> QED BY <3>1, <3>2
    <2> QED BY <2>2
  <1>5. r = DisplayOf(S, sl, w, c)
    BY DEF Reconfigured
  <1> HIDE DEF S, sl, w
  <1>6. r.segs = S /\ r.slot = sl /\ r.config = c
    BY <1>5, DisplayFields
  <1> HIDE DEF r
  <1>7. Current(r) /\ StillShows(d, r)
    <2>1. \A s \in SegIds : NoOlder(d.segs[s].expected, d.segs[s].expected)
      BY <1>1, Fields, JobOrder
    <2> QED
      BY <1>1, <1>2, <1>3, <1>6, <2>1, QuietShows DEF Lives
  <1>8. CASE Gone(D, c, d)
    <2>1. Gone(D, c, r)
      BY <1>2, <1>3, <1>6, <1>8 DEF Gone
    <2> QED BY <1>1, <1>3, <1>6, <1>7, <2>1 DEF OnTheWay, r
  <1>9. CASE Untouched(D, d)
    <2>1. Untouched(D, r)
      BY <1>2, <1>3, <1>6, <1>9 DEF Untouched
    <2> QED BY <1>1, <1>3, <1>6, <1>7, <2>1 DEF OnTheWay, r
  <1> QED
    BY <1>8, <1>9 DEF OnTheWay

\* A call has not done anything to the display it begins with.
LEMMA WayBegins ==
  ASSUME NEW D, NEW c, Typed(D)
  PROVE  OnTheWay(D, c, D)
  BY DEF OnTheWay, Untouched

-----------------------------------------------------------------------------
(* The parts of the properties, between the display a call begins with and the one *)
(* it ends with.                                                                    *)

Takes(D, e) == e.slot.key \in SegIds /\ D.segs[e.slot.key].anchor = D.slot.key

SamePage(D, e) ==
    e.slot.key = D.slot.key /\ e.segs[D.slot.key].index = D.segs[D.slot.key].index

KeptMinimum(D, c, e) ==
    D.slot.key # 0 /\ ~SamePage(D, e) => D.slot.page >= ShortestPage(D, c) \/ Takes(D, e)

NeverBack(D, e) ==
    /\ D.slot.key # 0 /\ e.slot.key = D.slot.key =>
          NoOlder(D.segs[D.slot.key].job, e.segs[D.slot.key].job)
    /\ D.slot.key # 0 /\ e.slot.key # 0 /\ (e.slot.key = D.slot.key \/ Takes(D, e)) =>
          D.segs[D.slot.key].index <= e.segs[e.slot.key].index

InOrder(D, e) ==
    \A s \in Waiting(D) :
       /\ e.slot.key \notin {0, D.slot.key, s} /\ e.segs[s].display = "Waiting"
       /\ D.segs[e.slot.key].anchor \in {0, D.segs[s].anchor}
       => e.segs[e.slot.key].order <= e.segs[s].order

StaysReplaced(D, c, e) ==
    Awaited(D) /\ e.slot.key # D.slot.key => Takes(D, e) \/ D.slot.hold >= ShortestHold(D, c)

Respects(D, c, e) ==
    KeptMinimum(D, c, e) /\ NeverBack(D, e) /\ InOrder(D, e) /\ StaysReplaced(D, c, e)

\* Nothing appears.
LEMMA WayShows ==
  ASSUME NEW D, Typed(D), NEW c, NEW d, Typed(d), NEW e, Typed(e),
         OnTheWay(D, c, d), StillShows(d, e)
  PROVE  Respects(D, c, e)
  <1>1. CASE Untouched(D, d)
    <2>1. e.slot.key = D.slot.key
      BY <1>1 DEF Untouched, StillShows
    <2>2. D.slot.key # 0 =>
            /\ D.slot.key \in SegIds
            /\ e.segs[D.slot.key].index = D.segs[D.slot.key].index
            /\ NoOlder(D.segs[D.slot.key].job, e.segs[D.slot.key].job)
      BY <1>1, Fields DEF Untouched, StillShows, OnTheWay
    <2>3. KeptMinimum(D, c, e)
      BY <2>1, <2>2 DEF KeptMinimum, SamePage
    <2>4. NeverBack(D, e)
      <3>1. D.slot.key # 0 => D.segs[D.slot.key].index \in Nat
        BY <2>2, Fields
      <3> QED BY <2>1, <2>2, <3>1 DEF NeverBack
    <2>5. InOrder(D, e) /\ StaysReplaced(D, c, e)
      BY <2>1 DEF InOrder, StaysReplaced
    <2> QED BY <2>3, <2>4, <2>5 DEF Respects
  <1>2. CASE Gone(D, c, d)
    <2>1. e.slot.key = 0 /\ D.slot.key # 0
      BY <1>2 DEF Gone, StillShows
    <2> QED
      BY <1>2, <2>1 DEF Gone, Respects, KeptMinimum, NeverBack, InOrder, StaysReplaced
  <1> QED
    BY <1>1, <1>2 DEF OnTheWay

-----------------------------------------------------------------------------
(* What tick makes of the display. *)

LEMMA EnterFields ==
  ASSUME NEW d, Typed(d), NEW s \in SegIds
  PROVE  LET e == Enter(d, s) IN
         /\ e.slot.key = s /\ e.slot.page = 0 /\ e.slot.hold = 0 /\ ~e.slot.placeholder
         /\ e.segs[s].display = "Visible"
         /\ \A t \in SegIds : /\ e.segs[t].job = d.segs[t].job
                              /\ e.segs[t].expected = d.segs[t].expected
                              /\ e.segs[t].index = d.segs[t].index
                              /\ e.segs[t].order = d.segs[t].order
                              /\ t # s => e.segs[t] = d.segs[t]
  <1> DEFINE S == [d.segs EXCEPT ![s].display = "Visible", ![s].age = 0]
             life == IF d.slot.key = s THEN d.slot.life ELSE 0
             sl == Owner(d, s, FALSE, life)
             w == Trim(Append(d.window, s))
             e == Enter(d, s)
  <1>1. d.segs \in [SegIds -> PagedSegments] /\ d.segs[s] \in Segments
    BY DEF Typed, PagedSegments
  <1>2. /\ S[s].display = "Visible" /\ S[s].job = d.segs[s].job
        /\ S[s].expected = d.segs[s].expected /\ S[s].index = d.segs[s].index
        /\ S[s].order = d.segs[s].order
        /\ \A t \in SegIds \ {s} : S[t] = d.segs[t]
    BY <1>1 DEF Segments
  <1>3. sl.key = s /\ sl.page = 0 /\ sl.hold = 0 /\ ~sl.placeholder
    BY DEF Owner, NoSlot
  <1>4. e = DisplayOf(S, sl, w, d.config)
    BY DEF Enter
  <1> HIDE DEF S, sl, w
  <1>5. e.segs = S /\ e.slot = sl
    BY <1>4, DisplayFields
  <1> HIDE DEF e
  <1> QED
    BY <1>2, <1>3, <1>5 DEF e

\* A slot with a new owner.
LEMMA AnewCurrent ==
  ASSUME NEW d, Current(d), NEW e, e.slot.page = 0, e.slot.hold = 0, ~e.slot.placeholder,
         \A s \in Live(e) : /\ s \in Live(d) /\ e.segs[s].job = d.segs[s].job
                            /\ e.segs[s].expected = d.segs[s].expected
  PROVE  Current(e)
  BY LimitsAssumption DEF Current, Smaller

LEMMA EnterNextRespects ==
  ASSUME NEW D, Typed(D), Current(D), NEW c, NEW d, Typed(d), Current(d), OnTheWay(D, c, d),
         d.slot.key = 0, NEW h, Steady(EnterNext(d), h)
  PROVE  Current(EnterNext(d)) /\ Respects(D, c, EnterNext(d))
  <1> DEFINE e == EnterNext(d)
             n == NextWaiting(d)
  <1>0. Typed(e)
    BY DEF Steady
  <1>1. CASE ~Ready(d, n)
    <2>1. e = d
      BY <1>1 DEF EnterNext
    <2> QED BY <2>1, WayShows, StillShowsItself
  <1>2. CASE Ready(d, n)
    <2>1. Waiting(d) \in SUBSET SegIds /\ Waiting(d) # {}
      BY <1>2 DEF Ready, NextWaiting, FirstOf, Waiting, With
    <2>2. n \in Waiting(d) /\ \A t \in Waiting(d) \ {n} : Precedes(d, n, t)
      BY <2>1, FirstExists DEF NextWaiting
    <2>3. e = Enter(d, n)
      BY <1>2 DEF EnterNext
    <2> HIDE DEF n, e
    <2>4. n \in SegIds /\ d.segs[n].display = "Waiting" /\ n # 0
      BY <2>1, <2>2, NoId DEF Waiting, With
    <2>5. /\ e.slot.key = n /\ e.slot.page = 0 /\ e.slot.hold = 0 /\ ~e.slot.placeholder
          /\ e.segs[n].display = "Visible"
          /\ \A t \in SegIds : /\ e.segs[t].job = d.segs[t].job
                               /\ e.segs[t].expected = d.segs[t].expected
                               /\ e.segs[t].order = d.segs[t].order
                               /\ t # n => e.segs[t] = d.segs[t]
      BY <2>3, <2>4, EnterFields
    <2>6. Current(e)
      <3>1. \A s \in Live(e) : s \in Live(d)
        BY <2>4, <2>5 DEF Live, Lives
      <3>2. \A s \in Live(e) : s \in SegIds
        BY DEF Live
      <3> QED BY <2>5, <3>1, <3>2, AnewCurrent
    <2>7. InOrder(D, e)
      <3>1. ASSUME NEW s \in Waiting(D), e.slot.key # s, e.segs[s].display = "Waiting"
            PROVE  e.segs[e.slot.key].order <= e.segs[s].order
        <4>1. s \in SegIds /\ s # n
          BY <2>5, <3>1 DEF Waiting, With
        <4>2. s \in Waiting(d) \ {n}
          BY <2>5, <3>1, <4>1 DEF Waiting, With
        <4>3. Precedes(d, n, s) /\ d.segs[n].order \in Nat /\ d.segs[s].order \in Nat
          BY <2>2, <2>4, <4>1, <4>2, Fields
        <4> QED BY <2>4, <2>5, <4>1, <4>3 DEF Precedes
      <3> QED BY <3>1 DEF InOrder
    <2>8. CASE Gone(D, c, d)
      <3>1. e.slot.key # D.slot.key /\ ~Takes(D, e)
        BY <2>4, <2>5, <2>8 DEF Gone, Takes
      <3> QED
        BY <2>6, <2>7, <2>8, <3>1
           DEF Gone, Respects, KeptMinimum, NeverBack, StaysReplaced, e
    <2>9. CASE Untouched(D, d)
      <3>1. D.slot.key = 0 /\ ~D.slot.placeholder
        BY <2>9, NoId DEF Untouched, Current
      <3> QED
        BY <2>6, <2>7, <3>1
           DEF Respects, KeptMinimum, NeverBack, StaysReplaced, Awaited, e
    <2> QED BY <2>8, <2>9 DEF OnTheWay
  <1> QED
    BY <1>1, <1>2

LEMMA InheritFields ==
  ASSUME NEW d, NEW h, Steady(d, h), ReplacementReady(d), NEW aligned
  PROVE  LET e == Inherit(d, ReplacementHead(d), aligned)
             s == ReplacementHead(d) IN
         /\ s \in Waiting(d) \cap Anchored(d)
         /\ \A t \in (Waiting(d) \cap Anchored(d)) \ {s} : Precedes(d, s, t)
         /\ e.slot.key = s /\ e.slot.page = 0 /\ e.slot.hold = 0 /\ ~e.slot.placeholder
         /\ e.segs[s].display = "Visible"
         /\ d.segs[d.slot.key].index <= e.segs[s].index
         /\ \A t \in SegIds : /\ e.segs[t].job = d.segs[t].job
                              /\ e.segs[t].expected = d.segs[t].expected
                              /\ e.segs[t].order = d.segs[t].order
                              /\ t # s => e.segs[t].display = d.segs[t].display
  <1> DEFINE s == ReplacementHead(d)
             k == d.slot.key
             old == d.segs[k]
             new == IF old.index = 0 THEN d.segs[s]
                    ELSE Realigned(d.segs[s], old.index, d.segs[s].left, ~old.ambiguous /\ aligned)
             owner == [new EXCEPT !.display = "Visible", !.age = 0]
             S == [d.segs EXCEPT ![s] = owner]
             U == Unanchored(S, k)
             sl == Owner(d, s, d.slot.final, 0)
             w == ReplaceChunk(d.window, k, s)
             e == Inherit(d, s, aligned)
  <1>0. Typed(d) /\ d.segs \in [SegIds -> PagedSegments] /\ PagedSegments \subseteq Segments
    BY DEF Steady, Typed, PagedSegments
  <1>1. d.slot.placeholder /\ s # 0 /\ k \in SegIds
    BY DEF ReplacementReady, Ready, Steady, OwnsSlot
  <1>2. s \in Waiting(d) \cap Anchored(d)
        /\ \A t \in (Waiting(d) \cap Anchored(d)) \ {s} : Precedes(d, s, t)
    <2>1. Waiting(d) \cap Anchored(d) \in SUBSET SegIds
      BY DEF Waiting, With
    <2>2. Waiting(d) \cap Anchored(d) # {}
      BY <1>1 DEF ReplacementHead, FirstOf
    <2> QED
      BY <1>0, <2>1, <2>2, FirstExists DEF ReplacementHead
  <1> HIDE DEF s
  <1>3. s \in SegIds /\ d.segs[s] \in PagedSegments /\ d.segs[s] \in Segments
        /\ d.segs[s].index \in Nat /\ old.index \in Nat
    BY <1>0, <1>1, <1>2, Fields DEF Waiting, With
  <1>4. /\ new.job = d.segs[s].job /\ new.expected = d.segs[s].expected
        /\ new.order = d.segs[s].order /\ old.index <= new.index
    <2> HIDE DEF old
    <2>1. CASE old.index = 0
      BY <1>3, <2>1
    <2>2. CASE old.index # 0
      <3> DEFINE agrees == ~old.ambiguous /\ aligned
      <3>1. new = Realigned(d.segs[s], old.index, d.segs[s].left, agrees)
        BY <2>2
      <3> HIDE DEF new, agrees
      <3> QED BY <1>3, <3>1, RealignedKeeps
    <2> QED BY <2>1, <2>2
  <1>5. /\ owner.display = "Visible" /\ owner.job = new.job /\ owner.expected = new.expected
        /\ owner.order = new.order /\ owner.index = new.index
    <2>1. old.index \in 0..MaxPages /\ d.segs[s].left \in 1..MaxPages
      BY <1>0, <1>1, <1>3 DEF Segments, ReplacementReady, Ready, s
    <2>2. ~d.segs[s].ambiguous
      BY <1>2 DEF Steady, WaitingUnread
    <2>3. new \in PagedSegments
      <3> DEFINE agrees == ~old.ambiguous /\ aligned
      <3>1. agrees => ~d.segs[s].ambiguous
        BY <2>2
      <3>2. new = IF old.index = 0 THEN d.segs[s]
                  ELSE Realigned(d.segs[s], old.index, d.segs[s].left, agrees)
        OBVIOUS
      <3> HIDE DEF new, agrees, old
      <3> QED BY <1>3, <2>1, <3>1, <3>2, RealignedFacts
    <2> HIDE DEF new
    <2> QED BY <2>3 DEF Segments, PagedSegments
  <1> HIDE DEF new, owner
  <1>6. DOMAIN S = SegIds /\ S[s] = owner /\ \A t \in SegIds \ {s} : S[t] = d.segs[t]
    BY <1>0, <1>3
  <1> HIDE DEF S
  <1>7. \A t \in SegIds : /\ U[t].display = S[t].display /\ U[t].job = S[t].job
                          /\ U[t].expected = S[t].expected /\ U[t].order = S[t].order
                          /\ U[t].index = S[t].index
    BY DEF Unanchored
  <1>8. sl.key = s /\ sl.page = 0 /\ sl.hold = 0 /\ ~sl.placeholder
    BY DEF Owner, NoSlot
  <1> HIDE DEF U, sl, w
  <1>9. e = DisplayOf(U, sl, w, d.config)
    BY DEF Inherit, U, S, owner, new, sl, w
  <1>10. e.segs = U /\ e.slot = sl
    BY <1>9, DisplayFields
  <1> HIDE DEF e
  <1> QED
    BY <1>2, <1>3, <1>4, <1>5, <1>6, <1>7, <1>8, <1>10 DEF e, s

LEMMA InheritRespects ==
  ASSUME NEW D, Typed(D), NEW c, NEW d, NEW h, Steady(d, h), Current(d), OnTheWay(D, c, d),
         ReplacementReady(d), NEW aligned
  PROVE  LET e == Inherit(d, ReplacementHead(d), aligned) IN Current(e) /\ Respects(D, c, e)
  <1> DEFINE s == ReplacementHead(d)
             e == Inherit(d, s, aligned)
  <1>1. /\ s \in Waiting(d) \cap Anchored(d)
        /\ \A t \in (Waiting(d) \cap Anchored(d)) \ {s} : Precedes(d, s, t)
        /\ e.slot.key = s /\ e.slot.page = 0 /\ e.slot.hold = 0 /\ ~e.slot.placeholder
        /\ e.segs[s].display = "Visible"
        /\ d.segs[d.slot.key].index <= e.segs[s].index
        /\ \A t \in SegIds : /\ e.segs[t].job = d.segs[t].job
                             /\ e.segs[t].expected = d.segs[t].expected
                             /\ e.segs[t].order = d.segs[t].order
                             /\ t # s => e.segs[t].display = d.segs[t].display
    BY InheritFields
  <1> HIDE DEF s, e
  <1>2. /\ Typed(d) /\ d.slot.placeholder /\ d.slot.key \in SegIds
        /\ d.segs[d.slot.key].display = "Retired" /\ d.slot.key # 0
    BY NoId DEF ReplacementReady, Steady, OwnsSlot
  <1>3. s \in SegIds /\ d.segs[s].display = "Waiting" /\ d.segs[s].anchor = d.slot.key
        /\ s # d.slot.key /\ s # 0
    BY <1>1, <1>2, NoId DEF Waiting, With, Anchored
  <1>4. Untouched(D, d)
    BY <1>2 DEF OnTheWay, Gone
  <1>5. D.slot.key = d.slot.key /\ D.segs[s].anchor = D.slot.key
    BY <1>3, <1>4 DEF Untouched, OnTheWay
  <1>6. Takes(D, e)
    BY <1>1, <1>3, <1>5 DEF Takes
  <1>7. Current(e)
    <2>1. \A t \in Live(e) : t \in Live(d) /\ t \in SegIds
      BY <1>1, <1>3 DEF Live, Lives
    <2> QED BY <1>1, <2>1, AnewCurrent
  <1>8. NeverBack(D, e)
    <2>1. D.segs[D.slot.key].index = d.segs[d.slot.key].index
      BY <1>2, <1>5 DEF OnTheWay
    <2> QED BY <1>1, <1>3, <1>5, <2>1 DEF NeverBack
  <1>9. InOrder(D, e)
    <2>1. ASSUME NEW t \in Waiting(D), t # s, e.segs[t].display = "Waiting",
                 D.segs[s].anchor \in {0, D.segs[t].anchor}
          PROVE  e.segs[s].order <= e.segs[t].order
      <3>1. t \in SegIds /\ d.segs[t].display = "Waiting"
        BY <1>1, <2>1 DEF Waiting, With
      <3>2. d.segs[t].anchor = d.slot.key
        BY <1>2, <1>5, <2>1, <3>1 DEF OnTheWay
      <3>3. t \in Waiting(d) \cap Anchored(d)
        BY <1>2, <3>1, <3>2 DEF Waiting, With, Anchored
      <3>4. Precedes(d, s, t) /\ d.segs[s].order \in Nat /\ d.segs[t].order \in Nat
        BY <1>1, <1>2, <1>3, <2>1, <3>1, <3>3, Fields
      <3> QED BY <1>1, <1>3, <3>1, <3>4 DEF Precedes
    <2> QED BY <1>1, <2>1 DEF InOrder
  <1> QED
    BY <1>6, <1>7, <1>8, <1>9 DEF Respects, KeptMinimum, StaysReplaced, e, s

LEMMA NextPageRespects ==
  ASSUME NEW D, Typed(D), NEW c \in Configs, NEW d, NEW h, Steady(d, h), Current(d),
         OnTheWay(D, c, d), TurnsPage(d), PageRead(d)
  PROVE  LET e == NextPage(d, d.slot.key) IN Current(e) /\ Respects(D, c, e)
  <1> DEFINE s == d.slot.key
             seg == [d.segs[s] EXCEPT !.left = @ - 1, !.index = @ + 1]
             f == [d EXCEPT !.segs[s] = seg]
             e == NextPage(d, s)
  <1>1. /\ s \in SegIds /\ d.segs[s].left > 1 /\ ~d.slot.placeholder /\ s # 0
        /\ Typed(d) /\ d.segs[s] \in PagedSegments
    BY NoId DEF TurnsPage, MorePages, Steady, Typed, Slots
  <1>2. d.segs[s].display = "Visible"
    BY <1>1 DEF Steady, OwnsSlot
  <1>3. /\ d.segs[s].left - 1 \in 0..MaxPages /\ d.segs[s].index + 1 \in 0..MaxPages
        /\ (d.segs[s].index + 1) + (d.segs[s].left - 1) <= MaxPages
        /\ ~d.segs[s].ambiguous /\ d.segs[s].index \in Nat
    BY <1>1, LimitsAssumption DEF PagedSegments, PagesFit, Segments
  <1>4. /\ seg \in Segments /\ seg.index = d.segs[s].index + 1 /\ seg.job = d.segs[s].job
        /\ seg.expected = d.segs[s].expected /\ seg.display = "Visible"
        /\ seg.left = d.segs[s].left - 1 /\ seg.ambiguous = d.segs[s].ambiguous
    BY <1>1, <1>2, <1>3 DEF Segments, PagedSegments
  <1>5. e = Enter(f, s)
    <2>1. [d EXCEPT !.segs[s].left = @ - 1, !.segs[s].index = @ + 1] = f
      BY <1>1 DEF Typed, PagedSegments, Segments
    <2> QED BY <2>1 DEF NextPage
  <1> HIDE DEF seg
  <1>6. seg \in PagedSegments
    BY <1>3, <1>4 DEF PagedSegments, PagesFit
  <1>7. Typed(f) /\ f.segs = [d.segs EXCEPT ![s] = seg]
    BY <1>1, <1>6 DEF Typed
  <1>8. f.segs[s] = seg /\ \A t \in SegIds \ {s} : f.segs[t] = d.segs[t]
    BY <1>1, <1>7 DEF Typed
  <1> HIDE DEF f, e
  <1>9. /\ e.slot.key = s /\ e.slot.page = 0 /\ e.slot.hold = 0 /\ ~e.slot.placeholder
        /\ e.segs[s].display = "Visible"
        /\ \A t \in SegIds : /\ e.segs[t].job = f.segs[t].job
                             /\ e.segs[t].expected = f.segs[t].expected
                             /\ e.segs[t].index = f.segs[t].index
                             /\ t # s => e.segs[t] = f.segs[t]
    <2>1. Typed(f) /\ s \in SegIds
      BY <1>1, <1>7
    <2> HIDE DEF s
    <2> QED BY <1>5, <2>1, EnterFields
  <1>10. Current(e)
    <2>1. \A t \in Live(e) : /\ t \in Live(d) /\ e.segs[t].job = d.segs[t].job
                             /\ e.segs[t].expected = d.segs[t].expected
      BY <1>1, <1>2, <1>4, <1>8, <1>9 DEF Live, Lives
    <2> QED BY <1>9, <2>1, AnewCurrent
  <1>11. Untouched(D, d)
    BY <1>1 DEF OnTheWay, Gone
  <1>12. D.slot.key = s /\ D.slot.page >= ShortestPage(D, c)
    BY <1>1, <1>11, MinimumsHold DEF OnTheWay, Untouched
  <1>13. NeverBack(D, e)
    <2>1. /\ D.segs[s].index = d.segs[s].index /\ D.segs[s].job = d.segs[s].job
          /\ D.segs[s].job \in Jobs
      BY <1>1, Fields DEF OnTheWay
    <2>2. e.segs[s].index = d.segs[s].index + 1 /\ e.segs[s].job = d.segs[s].job
      BY <1>1, <1>4, <1>8, <1>9
    <2> QED BY <1>3, <1>9, <1>12, <2>1, <2>2, JobOrder DEF NeverBack
  <1> QED
    BY <1>9, <1>10, <1>12, <1>13 DEF Respects, KeptMinimum, InOrder, StaysReplaced, e

LEMMA RenderedRespects ==
  ASSUME NEW D, Typed(D), Current(D), NEW c \in Configs, NEW d, NEW h, Steady(d, h),
         WindowHolds(d), Current(d), OnTheWay(D, c, d), NEW aligned
  PROVE  Current(Rendered(d, aligned)) /\ Respects(D, c, Rendered(d, aligned))
  <1> DEFINE Good(e) == Current(e) /\ Respects(D, c, e)
  <1>0. Typed(d)
    BY DEF Steady
  <1>1. ReplacementReady(d) => Good(Inherit(d, ReplacementHead(d), aligned))
    BY InheritRespects
  <1>2. Good([d EXCEPT !.slot.dirty = FALSE])
    <2> DEFINE e == [d EXCEPT !.slot.dirty = FALSE]
    <2>1. /\ e.segs = d.segs /\ e.slot.key = d.slot.key
          /\ e.slot.placeholder = d.slot.placeholder
          /\ e.slot.page = d.slot.page /\ e.slot.hold = d.slot.hold /\ Typed(e)
      BY <1>0 DEF Typed, Slots
    <2> HIDE DEF e
    <2>2. \A s \in SegIds : NoOlder(d.segs[s].expected, d.segs[s].expected)
      BY <1>0, Fields, JobOrder
    <2>3. Current(e) /\ StillShows(d, e)
      BY <1>0, <2>1, <2>2, QuietShows
    <2> QED BY <1>0, <2>1, <2>3, WayShows DEF e
  <1>3. Undisturbed(d) /\ TurnsPage(d) => Good(NextPage(d, d.slot.key))
    BY NextPageRespects DEF Undisturbed
  <1>4. ASSUME Undisturbed(d), NEW preserve \in BOOLEAN, ~Awaited(D),
               Steady(EnterNext(ClearSlot(d, preserve)), h)
        PROVE  Good(EnterNext(ClearSlot(d, preserve)))
    <2> DEFINE r == ClearSlot(d, preserve)
    <2>1. d.slot.key # 0 /\ PageRead(d)
      BY <1>4 DEF Undisturbed
    <2>2. Untouched(D, d)
      BY <2>1 DEF OnTheWay, Gone
    <2>3. D.slot.page >= ShortestPage(D, c)
      BY <1>0, <2>1, <2>2, MinimumsHold DEF OnTheWay
    <2>4. Typed(r) /\ Current(r) /\ OnTheWay(D, c, r) /\ Gone(D, c, r)
      BY <1>4, <2>1, <2>3, ClearedWay
    <2>5. r.slot.key = 0 /\ Steady(EnterNext(r), h)
      BY <1>4, <2>4 DEF Gone
    <2> HIDE DEF r
    <2>6. Good(EnterNext(r))
      BY <2>4, <2>5, EnterNextRespects
    <2> QED BY <2>6 DEF r
  <1>5. d.slot.key # 0 => Untouched(D, d)
    BY DEF OnTheWay, Gone
  <1>6. Undisturbed(d) /\ d.slot.leave => Good(EnterNext(ClearSlot(d, FALSE)))
    <2> SUFFICES ASSUME Undisturbed(d), d.slot.leave
                 PROVE  Good(EnterNext(ClearSlot(d, FALSE)))
      OBVIOUS
    <2>1. ~Awaited(D)
      BY <1>5 DEF Undisturbed, Untouched, Awaited
    <2>2. Steady(EnterNext(ClearSlot(d, FALSE)), h)
      <3>1. LET r == ClearSlot(d, FALSE) IN Steady(r, h) /\ r.slot.key = 0 /\ WindowHolds(r)
        BY ClearSteady DEF WindowHolds
      <3> QED BY <3>1, EnterNextSteady
    <2> HIDE DEF Good
    <2> QED BY <1>4, <2>1, <2>2
  <1>7. Undisturbed(d) /\ Follows(d) => Good(EnterNext(ClearSlot(d, TRUE)))
    <2> SUFFICES ASSUME Undisturbed(d), Follows(d)
                 PROVE  Good(EnterNext(ClearSlot(d, TRUE)))
      OBVIOUS
    <2>1. ~Awaited(D)
      <3> SUFFICES ASSUME Awaited(D) PROVE FALSE
        OBVIOUS
      <3>1. Untouched(D, d) /\ d.slot.key # 0
        BY <1>5 DEF Undisturbed
      <3>2. PICK s \in Waiting(D) : D.segs[s].anchor = D.slot.key /\ D.segs[s].age < StaleAge
        BY DEF Awaited
      <3>3. s \in Waiting(d) \cap Anchored(d)
        BY <3>1, <3>2 DEF Untouched, OnTheWay, Waiting, With, Anchored
      <3>4. Waiting(d) \cap Anchored(d) \in SUBSET SegIds
        BY DEF Waiting, With
      <3>5. ReplacementHead(d) # 0
        <4>1. FirstOf(d, Waiting(d) \cap Anchored(d)) \in SegIds
          BY <1>0, <3>3, <3>4, FirstExists
        <4> QED BY <4>1, NoId DEF ReplacementHead
      <3>6. d.slot.placeholder
        BY <3>1 DEF Untouched, Awaited
      <3> QED BY <3>5, <3>6 DEF Follows
    <2>2. Steady(EnterNext(ClearSlot(d, TRUE)), h)
      <3>1. LET r == ClearSlot(d, TRUE) IN Steady(r, h) /\ r.slot.key = 0
        BY ClearSteady
      <3>2. LET r == ClearSlot(d, TRUE) IN Ready(r, NextWaiting(r))
        BY FollowsSteady DEF Undisturbed
      <3> QED BY <3>1, <3>2, EnterNextSteady
    <2> HIDE DEF Good
    <2> QED BY <1>4, <2>1, <2>2
  <1>8. d.slot.key = 0 => Good(EnterNext(d))
    BY <1>0, EnterNextSteady, EnterNextRespects
  <1>9. Good(d)
    BY <1>0, WayShows, StillShowsItself
  <1> HIDE DEF Good
  <1>10. Good(Rendered(d, aligned))
    BY <1>1, <1>2, <1>3, <1>6, <1>7, <1>8, <1>9 DEF Rendered
  <1> QED
    BY <1>10 DEF Good

LEMMA RenderedConfig ==
  ASSUME NEW d, NEW h, Steady(d, h), NEW aligned
  PROVE  Rendered(d, aligned).config = d.config
  <1>0. Typed(d)
    BY DEF Steady
  <1>1. Inherit(d, ReplacementHead(d), aligned).config = d.config
    BY DisplayFields DEF Inherit
  <1>2. ASSUME NEW e, NEW s PROVE Enter(e, s).config = e.config
    <2> DEFINE S == [e.segs EXCEPT ![s].display = "Visible", ![s].age = 0]
               sl == Owner(e, s, FALSE, IF e.slot.key = s THEN e.slot.life ELSE 0)
               w == Trim(Append(e.window, s))
    <2>1. Enter(e, s) = DisplayOf(S, sl, w, e.config)
      BY DEF Enter
    <2> HIDE DEF S, sl, w
    <2> QED BY <2>1, DisplayFields
  <1>3. \A e : EnterNext(e).config = e.config
    BY <1>2 DEF EnterNext
  <1>4. /\ ClearSlot(d, TRUE).config = d.config /\ ClearSlot(d, FALSE).config = d.config
    BY ClearSteady
  <1>5. [d EXCEPT !.slot.dirty = FALSE].config = d.config
    BY <1>0 DEF Typed
  <1>6. NextPage(d, d.slot.key).config = d.config
    <2> DEFINE k == d.slot.key
               x == [d EXCEPT !.segs[k].left = @ - 1, !.segs[k].index = @ + 1]
    <2>1. x.config = d.config
      BY <1>0 DEF Typed
    <2>2. NextPage(d, k) = Enter(x, k)
      BY DEF NextPage
    <2> HIDE DEF x
    <2> QED BY <1>2, <2>1, <2>2
  <1> QED
    BY <1>1, <1>3, <1>4, <1>5, <1>6 DEF Rendered

-----------------------------------------------------------------------------
(* The steps. *)

StepInv == ComposerInv /\ Current(Display)

\* What a step must do, to the display as it is between calls.
StepGood == Current(Display') /\ Respects(Display, config', Display')

LEMMA DisplayNow ==
  ASSUME ComposerInv
  PROVE  /\ Typed(Display) /\ Steady(Display, highWater)
         /\ Display.segs = segs /\ Display.slot = slot /\ Display.config = config
  BY DisplayFields DEF ComposerInv, Steady, Display

\* Forgetting what is retired changes nothing the properties speak of.
LEMMA SettleGood ==
  ASSUME NEW e, Typed(e), Current(e), Commit(e), Respects(Display, config', e)
  PROVE  StepGood
  <1> DEFINE E == Display'
             D == Display
  <1>1. /\ segs' = [s \in SegIds |-> Trace(e, s)]
        /\ slot' = e.slot /\ window' = e.window /\ config' = e.config
    BY DEF Commit, Settled, Typed
  <1>2. E.segs = segs' /\ E.slot = e.slot
    BY <1>1, DisplayFields DEF Display, DisplayOf
  <1>3. /\ e.slot.key \in SegIds \cup {0}
        /\ \A s \in SegIds : /\ E.segs[s].display = e.segs[s].display
                             /\ s = e.slot.key \/ e.segs[s].display # "Retired" =>
                                   E.segs[s] = e.segs[s]
    BY <1>1, <1>2, TraceFacts, Fields
  <1> HIDE DEF E
  <1>4. Current(E)
    <2>1. \A s \in Live(E) : s \in Live(e) /\ E.segs[s] = e.segs[s]
      BY <1>3 DEF Live, Lives
    <2> QED BY <1>2, <1>3, <2>1 DEF Current
  <1> HIDE DEF D
  <1>5. KeptMinimum(D, config', E) /\ NeverBack(D, E) /\ StaysReplaced(D, config', E)
    <2>1. KeptMinimum(D, config', e) /\ NeverBack(D, e) /\ StaysReplaced(D, config', e)
      BY DEF Respects, D
    <2>2. KeptMinimum(D, config', E)
      BY <1>2, <1>3, <2>1 DEF KeptMinimum, SamePage, Takes
    <2>3. NeverBack(D, E)
      BY <1>2, <1>3, <2>1 DEF NeverBack, Takes
    <2>4. StaysReplaced(D, config', E)
      BY <1>2, <2>1 DEF StaysReplaced, Takes
    <2> QED BY <2>2, <2>3, <2>4
  <1>6. InOrder(D, E)
    <2>1. InOrder(D, e)
      BY DEF Respects, D
    <2>2. \A s \in SegIds : E.segs[s].display = "Waiting" => E.segs[s] = e.segs[s]
      BY <1>3
    <2>3. e.slot.key # 0 => E.segs[e.slot.key] = e.segs[e.slot.key]
      BY <1>3
    <2>4. \A s \in Waiting(D) : s \in SegIds
      BY DEF Waiting, With
    <2> QED BY <1>2, <1>3, <2>1, <2>2, <2>3, <2>4 DEF InOrder
  <1> QED
    BY <1>4, <1>5, <1>6 DEF StepGood, Respects, D, E

LEMMA NowWay ==
  ASSUME StepInv, NEW c \in Configs
  PROVE  /\ Typed(Now) /\ Steady(Now, highWater) /\ WindowHolds(Now) /\ Current(Now)
         /\ OnTheWay(Display, c, Now)
  <1>1. /\ Typed(Display) /\ Steady(Display, highWater) /\ Current(Display)
        /\ OnTheWay(Display, c, Display)
    BY DisplayNow, WayBegins DEF StepInv
  <1>2. Steady(Now, highWater) /\ WindowHolds(Now)
    BY NowKeeps DEF StepInv
  <1>3. Current(Expire(Display)) /\ OnTheWay(Display, c, Expire(Display))
    BY <1>1, ExpireWay
  <1> QED
    BY <1>2, <1>3 DEF Now, Steady

LEMMA NowCurrent == StepInv => Current(Now)
  <1>1. StepInv => config \in Configs
    BY RestTyped DEF StepInv
  <1> QED
    BY <1>1, NowWay

\* The calls that show nothing new.
LEMMA CallGood ==
  ASSUME StepInv, NEW e, Typed(e), Current(e), StillShows(Now, e), Commit(e)
  PROVE  StepGood
  <1>1. config' \in Configs
    BY DEF Commit, Settled, Typed
  <1>2. Typed(Now) /\ OnTheWay(Display, config', Now)
    BY <1>1, NowWay
  <1>3. Typed(Display)
    BY DisplayNow DEF StepInv
  <1>4. Respects(Display, config', e)
    BY <1>2, <1>3, WayShows
  <1> QED
    BY <1>4, SettleGood

\* The steps that leave the display as it is.
LEMMA QuietGood ==
  ASSUME StepInv, Typed(Display'), slot' = slot,
         \A s \in SegIds : s = slot.key => segs'[s] = segs[s],
         \A s \in SegIds : \/ segs'[s] = segs[s]
                           \/ ~Lives(segs'[s])
  PROVE  StepGood
  <1> DEFINE D == Display
             E == Display'
  <1>1. /\ Typed(D) /\ Current(D)
        /\ D.segs = segs /\ D.slot = slot /\ E.segs = segs' /\ E.slot = slot'
    BY DisplayNow, DisplayFields DEF StepInv, Display, DisplayOf
  <1>2. Typed(E)
    OBVIOUS
  <1> HIDE DEF D, E
  <1>3. Current(E)
    BY <1>1 DEF Current, Live
  <1>4. StillShows(D, E)
    BY <1>1, StillShowsItself, Fields DEF StillShows
  <1>5. Respects(D, config', E)
    BY <1>1, <1>2, <1>4, WayBegins, WayShows
  <1> QED
    BY <1>3, <1>5 DEF StepGood, D, E

LEMMA ConfirmFinalGood ==
  ASSUME StepInv, NEW s \in SegIds, ConfirmFinal(s)
  PROVE  StepGood
  <1> DEFINE e == ConfirmedIf(Now, s)
  <1>1. Typed(Now) /\ Current(Now)
    BY NowCurrent, NowKeeps DEF StepInv, Steady
  <1>2. Typed(e) /\ Current(e) /\ StillShows(Now, e)
    BY <1>1, ConfirmedShows, StillShowsItself DEF ConfirmedIf
  <1>3. Commit(e)
    BY DEF ConfirmFinal
  <1> HIDE DEF e
  <1> QED
    BY <1>2, <1>3, CallGood

LEMMA ExpectRetryGood ==
  ASSUME StepInv, NEW s \in SegIds, ExpectRetry(s)
  PROVE  StepGood
  <1> DEFINE job == [segs[s].expected EXCEPT !.att = 2]
             e == Expecting(Now, s, job)
  <1>1. Typed(Now) /\ Current(Now)
    BY NowCurrent, NowKeeps DEF StepInv, Steady
  <1>2. job \in Jobs
    BY DEF StepInv, ComposerInv, TypeOK, Segments, Jobs
  <1>3. Commit(e)
    BY DEF ExpectRetry
  <1> HIDE DEF job
  <1>4. Typed(e) /\ Current(e) /\ StillShows(Now, e)
    BY <1>1, <1>2, ExpectingShows
  <1> HIDE DEF e
  <1> QED
    BY <1>3, <1>4, CallGood

LEMMA RegisterGood ==
  ASSUME StepInv, NEW fresh \in SUBSET {s \in SegIds : s > highWater}, NEW olds \in SUBSET Open,
         NEW revised \in {{}} \cup {{s} : s \in Open}, NEW final \in BOOLEAN,
         Register(fresh, olds, revised, final)
  PROVE  StepGood
  <1>1. ComposerInv /\ Current(Now)
    BY NowCurrent DEF StepInv
  <1>2. /\ olds \in SUBSET Live(Display) /\ fresh \in SUBSET SegIds
        /\ \E updated : \E revs :
              /\ \A s \in SegIds : s \in fresh \cup updated => revs[s] \in 0..MaxRevision
              /\ Commit(Registered(Now, fresh, [s \in SegIds |-> olds], updated, revs, final))
              /\ highWater' = UsedUp(Now, fresh, updated) /\ pending' = pending
    BY <1>1, RegisterCalls
  <1>3. PICK updated, revs :
              /\ \A s \in SegIds : s \in fresh \cup updated => revs[s] \in 0..MaxRevision
              /\ Commit(Registered(Now, fresh, [s \in SegIds |-> olds], updated, revs, final))
    BY <1>2
  <1> DEFINE e == Registered(Now, fresh, [s \in SegIds |-> olds], updated, revs, final)
  <1>4. Current(e) /\ StillShows(Now, e)
    BY <1>1, <1>2, <1>3, RegisteredShows DEF Live
  <1>5. Typed(e)
    <2>1. Steady(e, UsedUp(Now, fresh, updated))
      BY <1>1, <1>2, <1>3, RegisteredKeeps
    <2> QED BY <2>1 DEF Steady
  <1>6. Commit(e)
    BY <1>3
  <1> HIDE DEF e
  <1> QED
    BY <1>4, <1>5, <1>6, CallGood

LEMMA CompleteGood ==
  ASSUME StepInv, NEW s \in SegIds, NEW job \in [rev : 1..MaxRevision, att : {1, 2}],
         NEW aligned, NEW pages \in Answers(s, job), Complete(s, job, pages, aligned)
  PROVE  StepGood
  <1> DEFINE e == Answered(Now, s, job, pages, aligned)
  <1>1. job \in Jobs /\ pages \in 0..MaxPages
    BY LimitsAssumption DEF Jobs, Answers
  <1>2. Typed(Now) /\ Current(Now) /\ Steady(Now, highWater) /\ WindowHolds(Now)
    BY NowCurrent, NowKeeps DEF StepInv, Steady
  <1>3. Typed(e) /\ Current(e) /\ StillShows(Now, e)
    <2>1. CASE s \in Live(Now) /\ Accepts(Now.segs[s], job)
      <3> DEFINE r == Taken(Now, s, job, pages, aligned)
      <3>1. Steady(r, highWater) /\ Current(r) /\ StillShows(Now, r)
        BY <1>1, <1>2, <2>1, TakenSteady, TakenShows
      <3> QED BY <2>1, <3>1 DEF Answered, Steady
    <2>2. CASE ~(s \in Live(Now) /\ Accepts(Now.segs[s], job))
      BY <1>2, <2>2, StillShowsItself DEF Answered
    <2> QED BY <2>1, <2>2
  <1>4. Commit(e)
    BY DEF Complete
  <1> HIDE DEF e
  <1> QED
    BY <1>3, <1>4, CallGood

LEMMA RetireGood ==
  ASSUME StepInv, NEW s \in SegIds, NEW reason, Retire(s, reason)
  PROVE  StepGood
  <1> DEFINE e == RetireSegments(Now, {s}, reason)
  <1>1. Typed(Now) /\ Current(Now)
    BY NowCurrent, NowKeeps DEF StepInv, Steady
  <1>2. Typed(e) /\ Current(e) /\ StillShows(Now, e)
    BY <1>1, RetireShows
  <1>3. Commit(e)
    BY DEF Retire
  <1> HIDE DEF e
  <1> QED
    BY <1>2, <1>3, CallGood

\* A new configuration, and the expire that follows it.
LEMMA NewConfigWay ==
  ASSUME StepInv, NEW c \in Configs, NEW pages \in Layouts(c)
  PROVE  LET d == Expire(Reconfigured(Now, c, pages)) IN
         /\ Steady(d, highWater) /\ WindowHolds(d) /\ Current(d) /\ d.config = c
         /\ OnTheWay(Display, c, d)
  <1> DEFINE r == Reconfigured(Now, c, pages)
  <1>1. /\ Steady(Now, highWater) /\ WindowHolds(Now) /\ Current(Now)
        /\ OnTheWay(Display, c, Now) /\ Typed(Display)
    BY NowWay, DisplayNow DEF StepInv
  <1>2. \A s \in SegIds : pages[s] \in 1..MaxPages
    BY LayoutsType
  <1>3. Steady(r, highWater) /\ WindowHolds(r)
    BY <1>1, <1>2, ReconfiguredSteady
  <1>4. Current(r) /\ OnTheWay(Display, c, r) /\ r.config = c
    BY <1>1, <1>2, ReconfiguredWay
  <1> HIDE DEF r
  <1>5. Steady(Expire(r), highWater) /\ WindowHolds(Expire(r)) /\ Expire(r).config = c
    BY <1>3, <1>4, ExpireSteady
  <1>6. Current(Expire(r)) /\ OnTheWay(Display, c, Expire(r))
    BY <1>1, <1>3, <1>4, ExpireWay
  <1> QED
    BY <1>5, <1>6 DEF r

LEMMA TickGood ==
  ASSUME StepInv, NEW pages \in Layouts(pending), NEW aligned, Tick(pages, aligned)
  PROVE  StepGood
  <1> DEFINE d == IF pending = NoConfig THEN Now ELSE Expire(Reconfigured(Now, pending, pages))
             c == IF pending = NoConfig THEN config ELSE pending
             e == Rendered(d, aligned)
  <1>1. config \in Configs /\ pending \in Configs \cup {NoConfig} /\ Now.config = config
        /\ Typed(Display) /\ Current(Display)
    BY RestTyped, NowKeeps, DisplayNow DEF StepInv
  <1>2. /\ Steady(d, highWater) /\ WindowHolds(d) /\ Current(d) /\ d.config = c
        /\ OnTheWay(Display, c, d) /\ c \in Configs
    BY <1>1, NowWay, NewConfigWay
  <1>3. Commit(e)
    BY DEF Tick, Now
  <1> HIDE DEF d, c
  <1>4. /\ Current(e) /\ Respects(Display, c, e)
    BY <1>1, <1>2, RenderedRespects
  <1>5. Typed(e) /\ e.config = c
    <2>1. Steady(e, highWater)
      BY <1>2, RenderedSteady
    <2> QED BY <1>2, <2>1, RenderedConfig DEF Steady
  <1> HIDE DEF e
  <1>6. config' = c
    BY <1>3, <1>5 DEF Commit, Settled, Typed
  <1> QED
    BY <1>3, <1>4, <1>5, <1>6, SettleGood

LEMMA SetConfigGood ==
  ASSUME StepInv, NEW c \in Configs, NEW pages \in Layouts(c), SetConfig(c, pages)
  PROVE  StepGood
  <1> DEFINE d == Expire(Reconfigured(Now, c, pages))
  <1>1. /\ Typed(d) /\ Current(d) /\ d.config = c /\ OnTheWay(Display, c, d)
    BY NewConfigWay DEF Steady
  <1>2. Commit(d)
    BY DEF SetConfig, ApplyConfig
  <1> HIDE DEF d
  <1>3. config' = c /\ Typed(Display)
    BY <1>1, <1>2, DisplayNow DEF Commit, Settled, Typed, StepInv
  <1>4. Respects(Display, c, d)
    BY <1>1, <1>3, StillShowsItself, WayShows
  <1> QED
    BY <1>1, <1>2, <1>3, <1>4, SettleGood

LEMMA AdvanceGood ==
  ASSUME StepInv, Advance
  PROVE  StepGood
  <1> DEFINE D == Display
             E == Display'
             S == [s \in SegIds |->
                     IF D.segs[s].display = "Waiting"
                     THEN [D.segs[s] EXCEPT !.age = Smaller(@ + 1, StaleAge)] ELSE D.segs[s]]
             sl == IF D.slot.key = 0 THEN D.slot ELSE Older(D.slot)
             a == Aged(D)
  <1>1. /\ Typed(D) /\ Current(D) /\ D.segs = segs /\ D.slot = slot
        /\ E.segs = segs' /\ E.slot = slot'
    BY DisplayNow, DisplayFields DEF StepInv, Display, DisplayOf
  <1>2. Typed(E)
    <2>1. ComposerInv'
      BY AdvanceKeeps DEF StepInv
    <2> QED BY <2>1 DEF ComposerInv, Steady
  <1>3. segs' = a.segs /\ slot' = a.slot
    BY DEF Advance
  <1>4. a = [D EXCEPT !.segs = S, !.slot = sl]
    BY DEF Aged
  <1> HIDE DEF D, E
  <1>5. /\ sl.key = D.slot.key /\ sl.placeholder = D.slot.placeholder
        /\ sl.page >= Smaller(sl.hold, MinPage)
    <2>1. D.slot \in Slots /\ MinPage \in Nat /\ D.slot.page \in Nat /\ D.slot.hold \in Nat
          /\ MaxHold \in Nat /\ D.slot.page >= Smaller(D.slot.hold, MinPage)
      BY <1>1, Fields, LimitsAssumption, MaxHoldType DEF Typed, Current
    <2>2. CASE D.slot.key = 0
      BY <2>1, <2>2
    <2>3. CASE D.slot.key # 0
      <3>1. /\ sl.key = D.slot.key /\ sl.placeholder = D.slot.placeholder
            /\ sl.page = Smaller(D.slot.page + 1, MinPage)
            /\ sl.hold = Smaller(D.slot.hold + 1, MaxHold)
        BY <2>1, <2>3 DEF Older, Slots
      <3>2. Smaller(D.slot.page + 1, MinPage)
              >= Smaller(Smaller(D.slot.hold + 1, MaxHold), MinPage)
        BY <2>1 DEF Smaller
      <3> QED BY <3>1, <3>2
    <2> QED BY <2>2, <2>3
  <1>6. ASSUME NEW s \in SegIds
        PROVE  /\ S[s].display = D.segs[s].display /\ S[s].job = D.segs[s].job
               /\ S[s].expected = D.segs[s].expected /\ S[s].left = D.segs[s].left
               /\ S[s].index = D.segs[s].index
    <2>1. D.segs[s] \in Segments
      BY <1>1, Fields DEF PagedSegments
    <2> QED BY <2>1 DEF Segments
  <1> HIDE DEF S, sl, a
  <1>7. E.segs = S /\ E.slot = sl
    BY <1>1, <1>3, <1>4 DEF Typed
  <1>8. Current(E)
    <2>1. E.slot.placeholder => E.slot.key \in SegIds /\ E.segs[E.slot.key].left = 0
      BY <1>1, <1>5, <1>6, <1>7 DEF Current
    <2>2. \A s \in Live(E) : NoOlder(E.segs[s].job, E.segs[s].expected)
      BY <1>1, <1>6, <1>7 DEF Current, Live, Lives
    <2> QED BY <1>5, <1>7, <2>1, <2>2 DEF Current
  <1>9. StillShows(D, E)
    BY <1>1, <1>5, <1>6, <1>7, Fields, JobOrder DEF StillShows
  <1>10. Respects(D, config', E)
    BY <1>1, <1>2, <1>9, WayBegins, WayShows
  <1> QED
    BY <1>8, <1>10 DEF StepGood, D, E

LEMMA ForgetRetiredGood ==
  ASSUME StepInv, NEW s \in SegIds, ForgetRetired(s)
  PROVE  StepGood
  <1>1. Typed(Display')
    <2>1. ComposerInv'
      BY ForgetRetiredKeeps DEF StepInv
    <2> QED BY <2>1 DEF ComposerInv, Steady
  <1>2. segs \in [SegIds -> PagedSegments]
    BY DisplayNow DEF StepInv, Typed
  <1>3. segs' = [segs EXCEPT ![s] = Absent] /\ slot' = slot /\ slot.key # s
    BY DEF ForgetRetired
  <1>4. segs'[s] = Absent /\ \A t \in SegIds \ {s} : segs'[t] = segs[t]
    BY <1>2, <1>3
  <1>5. ~Lives(Absent)
    BY DEF Absent, Lives
  <1> QED
    BY <1>1, <1>3, <1>4, <1>5, QuietGood

LEMMA SameGood ==
  ASSUME StepInv, UNCHANGED << segs, slot, window, config >>
  PROVE  StepGood
  <1>1. Typed(Display')
    <2>1. Typed(Display)
      BY DisplayNow DEF StepInv
    <2> QED BY <2>1 DEF Display
  <1> QED
    BY <1>1, QuietGood

\* The reset shows nothing of what was there; what it leaves satisfies the invariant.
LEMMA ResetGood ==
  ASSUME StepInv, ResetGeneration
  PROVE  Current(Display') /\ WasReset /\ slot'.key = 0
  <1> DEFINE none == [s \in SegIds |-> Absent]
             e == DisplayOf(none, NoSlot, << >>, config)
  <1>1. Commit(e)
    BY DEF ResetGeneration
  <1>2. e.segs = none /\ e.slot = NoSlot /\ e.window = << >> /\ e.config = config
    BY DisplayFields
  <1>3. e \in [segs : [SegIds -> PagedSegments], slot : Slots, window : {<< >>}, config : Configs]
    BY AbsentType, NoSlotType, RestTyped DEF StepInv, DisplayOf
  <1> HIDE DEF e
  <1>4. segs' = [s \in SegIds |-> Trace(e, s)] /\ slot' = NoSlot
    BY <1>1, <1>2, <1>3 DEF Commit, Settled
  <1>5. \A s \in SegIds : Trace(e, s) = Absent
    BY <1>2 DEF Trace, Absent
  <1>6. \A s \in SegIds : segs'[s] = Absent
    BY <1>4, <1>5
  <1>7. Display'.segs = segs' /\ Display'.slot = NoSlot
    BY <1>4 DEF Display, DisplayOf
  <1>8. Current(Display')
    <2>1. /\ NoSlot.key = 0 /\ NoSlot.page = 0 /\ NoSlot.hold = 0 /\ ~NoSlot.placeholder
          /\ ~Lives(Absent)
      BY DEF NoSlot, Absent, Lives
    <2>2. Live(Display') = {}
      BY <1>6, <1>7, <2>1 DEF Live
    <2>3. 0 >= Smaller(0, MinPage)
      BY LimitsAssumption DEF Smaller
    <2> QED BY <1>7, <2>1, <2>2, <2>3 DEF Current
  <1> QED
    BY <1>4, <1>6, <1>8 DEF WasReset, Absent, NoSlot

LEMMA StepRespects ==
  ASSUME StepInv, [Next]_vars
  PROVE  StepGood \/ (Current(Display') /\ WasReset /\ slot'.key = 0)
  <1>1. CASE UNCHANGED vars
    BY <1>1, SameGood DEF vars
  <1>2. CASE ResetGeneration
    BY <1>2, ResetGood
  <1>3. ASSUME NEW s \in SegIds, ConfirmFinal(s) \/ ExpectRetry(s) \/ ForgetRetired(s)
        PROVE  StepGood
    BY <1>3, ConfirmFinalGood, ExpectRetryGood, ForgetRetiredGood
  <1>4. ASSUME NEW fresh \in SUBSET {s \in SegIds : s > highWater}, NEW olds \in SUBSET Open,
               NEW revised \in {{}} \cup {{s} : s \in Open}, NEW final \in BOOLEAN,
               Register(fresh, olds, revised, final)
        PROVE  StepGood
    BY <1>4, RegisterGood
  <1>5. ASSUME NEW s \in SegIds, NEW job \in [rev : 1..MaxRevision, att : {1, 2}],
               NEW aligned \in Alignments, NEW pages \in Answers(s, job),
               Complete(s, job, pages, aligned)
        PROVE  StepGood
    BY <1>5, CompleteGood
  <1>6. ASSUME NEW s \in SegIds, NEW reason, Retire(s, reason) PROVE StepGood
    BY <1>6, RetireGood
  <1>7. ASSUME NEW pages \in Layouts(pending), NEW aligned \in Alignments, Tick(pages, aligned)
        PROVE  StepGood
    BY <1>7, TickGood
  <1>8. ASSUME NEW c \in Configs, NEW pages \in Layouts(c), SetConfig(c, pages) PROVE StepGood
    BY <1>8, SetConfigGood
  <1>9. ASSUME NEW c \in Configs, DeferConfig(c) PROVE StepGood
    BY <1>9, SameGood DEF DeferConfig
  <1>10. CASE Advance
    BY <1>10, AdvanceGood
  <1> QED
    BY <1>1, <1>2, <1>3, <1>4, <1>5, <1>6, <1>7, <1>8, <1>9, <1>10 DEF Next, Ticks

\* What a step respects, in the terms of the properties.
LEMMA RespectsMeans ==
  ASSUME StepInv, [Next]_vars
  PROVE  \/ /\ KeptMinimum(Display, config', Display') /\ NeverBack(Display, Display')
            /\ InOrder(Display, Display') /\ StaysReplaced(Display, config', Display')
            /\ Display.segs = segs /\ Display.slot = slot /\ Display.config = config
            /\ Display'.segs = segs' /\ Display'.slot = slot'
         \/ WasReset /\ slot'.key = 0
  <1>1. Display.segs = segs /\ Display.slot = slot /\ Display.config = config
    BY DisplayFields DEF Display
  <1>2. Display'.segs = segs' /\ Display'.slot = slot'
    BY DEF Display, DisplayOf
  <1> QED
    BY <1>1, <1>2, StepRespects DEF StepGood, Respects

-----------------------------------------------------------------------------
(* The theorems. *)

(* The state the composer is created in satisfies the inductive invariant. *)
THEOREM InitCurrent == Init => StepInv
  <1> SUFFICES ASSUME Init PROVE StepInv
    OBVIOUS
  <1>1. ComposerInv
    BY InitKeeps
  <1>2. /\ Display.segs = [s \in SegIds |-> Absent] /\ Display.slot = NoSlot
    BY DisplayFields DEF Init, Display
  <1>3. /\ NoSlot.page = 0 /\ NoSlot.hold = 0 /\ ~NoSlot.placeholder /\ ~Lives(Absent)
    BY DEF NoSlot, Absent, Lives
  <1>4. Live(Display) = {}
    BY <1>2, <1>3 DEF Live
  <1>5. 0 >= Smaller(0, MinPage)
    BY LimitsAssumption DEF Smaller
  <1> QED
    BY <1>1, <1>2, <1>3, <1>4, <1>5 DEF StepInv, Current

(* The page on display is as old as its hold, a placeholder has no page left to turn,
   and no translation is of a later request than the one awaited; every operation of
   the composer keeps it so. *)
THEOREM StepsCorrect == Spec => []StepInv
  <1>1. StepInv /\ [Next]_vars => StepInv'
    <2> SUFFICES ASSUME StepInv, [Next]_vars PROVE StepInv'
      OBVIOUS
    <2>1. ComposerInv'
      BY StepKeeps DEF StepInv
    <2>2. Current(Display')
      BY StepRespects DEF StepGood
    <2> QED BY <2>1, <2>2 DEF StepInv
  <1> QED
    BY InitCurrent, <1>1, PTL DEF Spec

(* A page once shown stays for min(hold_ms, 1200 ms), unless its replacement is there or
   the generation ends (page_minimum_ms, expire, tick). *)
THEOREM PagesKeepTheirMinimum == Spec => PageKeepsMinimum
  <1> DEFINE Kept == slot.key # 0 /\ Shown(slot', segs') # Shown(slot, segs)
                     => \/ slot.page >= Smaller(PageMinimum(config), PageMinimum(config'))
                        \/ Replaces(slot'.key, slot.key)
                        \/ WasReset
  <1>1. StepInv /\ [Next]_vars => [Kept]_vars
    <2> SUFFICES ASSUME StepInv, [Next]_vars PROVE Kept
      OBVIOUS
    <2>1. CASE WasReset
      BY <2>1
    <2>2. CASE /\ KeptMinimum(Display, config', Display')
               /\ Display.segs = segs /\ Display.slot = slot /\ Display.config = config
               /\ Display'.segs = segs' /\ Display'.slot = slot'
      <3>1. slot.key # 0 /\ SamePage(Display, Display') => Shown(slot', segs') = Shown(slot, segs)
        BY <2>2 DEF SamePage, Shown
      <3>2. Takes(Display, Display') => Replaces(slot'.key, slot.key)
        BY <2>2 DEF Takes, Replaces
      <3> QED BY <2>2, <3>1, <3>2 DEF KeptMinimum, ShortestPage
    <2> QED BY <2>1, <2>2, RespectsMeans
  <1> QED
    BY StepsCorrect, <1>1, PTL DEF Spec, PageKeepsMinimum

(* The text on display is never replaced by that of an older request, nor its page by an
   earlier one (complete, inherit, tick). *)
THEOREM TextNeverGoesBackOnDisplay == Spec => ShownTextNeverGoesBack
  <1> DEFINE Onward ==
               /\ slot.key # 0 /\ slot'.key = slot.key =>
                    LET old == segs[slot.key].job
                        new == segs'[slot.key].job
                    IN \/ old.rev < new.rev
                       \/ old.rev = new.rev /\ old.att <= new.att
               /\ slot.key # 0 /\ slot'.key # 0
                  /\ (slot'.key = slot.key \/ Replaces(slot'.key, slot.key))
                  => segs[slot.key].index <= segs'[slot'.key].index
  <1>1. StepInv /\ [Next]_vars => [Onward]_vars
    <2> SUFFICES ASSUME StepInv, [Next]_vars PROVE Onward
      OBVIOUS
    <2>1. CASE WasReset /\ slot'.key = 0
      BY <2>1
    <2>2. CASE /\ NeverBack(Display, Display')
               /\ Display.segs = segs /\ Display.slot = slot
               /\ Display'.segs = segs' /\ Display'.slot = slot'
      <3>1. /\ slot.key # 0 /\ slot'.key = slot.key =>
                 NoOlder(segs[slot.key].job, segs'[slot.key].job)
            /\ slot.key # 0 /\ slot'.key # 0 /\ (slot'.key = slot.key \/ Takes(Display, Display'))
               => segs[slot.key].index <= segs'[slot'.key].index
        BY <2>2 DEF NeverBack
      <3>2. Replaces(slot'.key, slot.key) => Takes(Display, Display')
        BY <2>2 DEF Takes, Replaces
      <3> QED BY <3>1, <3>2 DEF NoOlder
    <2> QED BY <2>1, <2>2, RespectsMeans
  <1> QED
    BY StepsCorrect, <1>1, PTL DEF Spec, ShownTextNeverGoesBack

(* No caption appears before one that still waits and comes earlier in the transcript;
   a replacement, never before another one of the same text (next_waiting,
   replacement_head). *)
THEOREM CaptionsAppearInOrder == Spec => CaptionsInOrder
  <1> DEFINE Ordered ==
               \A s \in Waiting(Display) :
                  /\ slot'.key \notin {0, slot.key, s}
                  /\ segs'[s].display = "Waiting"
                  /\ segs[slot'.key].anchor \in {0, segs[s].anchor}
                  => segs'[slot'.key].order <= segs'[s].order
  <1>1. StepInv /\ [Next]_vars => [Ordered]_vars
    <2> SUFFICES ASSUME StepInv, [Next]_vars PROVE Ordered
      OBVIOUS
    <2>1. CASE WasReset /\ slot'.key = 0
      BY <2>1
    <2>2. CASE /\ InOrder(Display, Display')
               /\ Display.segs = segs /\ Display.slot = slot
               /\ Display'.segs = segs' /\ Display'.slot = slot'
      BY <2>2 DEF InOrder
    <2> QED BY <2>1, <2>2, RespectsMeans
  <1> QED
    BY StepsCorrect, <1>1, PTL DEF Spec, CaptionsInOrder

(* A caption whose replacement is being translated stays until the replacement is there or
   its hold is over (expire, tick). *)
THEOREM ReplacedCaptionsStay == Spec => ReplacedCaptionStays
  <1> DEFINE Stays ==
               /\ slot.placeholder /\ ~slot.leave
               /\ \E s \in Waiting(Display) :
                     segs[s].anchor = slot.key /\ segs[s].age < StaleAge
               /\ slot'.key # slot.key
               => \/ Replaces(slot'.key, slot.key)
                  \/ slot.hold >= Smaller(config.hold, config'.hold)
                  \/ WasReset
  <1>1. StepInv /\ [Next]_vars => [Stays]_vars
    <2> SUFFICES ASSUME StepInv, [Next]_vars PROVE Stays
      OBVIOUS
    <2>1. CASE WasReset
      BY <2>1
    <2>2. CASE /\ StaysReplaced(Display, config', Display')
               /\ Display.segs = segs /\ Display.slot = slot /\ Display.config = config
               /\ Display'.segs = segs' /\ Display'.slot = slot'
      <3>1. Takes(Display, Display') => Replaces(slot'.key, slot.key)
        BY <2>2 DEF Takes, Replaces
      <3> QED BY <2>2, <3>1 DEF StaysReplaced, Awaited, ShortestHold
    <2> QED BY <2>1, <2>2, RespectsMeans
  <1> QED
    BY StepsCorrect, <1>1, PTL DEF Spec, ReplacedCaptionStays

-----------------------------------------------------------------------------
(* What holds of a display on its own, whatever was registered with it, and how    *)
(* the operations change which segments wait, show and have pages.                 *)

Consistent(d) == Typed(d) /\ OwnsSlot(d) /\ WaitingUnread(d)

\* From d to e segments are only retired, and none gets pages it had not.
Fading(d, e) ==
    \A s \in SegIds :
        \/ Lives(d.segs[s]) /\ e.segs[s].display = "Retired"
        \/ /\ e.segs[s].display = d.segs[s].display
           /\ e.segs[s].left > 0 => d.segs[s].left > 0

\* The same, but a segment may take the slot.
Showing(d, e) ==
    /\ \A s \in SegIds :
          \/ Lives(d.segs[s]) /\ e.segs[s].display = "Retired"
          \/ /\ e.segs[s].display = d.segs[s].display
             /\ e.segs[s].left > 0 => d.segs[s].left > 0
          \/ /\ d.segs[s].display = "Waiting" /\ d.segs[s].left > 0
             /\ e.segs[s].display = "Visible" /\ e.slot.key = s
    /\ e.slot.key # 0 /\ e.slot.placeholder =>
          /\ e.slot.key = d.slot.key
          /\ e.segs[e.slot.key].index = d.segs[e.slot.key].index

LEMMA FadingItself ==
  ASSUME NEW d
  PROVE  Fading(d, d)
  BY DEF Fading

LEMMA FadingOn ==
  ASSUME NEW d, NEW e, NEW f, Fading(d, e), Fading(e, f)
  PROVE  Fading(d, f)
  BY DEF Fading, Lives

LEMMA AlikeConsistent ==
  ASSUME NEW d, Consistent(d), NEW e, Typed(e),
         e.slot.key = d.slot.key, e.slot.placeholder = d.slot.placeholder,
         \A s \in SegIds : /\ e.segs[s].display = d.segs[s].display
                           /\ e.segs[s].index = d.segs[s].index
                           /\ e.segs[s].ambiguous = d.segs[s].ambiguous
                           /\ d.segs[s].left > 0 => e.segs[s].left > 0
  PROVE  Consistent(e)
  <1>1. e.slot.key \in SegIds \cup {0}
    BY DEF Typed, Slots
  <1>2. OwnsSlot(e)
    BY <1>1 DEF Consistent, OwnsSlot
  <1>3. WaitingUnread(e)
    BY DEF Consistent, WaitingUnread, Waiting, With
  <1> QED
    BY <1>2, <1>3 DEF Consistent

LEMMA RetireConsistent ==
  ASSUME NEW d, Consistent(d), NEW S, NEW reason
  PROVE  LET r == RetireSegments(d, S, reason) IN
         /\ Consistent(r) /\ Fading(d, r) /\ r.slot.key = d.slot.key
         /\ \A s \in SegIds : /\ s \in S /\ Lives(d.segs[s]) => r.segs[s].display = "Retired"
                              /\ ~(s \in S /\ Lives(d.segs[s])) => r.segs[s] = d.segs[s]
                              /\ r.segs[s].index = d.segs[s].index
  <1> DEFINE r == RetireSegments(d, S, reason)
  <1>0. Typed(d) /\ \A s \in SegIds : d.segs[s] \in PagedSegments
    BY DEF Consistent, Typed
  <1>1. /\ Typed(r)
        /\ \A s \in SegIds : r.segs[s] = IF Lives(d.segs[s]) /\ s \in S
                                          THEN Tombstone(d.segs[s]) ELSE d.segs[s]
        /\ r.slot.key = d.slot.key
        /\ r.slot.placeholder <=>
              \/ d.slot.placeholder
              \/ d.slot.key \in S \cap SegIds /\ Lives(d.segs[d.slot.key])
    BY RetiredFacts DEF Consistent
  <1> HIDE DEF r
  <1>2. \A s \in SegIds : /\ \/ r.segs[s] = d.segs[s] /\ (s \notin S \/ ~Lives(d.segs[s]))
                             \/ r.segs[s].display = "Retired" /\ s \in S /\ Lives(d.segs[s])
                          /\ r.segs[s].index = d.segs[s].index
    BY <1>0, <1>1, TombstoneType, TombstoneKeeps
  <1>3. d.slot.key \in SegIds \cup {0} /\ d.slot.placeholder \in BOOLEAN
    BY DEF Consistent, Typed, Slots
  <1>4. OwnsSlot(r)
    <2>1. OwnsSlot(d)
      BY DEF Consistent
    <2>2. ASSUME NEW s \in SegIds
          PROVE  r.segs[s].display = "Visible" <=> r.slot.key = s /\ ~r.slot.placeholder
      <3>1. CASE d.slot.key # s
        BY <1>1, <1>2, <2>1, <3>1 DEF OwnsSlot
      <3>2. CASE d.slot.key = s
        <4>1. CASE s \in S /\ Lives(d.segs[s])
          BY <1>1, <1>2, <3>2, <4>1
        <4>2. CASE ~(s \in S /\ Lives(d.segs[s]))
          <5>1. r.segs[s] = d.segs[s] /\ (r.slot.placeholder <=> d.slot.placeholder)
            BY <1>1, <1>2, <3>2, <4>2
          <5> QED BY <1>1, <2>1, <3>2, <5>1 DEF OwnsSlot
        <4> QED BY <4>1, <4>2
      <3> QED BY <3>1, <3>2
    <2>3. r.slot.placeholder => r.slot.key \in SegIds /\ r.segs[r.slot.key].display = "Retired"
      BY <1>1, <1>2, <2>1 DEF OwnsSlot, Lives
    <2>4. \A s \in SegIds : r.segs[s].display = "Visible" => r.segs[s].left > 0
      BY <1>2, <2>1 DEF OwnsSlot
    <2> QED BY <2>2, <2>3, <2>4 DEF OwnsSlot
  <1>5. WaitingUnread(r)
    BY <1>2 DEF Consistent, WaitingUnread, Waiting, With
  <1>6. Fading(d, r)
    BY <1>2 DEF Fading
  <1>7. Consistent(r)
    BY <1>1, <1>4, <1>5 DEF Consistent
  <1> QED
    BY <1>1, <1>2, <1>6, <1>7 DEF r

LEMMA ClearConsistent ==
  ASSUME NEW d, Consistent(d), NEW preserve \in BOOLEAN
  PROVE  LET r == ClearSlot(d, preserve) IN
         Consistent(r) /\ Fading(d, r) /\ r.slot.key = 0 /\ ~r.slot.placeholder
  <1> DEFINE S == {d.slot.key} \cup Anchored(d)
             t == RetireSegments(d, S, "Completed")
             w == IF preserve THEN t.window ELSE << >>
             r == ClearSlot(d, preserve)
  <1>1. /\ Consistent(t) /\ Typed(t) /\ Fading(d, t) /\ t.slot.key = d.slot.key
        /\ \A s \in SegIds : /\ s \in S /\ Lives(d.segs[s]) => t.segs[s].display = "Retired"
                             /\ ~(s \in S /\ Lives(d.segs[s])) => t.segs[s] = d.segs[s]
    BY RetireConsistent DEF Consistent
  <1>2. r = [t EXCEPT !.slot = NoSlot, !.window = w]
    BY DEF ClearSlot
  <1> HIDE DEF t, r
  <1>3. w \in Seq(SegIds) /\ Len(w) <= MaxChunks
    BY <1>1, LimitsAssumption, EmptySeq DEF Typed
  <1> HIDE DEF w
  <1>4. r.segs = t.segs /\ r.slot = NoSlot /\ Typed(r)
    BY <1>1, <1>2, <1>3, NoSlotType DEF Typed
  <1>5. r.slot.key = 0 /\ ~r.slot.placeholder
    BY <1>4 DEF NoSlot
  <1>6. \A s \in SegIds : r.segs[s].display # "Visible"
    <2> SUFFICES ASSUME NEW s \in SegIds, r.segs[s].display = "Visible" PROVE FALSE
      OBVIOUS
    <2>1. t.segs[s].display = "Visible" /\ t.slot.key = s /\ s \in S
      BY <1>1, <1>4 DEF Consistent, OwnsSlot
    <2>2. ~Lives(d.segs[s])
      BY <1>1, <2>1
    <2>3. t.segs[s] = d.segs[s]
      BY <1>1, <2>2
    <2> QED BY <2>1, <2>2, <2>3 DEF Lives
  <1>7. OwnsSlot(r)
    BY <1>5, <1>6, NoId DEF OwnsSlot
  <1>8. WaitingUnread(r) /\ Fading(d, r)
    BY <1>1, <1>4 DEF Consistent, WaitingUnread, Waiting, With, Fading
  <1> QED
    BY <1>4, <1>5, <1>7, <1>8 DEF Consistent, r

LEMMA ExpireConsistent ==
  ASSUME NEW d, Consistent(d)
  PROVE  Consistent(Expire(d)) /\ Fading(d, Expire(d))
  <1>1. Consistent(Fresh(d)) /\ Fading(d, Fresh(d))
    BY RetireConsistent DEF Fresh
  <1>2. /\ Consistent(ClearSlot(Fresh(d), FALSE))
        /\ Fading(Fresh(d), ClearSlot(Fresh(d), FALSE))
    BY <1>1, ClearConsistent
  <1> QED
    BY <1>1, <1>2, FadingOn DEF Expire

LEMMA ConfirmedConsistent ==
  ASSUME NEW d, Consistent(d)
  PROVE  LET c == Confirmed(d) IN
         /\ Consistent(c) /\ c.segs = d.segs /\ c.slot.key = d.slot.key
         /\ c.slot.placeholder = d.slot.placeholder
  <1> DEFINE c == Confirmed(d)
  <1>0. Typed(d) /\ d.slot \in Slots /\ 0 \in 0..MaxHold
    BY MaxHoldType DEF Consistent, Typed
  <1>1. /\ c.segs = d.segs /\ c.slot.key = d.slot.key /\ c.slot.placeholder = d.slot.placeholder
        /\ Typed(c)
    BY <1>0 DEF Confirmed, Typed, Slots
  <1> HIDE DEF c
  <1>2. Consistent(c)
    BY <1>1, AlikeConsistent
  <1> QED
    BY <1>1, <1>2 DEF c

LEMMA UpdateConsistent ==
  ASSUME NEW d, Consistent(d), NEW updated \in SUBSET SegIds,
         NEW revs, \A s \in updated : revs[s] \in 0..MaxRevision, NEW final \in BOOLEAN
  PROVE  LET u == Update(d, updated, revs, final) IN
         /\ Consistent(u) /\ Fading(d, u)
         /\ \A s \in SegIds : u.segs[s].display = d.segs[s].display
  <1> DEFINE confirmed == /\ final /\ d.slot.key \in updated /\ ~d.slot.placeholder
                          /\ ~d.segs[d.slot.key].final
             e == IF confirmed THEN Confirmed(d) ELSE d
             seg(s) == [Finalized(e.segs[s], final) EXCEPT !.order = Order(s)]
             S == [s \in SegIds |->
                     IF s \notin updated THEN e.segs[s]
                     ELSE IF revs[s] > seg(s).expected.rev THEN Revised(seg(s), revs[s])
                     ELSE seg(s)]
             u == Update(d, updated, revs, final)
  <1>1. /\ Consistent(e) /\ Typed(e)
        /\ e.segs = d.segs /\ e.slot.key = d.slot.key /\ e.slot.placeholder = d.slot.placeholder
    BY ConfirmedConsistent DEF Consistent
  <1>2. u = [e EXCEPT !.segs = S]
    BY DEF Update
  <1> HIDE DEF e
  <1>3. ASSUME NEW s \in SegIds
        PROVE  /\ S[s] \in PagedSegments
               /\ S[s].display = d.segs[s].display
               /\ S[s].left = d.segs[s].left /\ S[s].index = d.segs[s].index
               /\ S[s].ambiguous = d.segs[s].ambiguous
    <2>1. CASE s \notin updated
      BY <1>1, <2>1 DEF Typed
    <2>2. CASE s \in updated
      <3>1. FirstJob(revs[s]) \in Jobs
        BY <2>2 DEF FirstJob, Jobs
      <3>2. d.segs[s] \in PagedSegments /\ Order(s) \in Nat
        BY <1>1, IdsAssumption DEF Typed
      <3>3. /\ seg(s) \in PagedSegments /\ seg(s).display = d.segs[s].display
            /\ seg(s).left = d.segs[s].left
            /\ seg(s).index = d.segs[s].index /\ seg(s).ambiguous = d.segs[s].ambiguous
        BY <1>1, <3>2 DEF Finalized, Segments, PagedSegments, PagesFit
      <3> HIDE DEF seg
      <3>4. /\ Revised(seg(s), revs[s]) \in PagedSegments
            /\ Revised(seg(s), revs[s]).display = d.segs[s].display
            /\ Revised(seg(s), revs[s]).left = d.segs[s].left
            /\ Revised(seg(s), revs[s]).index = d.segs[s].index
            /\ Revised(seg(s), revs[s]).ambiguous = d.segs[s].ambiguous
        BY <3>1, <3>3 DEF Revised, Segments, PagedSegments, PagesFit
      <3> QED BY <2>2, <3>3, <3>4
    <2> QED BY <2>1, <2>2
  <1>4. S \in [SegIds -> PagedSegments]
    <2>1. \A s \in SegIds : S[s] \in PagedSegments
      BY <1>3
    <2> QED BY <2>1
  <1> HIDE DEF S
  <1>5. u.segs = S /\ u.slot = e.slot /\ Typed(u)
    BY <1>1, <1>2, <1>4 DEF Typed
  <1> HIDE DEF u
  <1>6. Consistent(u)
    BY <1>1, <1>3, <1>5, AlikeConsistent
  <1>7. Fading(d, u)
    BY <1>3, <1>5 DEF Fading
  <1> QED
    BY <1>3, <1>5, <1>6, <1>7 DEF u

\* What fresh segments become: they wait, or are given up at once.
Joined(d, e, fresh) ==
    /\ \A s \in fresh : \/ e.segs[s].display = "Retired"
                        \/ e.segs[s].display = "Waiting" /\ e.segs[s].left = 0
    /\ \A s \in SegIds \ fresh :
          \/ Lives(d.segs[s]) /\ e.segs[s].display = "Retired"
          \/ /\ e.segs[s].display = d.segs[s].display
             /\ e.segs[s].left > 0 => d.segs[s].left > 0

LEMMA ReplaceConsistent ==
  ASSUME NEW d, Consistent(d),
         NEW fresh \in SUBSET SegIds, \A s \in fresh : d.segs[s].display = "Absent",
         NEW olds \in [SegIds -> SUBSET SegIds],
         NEW revs, \A s \in fresh : revs[s] \in 0..MaxRevision, NEW final \in BOOLEAN
  PROVE  LET r == Replace(d, fresh, olds, revs, final) IN
         Consistent(r) /\ Joined(d, r, fresh)
  <1> DEFINE replaced == UNION {olds[s] : s \in fresh}
             lost == {s \in fresh : \E o \in olds[s] : ~Replaceable(d, o)}
             c == IF final /\ d.slot.key \in replaced THEN Confirmed(d) ELSE d
             e == RetireSegments(c, replaced, "Replaced")
             new(s) == NewSegment(d, s, revs[s], fresh, olds, final)
             S == [s \in SegIds |-> IF s \in fresh THEN new(s) ELSE e.segs[s]]
             n == [e EXCEPT !.segs = S]
             r == RetireSegments(n, lost, "ReconcileAmbiguous")
  <1>1. /\ Consistent(c) /\ c.segs = d.segs /\ c.slot.key = d.slot.key
        /\ c.slot.placeholder = d.slot.placeholder
    BY ConfirmedConsistent
  <1> HIDE DEF c
  <1>2. /\ Consistent(e) /\ Typed(e) /\ Fading(c, e)
    BY <1>1, RetireConsistent DEF Consistent
  <1> HIDE DEF e
  <1>3. ASSUME NEW s \in fresh
        PROVE  /\ new(s) \in PagedSegments /\ new(s).display = "Waiting"
               /\ new(s).index = 0 /\ ~new(s).ambiguous /\ new(s).left = 0
    <2>1. /\ new(s) \in PagedSegments /\ new(s).display = "Waiting"
          /\ new(s).index = 0 /\ ~new(s).ambiguous
      BY <1>3, NewSegmentType DEF Consistent
    <2>2. new(s).left = 0
      BY DEF NewSegment, Absent
    <2> QED BY <2>1, <2>2
  <1> HIDE DEF new
  <1>4. /\ S \in [SegIds -> PagedSegments]
        /\ \A s \in SegIds : S[s] = IF s \in fresh THEN new(s) ELSE e.segs[s]
    BY <1>2, <1>3 DEF Typed
  <1> HIDE DEF S
  <1>5. n.segs = S /\ n.slot = e.slot /\ Typed(n)
    BY <1>2, <1>4 DEF Typed
  <1> HIDE DEF n
  <1>6. \A s \in fresh : e.segs[s].display = "Absent"
    BY <1>1, <1>2 DEF Fading, Lives
  <1>7. OwnsSlot(n)
    <2>1. OwnsSlot(e)
      BY <1>2 DEF Consistent
    <2>2. ASSUME NEW s \in SegIds
          PROVE  n.segs[s].display = "Visible" <=> n.slot.key = s /\ ~n.slot.placeholder
      BY <1>3, <1>4, <1>5, <1>6, <2>1 DEF OwnsSlot
    <2>3. n.slot.placeholder => n.slot.key \in SegIds /\ n.segs[n.slot.key].display = "Retired"
      BY <1>4, <1>5, <1>6, <2>1 DEF OwnsSlot
    <2>4. \A s \in SegIds : n.segs[s].display = "Visible" => n.segs[s].left > 0
      BY <1>3, <1>4, <1>5, <2>1 DEF OwnsSlot
    <2> QED BY <2>2, <2>3, <2>4 DEF OwnsSlot
  <1>8. WaitingUnread(n)
    BY <1>2, <1>3, <1>4, <1>5 DEF Consistent, WaitingUnread, Waiting, With
  <1>9. Consistent(n)
    BY <1>5, <1>7, <1>8 DEF Consistent
  <1>10. Joined(d, n, fresh)
    BY <1>1, <1>2, <1>3, <1>4, <1>5 DEF Joined, Fading
  <1>11. Consistent(r) /\ Fading(n, r)
    BY <1>9, RetireConsistent
  <1>12. \A s \in fresh : r.segs[s].display = "Waiting" => r.segs[s] = n.segs[s]
    BY <1>9, RetireConsistent
  <1> HIDE DEF r
  <1>13. Joined(d, r, fresh)
    BY <1>10, <1>11, <1>12 DEF Joined, Fading, Lives
  <1>14. r = Replace(d, fresh, olds, revs, final)
    BY DEF r, n, S, new, e, c, Replace
  <1> QED
    BY <1>11, <1>13, <1>14

\* register_segments
LEMMA RegisteredConsistent ==
  ASSUME NEW d, Consistent(d),
         NEW fresh \in SUBSET SegIds, \A s \in fresh : d.segs[s].display = "Absent",
         NEW olds \in [SegIds -> SUBSET SegIds], NEW updated \in SUBSET SegIds,
         NEW revs, \A s \in SegIds : revs[s] \in 0..MaxRevision, NEW final \in BOOLEAN
  PROVE  LET r == Registered(d, fresh, olds, updated, revs, final) IN
         /\ Consistent(r)
         /\ Refused(d, fresh, updated) \/ Full(d, fresh) => r = d
         /\ ~(Refused(d, fresh, updated) \/ Full(d, fresh)) => Joined(d, r, fresh)
  <1> DEFINE u == Update(d, updated, revs, final)
             p == Replace(u, fresh, olds, revs, final)
             r == Registered(d, fresh, olds, updated, revs, final)
             refused == Refused(d, fresh, updated) \/ Full(d, fresh)
  <1>1. CASE refused
    BY <1>1 DEF Registered
  <1>2. CASE ~refused
    <2>1. /\ Consistent(u) /\ Fading(d, u)
          /\ \A s \in SegIds : u.segs[s].display = d.segs[s].display
      BY UpdateConsistent
    <2> HIDE DEF u
    <2>2. Consistent(p) /\ Joined(u, p, fresh)
      BY <2>1, ReplaceConsistent
    <2> HIDE DEF p
    <2>3. Joined(d, p, fresh)
      BY <2>1, <2>2 DEF Joined, Fading, Lives
    <2> DEFINE surplus == {s \in Waiting(p) :
                 Cardinality({t \in Waiting(p) \ {s} : Younger(p, s, t)}) >= MaxWaiting}
               q == RetireSegments(p, surplus, "SegmentLimit")
    <2>4. /\ Consistent(q) /\ Fading(p, q)
          /\ \A s \in SegIds : q.segs[s].display = "Waiting" => q.segs[s] = p.segs[s]
      <3> HIDE DEF surplus
      <3> QED BY <2>2, RetireConsistent
    <2>5. r = q
      BY <1>2 DEF Registered, EnforceWaiting, p, u
    <2> HIDE DEF q
    <2>6. Joined(d, q, fresh)
      BY <2>3, <2>4 DEF Joined, Fading, Lives
    <2> QED BY <1>2, <2>4, <2>5, <2>6
  <1> QED BY <1>1, <1>2

LEMMA OneChanged ==
  ASSUME NEW A, NEW B, NEW f \in [A -> B], NEW a, NEW b \in B
  PROVE  [f EXCEPT ![a] = b] \in [A -> B]
  OBVIOUS

\* Whatever chunk is replaced, the window stays one.
LEMMA ReplaceChunkType ==
  ASSUME NEW w \in Seq(SegIds), Len(w) <= MaxChunks, NEW old, NEW new \in SegIds
  PROVE  ReplaceChunk(w, old, new) \in Seq(SegIds) /\ Len(ReplaceChunk(w, old, new)) <= MaxChunks
  <1> DEFINE at == {i \in DOMAIN w : w[i] = old}
  <1>1. CASE at = {}
    <2>1. ReplaceChunk(w, old, new) = Trim(Append(w, new))
      BY <1>1 DEF ReplaceChunk
    <2> QED BY <2>1, AppendFacts
  <1>2. CASE at # {}
    <2> DEFINE m == CHOOSE i \in at : \A j \in at : j <= i
               r == [w EXCEPT ![m] = new]
    <2>1. r \in Seq(SegIds) /\ Len(r) = Len(w)
      <3>1. DOMAIN w = 1..Len(w) /\ Len(w) \in Nat
        BY LenProperties
      <3> HIDE DEF m
      <3>2. r \in [1..Len(w) -> SegIds]
        <4>1. w \in [1..Len(w) -> SegIds]
          BY LenProperties
        <4> QED BY <4>1, OneChanged
      <3>3. r \in Seq(SegIds) /\ DOMAIN r = 1..Len(w)
        BY <3>1, <3>2, SeqDef
      <3> QED BY <3>1, <3>3, LenProperties
    <2>2. ReplaceChunk(w, old, new) = Trim(r)
      BY <1>2 DEF ReplaceChunk
    <2> HIDE DEF r
    <2>3. Len(r) \in Nat /\ Len(r) <= MaxChunks
      BY <2>1, LenProperties
    <2>4. Trim(r) = r
      BY <2>3, LimitsAssumption DEF Trim
    <2> QED BY <2>1, <2>2, <2>3, <2>4
  <1> QED BY <1>1, <1>2

LEMMA SegmentConsistent ==
  ASSUME NEW d, Consistent(d), NEW s \in SegIds, NEW seg \in PagedSegments,
         seg.display = d.segs[s].display,
         d.segs[s].left > 0 => seg.left > 0,
         seg.display = "Waiting" => seg.index = 0 /\ ~seg.ambiguous
  PROVE  LET e == [d EXCEPT !.segs[s] = seg] IN
         /\ Consistent(e) /\ e.slot = d.slot /\ e.window = d.window /\ e.config = d.config
         /\ e.segs[s] = seg /\ \A t \in SegIds \ {s} : e.segs[t] = d.segs[t]
  <1> DEFINE e == [d EXCEPT !.segs[s] = seg]
  <1>1. Typed(d)
    BY DEF Consistent
  <1>2. /\ e.segs = [d.segs EXCEPT ![s] = seg] /\ e.slot = d.slot
        /\ e.window = d.window /\ e.config = d.config /\ Typed(e)
    BY <1>1 DEF Typed
  <1> HIDE DEF e
  <1>3. /\ e.segs[s] = seg
        /\ \A t \in SegIds \ {s} : e.segs[t] = d.segs[t]
    BY <1>1, <1>2 DEF Typed
  <1>4. e.slot.key \in SegIds \cup {0}
    BY <1>2 DEF Typed, Slots
  <1>5. OwnsSlot(e)
    BY <1>2, <1>3, <1>4 DEF Consistent, OwnsSlot
  <1>6. WaitingUnread(e)
    BY <1>3 DEF Consistent, WaitingUnread, Waiting, With
  <1> QED
    BY <1>2, <1>3, <1>5, <1>6 DEF Consistent, e

\* expect_job
LEMMA ExpectingConsistent ==
  ASSUME NEW d, Consistent(d), NEW s \in SegIds, NEW job \in Jobs
  PROVE  LET e == Expecting(d, s, job) IN
         Consistent(e) /\ Fading(d, e) /\ e.slot = d.slot
  <1>1. CASE s \in Live(d)
    <2> DEFINE seg == [d.segs[s] EXCEPT !.expected = job, !.processed = FALSE]
    <2>0. Typed(d) /\ d.segs[s] \in PagedSegments
      BY DEF Consistent, Typed
    <2>1. /\ seg \in PagedSegments /\ seg.display = d.segs[s].display
          /\ seg.left = d.segs[s].left
          /\ seg.index = d.segs[s].index /\ seg.ambiguous = d.segs[s].ambiguous
      BY <2>0 DEF Segments, PagedSegments, PagesFit
    <2>2. seg.display = "Waiting" => seg.index = 0 /\ ~seg.ambiguous
      BY <1>1, <2>1 DEF Consistent, WaitingUnread, Waiting, With
    <2>3. [d EXCEPT !.segs[s].expected = job, !.segs[s].processed = FALSE]
          = [d EXCEPT !.segs[s] = seg]
      BY <2>0 DEF Typed, Segments, PagedSegments, PagesFit
    <2> HIDE DEF seg
    <2> DEFINE e == [d EXCEPT !.segs[s] = seg]
    <2>4. /\ Consistent(e) /\ e.slot = d.slot /\ e.segs[s] = seg
          /\ \A t \in SegIds \ {s} : e.segs[t] = d.segs[t]
      BY <2>1, <2>2, SegmentConsistent
    <2>5. Expecting(d, s, job) = e \/ Expecting(d, s, job) = d
      BY <2>3 DEF Expecting
    <2> HIDE DEF e
    <2>6. Fading(d, e)
      BY <2>1, <2>4 DEF Fading
    <2> QED BY <2>4, <2>5, <2>6, FadingItself
  <1>2. CASE s \notin Live(d)
    BY <1>2, FadingItself DEF Expecting
  <1> QED
    BY <1>1, <1>2

LEMMA ConfirmedIfConsistent ==
  ASSUME NEW d, Consistent(d), NEW s
  PROVE  Consistent(ConfirmedIf(d, s)) /\ Fading(d, ConfirmedIf(d, s))
  <1>1. Consistent(Confirmed(d)) /\ Confirmed(d).segs = d.segs
    BY ConfirmedConsistent
  <1> QED
    BY <1>1, FadingItself DEF ConfirmedIf, Fading

\* From d to e a segment may be retired, and s may get pages if it was given some.
Answering(d, e, s, pages) ==
    \A t \in SegIds :
        \/ Lives(d.segs[t]) /\ e.segs[t].display = "Retired"
        \/ /\ e.segs[t].display = d.segs[t].display
           /\ e.segs[t].left > 0 => d.segs[t].left > 0 \/ (t = s /\ pages > 0)

\* Only what the segment s is to show has changed.
Refreshed(d, e, s) ==
    /\ \A t \in SegIds : e.segs[t].display = d.segs[t].display
    /\ \A t \in SegIds \ {s} : e.segs[t] = d.segs[t]

LEMMA UpdateVisibleConsistent ==
  ASSUME NEW d, Consistent(d), NEW s \in SegIds, d.slot.key = s, ~d.slot.placeholder,
         NEW pages \in 1..MaxPages, NEW aligned
  PROVE  LET v == UpdateVisible(d, s, pages, aligned) IN
         Consistent(v) /\ Refreshed(d, v, s)
  <1> DEFINE seg == d.segs[s]
             new == Realigned(seg, seg.index, pages, ~seg.ambiguous /\ aligned)
             e == [d EXCEPT !.segs[s] = new]
             sl == [Restarted(d.slot) EXCEPT !.dirty = TRUE]
             w == ReplaceChunk(d.window, s, s)
             v == UpdateVisible(d, s, pages, aligned)
  <1>1. Typed(d) /\ seg \in PagedSegments /\ seg.display = "Visible"
    BY DEF Consistent, Typed, OwnsSlot
  <1>2. /\ new \in PagedSegments /\ new.left > 0
        /\ new.display = seg.display
    <2>1. seg.index \in 0..MaxPages
      BY <1>1 DEF Segments, PagedSegments, PagesFit
    <2> DEFINE agrees == ~seg.ambiguous /\ aligned
    <2>2. (agrees => ~seg.ambiguous) /\ new = Realigned(seg, seg.index, pages, agrees)
      OBVIOUS
    <2> HIDE DEF seg, new, agrees
    <2> QED BY <1>1, <2>1, <2>2, RealignedFacts
  <1> HIDE DEF new
  <1>3. /\ Consistent(e) /\ Typed(e) /\ e.slot = d.slot
        /\ e.segs[s] = new /\ \A t \in SegIds \ {s} : e.segs[t] = d.segs[t]
    BY <1>1, <1>2, SegmentConsistent DEF Consistent
  <1>4. sl \in Slots /\ sl.key = d.slot.key /\ sl.placeholder = d.slot.placeholder
    <2>1. d.slot \in Slots /\ 0 \in 0..MinPage /\ 0 \in 0..MaxHold /\ 0 \in 0..Lifetime
      BY <1>1, LimitsAssumption, MaxHoldType DEF Typed
    <2> QED BY <2>1 DEF Restarted, Slots
  <1>5. w \in Seq(SegIds) /\ Len(w) <= MaxChunks
    BY <1>1, ReplaceChunkType DEF Typed
  <1> HIDE DEF sl, w
  <1>6. v = [e EXCEPT !.slot = sl, !.window = w]
    BY <1>1 DEF UpdateVisible, Typed, new, sl, w
  <1> HIDE DEF e
  <1>7. v.segs = e.segs /\ v.slot = sl /\ Typed(v)
    BY <1>3, <1>4, <1>5, <1>6 DEF Typed
  <1> HIDE DEF v
  <1>8. Consistent(v)
    BY <1>3, <1>4, <1>7, AlikeConsistent
  <1>9. Refreshed(d, v, s)
    BY <1>2, <1>3, <1>7 DEF Refreshed
  <1> QED
    BY <1>8, <1>9 DEF v

LEMMA TakenConsistent ==
  ASSUME NEW d, Consistent(d), NEW s \in Live(d), NEW job \in Jobs,
         NEW pages \in 0..MaxPages, NEW aligned
  PROVE  LET r == Taken(d, s, job, pages, aligned) IN
         Consistent(r) /\ Answering(d, r, s, pages)
  <1> DEFINE seg == [d.segs[s] EXCEPT !.processed = TRUE]
             told == [seg EXCEPT !.job = job]
             shown == [told EXCEPT !.left = pages]
             e == [d EXCEPT !.segs[s].processed = TRUE]
             t == [e EXCEPT !.segs[s].job = job]
             x == [t EXCEPT !.segs[s].left = pages]
             Good(r) == Consistent(r) /\ Answering(d, r, s, pages)
  <1>1. s \in SegIds /\ Typed(d) /\ d.segs[s] \in PagedSegments
    BY DEF Consistent, Live, Typed
  <1>a. d.segs[s].display = "Waiting" => d.segs[s].index = 0 /\ ~d.segs[s].ambiguous
    BY <1>1 DEF Consistent, WaitingUnread, Waiting, With
  <1>2. /\ seg \in PagedSegments /\ seg.display = d.segs[s].display
        /\ seg.left = d.segs[s].left
        /\ seg.index = d.segs[s].index /\ seg.ambiguous = d.segs[s].ambiguous
    BY <1>1 DEF Segments, PagedSegments, PagesFit
  <1>3. /\ told \in PagedSegments /\ told.display = d.segs[s].display
        /\ told.left = d.segs[s].left
        /\ told.index = d.segs[s].index /\ told.ambiguous = d.segs[s].ambiguous
    BY <1>2 DEF Segments, PagedSegments, PagesFit
  <1>4. ASSUME pages # 0, ~Shows(d, s)
        PROVE  /\ shown \in PagedSegments /\ shown.display = d.segs[s].display
               /\ shown.left = pages
               /\ shown.index = d.segs[s].index /\ shown.ambiguous = d.segs[s].ambiguous
    <2>1. /\ shown \in Segments /\ shown.display = d.segs[s].display
          /\ shown.left = pages
          /\ shown.index = d.segs[s].index /\ shown.ambiguous = d.segs[s].ambiguous
      BY <1>3 DEF Segments, PagedSegments
    <2>2. d.segs[s].display = "Waiting"
      BY <1>1, <1>4 DEF Shows, Consistent, OwnsSlot, Live, Lives
    <2>3. PagesFit(shown)
      BY <1>a, <2>1, <2>2 DEF PagesFit
    <2> QED BY <2>1, <2>3 DEF PagedSegments
  <1>5. /\ e = [d EXCEPT !.segs[s] = seg]
        /\ t = [d EXCEPT !.segs[s] = told]
        /\ x = [d EXCEPT !.segs[s] = shown]
    BY <1>1 DEF Typed, Segments, PagedSegments, PagesFit
  <1>6. Taken(d, s, job, pages, aligned) =
          IF d.slot.key = s /\ HoldOver(d) THEN e
          ELSE IF pages = 0
               THEN IF d.segs[s].left = 0 THEN RetireSegments(e, {s}, "TranslationFailed") ELSE e
          ELSE IF Shows(d, s) THEN UpdateVisible(t, s, pages, aligned)
          ELSE x
    BY DEF Taken
  <1> HIDE DEF seg, told, shown, e, t, x
  <1>7. Consistent(e) /\ Fading(d, e) /\ Good(e)
    <2>1. Consistent(e) /\ e.segs[s] = seg /\ \A u \in SegIds \ {s} : e.segs[u] = d.segs[u]
      BY <1>1, <1>a, <1>2, <1>5, SegmentConsistent
    <2> QED BY <1>2, <2>1 DEF Fading, Answering
  <1>8. /\ Consistent(t) /\ t.slot = d.slot
        /\ \A u \in SegIds : t.segs[u].display = d.segs[u].display /\ t.segs[u].left = d.segs[u].left
    <2>1. /\ Consistent(t) /\ t.slot = d.slot /\ t.segs[s] = told
          /\ \A u \in SegIds \ {s} : t.segs[u] = d.segs[u]
      BY <1>1, <1>a, <1>3, <1>5, SegmentConsistent
    <2> QED BY <1>3, <2>1
  <1>9. ASSUME pages # 0, ~Shows(d, s)
        PROVE  Good(x)
    <2>1. /\ Consistent(x) /\ x.segs[s] = shown
          /\ \A u \in SegIds \ {s} : x.segs[u] = d.segs[u]
      BY <1>1, <1>a, <1>4, <1>5, <1>9, SegmentConsistent
    <2>2. \A u \in SegIds \ {s} : /\ x.segs[u].display = d.segs[u].display
                                  /\ x.segs[u].left > 0 => d.segs[u].left > 0
      BY <2>1
    <2>3. x.segs[s].display = d.segs[s].display /\ pages > 0
      BY <1>4, <1>9, <2>1
    <2> QED BY <2>1, <2>2, <2>3 DEF Answering
  <1>10. Good(RetireSegments(e, {s}, "TranslationFailed"))
    <2>1. LET r == RetireSegments(e, {s}, "TranslationFailed") IN Consistent(r) /\ Fading(e, r)
      BY <1>7, RetireConsistent
    <2> DEFINE r == RetireSegments(e, {s}, "TranslationFailed")
    <2> HIDE DEF r
    <2>2. Consistent(r) /\ Fading(d, r)
      BY <1>7, <2>1, FadingOn DEF r
    <2>3. Good(r)
      BY <2>2 DEF Fading, Answering
    <2> QED BY <2>3 DEF r
  <1>11. pages # 0 /\ Shows(d, s) => Good(UpdateVisible(t, s, pages, aligned))
    <2> SUFFICES ASSUME pages # 0, Shows(d, s) PROVE Good(UpdateVisible(t, s, pages, aligned))
      OBVIOUS
    <2> DEFINE r == UpdateVisible(t, s, pages, aligned)
    <2>0. pages \in 1..MaxPages /\ t.slot.key = s /\ ~t.slot.placeholder
      BY <1>8 DEF Shows
    <2>1. Consistent(r) /\ Refreshed(t, r, s)
      <3>1. Consistent(t) /\ s \in SegIds
        BY <1>1, <1>8
      <3> HIDE DEF r
      <3> QED BY <2>0, <3>1, UpdateVisibleConsistent DEF r
    <2> HIDE DEF r
    <2>2. pages > 0
      OBVIOUS
    <2>3. Good(r)
      <3>1. ASSUME NEW u \in SegIds \ {s}
            PROVE  /\ r.segs[u].display = d.segs[u].display
                   /\ r.segs[u].left > 0 => d.segs[u].left > 0
        <4>1. r.segs[u] = t.segs[u]
          BY <2>1 DEF Refreshed
        <4> QED BY <1>8, <4>1
      <3>2. r.segs[s].display = d.segs[s].display
        BY <1>1, <1>8, <2>1 DEF Refreshed
      <3> QED BY <2>1, <2>2, <3>1, <3>2 DEF Answering
    <2> QED BY <2>3 DEF r
  <1> HIDE DEF Good
  <1>12. Good(Taken(d, s, job, pages, aligned))
    BY <1>6, <1>7, <1>9, <1>10, <1>11
  <1> QED
    BY <1>12 DEF Good

\* complete
LEMMA AnsweredConsistent ==
  ASSUME NEW d, Consistent(d), NEW s \in SegIds, NEW job \in Jobs,
         NEW pages \in 0..MaxPages, NEW aligned
  PROVE  LET r == Answered(d, s, job, pages, aligned) IN
         Consistent(r) /\ Answering(d, r, s, pages)
  <1>1. Answering(d, d, s, pages)
    BY DEF Answering
  <1> QED
    BY <1>1, TakenConsistent DEF Answered

\* s enters the slot and everything else stays.
Entered(d, e, s) ==
    /\ e.slot.key = s /\ ~e.slot.placeholder
    /\ e.segs[s].display = "Visible" /\ e.segs[s].left > 0
    /\ \A t \in SegIds \ {s} : e.segs[t] = d.segs[t]

LEMMA EnterConsistent ==
  ASSUME NEW d, Consistent(d), NEW s \in SegIds, d.segs[s].left > 0,
         \/ d.slot.key = 0 /\ d.segs[s].display = "Waiting"
         \/ d.slot.key = s /\ d.segs[s].display = "Visible"
  PROVE  Consistent(Enter(d, s)) /\ Entered(d, Enter(d, s), s)
  <1> DEFINE life == IF d.slot.key = s THEN d.slot.life ELSE 0
             sl == Owner(d, s, FALSE, life)
             S == [d.segs EXCEPT ![s].display = "Visible", ![s].age = 0]
             w == Trim(Append(d.window, s))
             e == Enter(d, s)
  <1>0. Typed(d) /\ d.segs \in [SegIds -> PagedSegments] /\ d.slot \in Slots
    BY DEF Consistent, Typed
  <1>1. sl \in Slots /\ sl.key = s /\ ~sl.placeholder
    <2>1. life \in 0..Lifetime
      BY <1>0, LimitsAssumption DEF Slots
    <2> HIDE DEF life
    <2> QED BY <1>0, <2>1, OwnerType
  <1>2. /\ S \in [SegIds -> PagedSegments]
        /\ S[s].display = "Visible" /\ S[s].left = d.segs[s].left
        /\ \A t \in SegIds \ {s} : S[t] = d.segs[t]
    <2>1. "Visible" \in Displays /\ 0 \in 0..StaleAge
      BY LimitsAssumption DEF Displays
    <2> QED BY <1>0, <2>1 DEF Segments, PagedSegments, PagesFit
  <1>3. w \in Seq(SegIds) /\ Len(w) <= MaxChunks
    BY AppendFacts DEF Consistent, Typed
  <1> HIDE DEF S, sl, w
  <1>4. e = DisplayOf(S, sl, w, d.config)
    BY DEF Enter, S, sl, w
  <1>5. e.segs = S /\ e.slot = sl
    BY <1>4, DisplayFields
  <1>6. Typed(e)
    BY <1>1, <1>2, <1>3, <1>4, TypedDisplay DEF Consistent, Typed
  <1> HIDE DEF e
  <1>7. OwnsSlot(e)
    <2>1. \A t \in SegIds \ {s} : d.segs[t].display # "Visible"
      BY NoId DEF Consistent, OwnsSlot
    <2> QED BY <1>1, <1>2, <1>5, <2>1 DEF OwnsSlot
  <1>8. WaitingUnread(e)
    BY <1>2, <1>5 DEF Consistent, WaitingUnread, Waiting, With
  <1>9. Entered(d, e, s)
    BY <1>1, <1>2, <1>5 DEF Entered
  <1> QED
    BY <1>6, <1>7, <1>8, <1>9 DEF Consistent, e

LEMMA EnteredShowing ==
  ASSUME NEW d, NEW e, NEW f, Fading(d, e), NEW s \in SegIds, e.segs[s].display = "Waiting",
         e.segs[s].left > 0, Entered(e, f, s)
  PROVE  Showing(d, f)
  BY DEF Fading, Entered, Showing

LEMMA FadingShowing ==
  ASSUME NEW d, NEW e, Fading(d, e),
         \/ e.slot.key = 0
         \/ e.slot.key = d.slot.key /\ e.segs[e.slot.key].index = d.segs[e.slot.key].index
  PROVE  Showing(d, e)
  BY DEF Fading, Showing

LEMMA EnterNextConsistent ==
  ASSUME NEW d, NEW e, Fading(d, e), Consistent(e), e.slot.key = 0
  PROVE  Consistent(EnterNext(e)) /\ Showing(d, EnterNext(e))
  <1> DEFINE s == NextWaiting(e)
  <1>1. CASE Ready(e, s)
    <2>1. s # 0 /\ e.segs[s].left > 0
      BY <1>1 DEF Ready
    <2>2. Waiting(e) \in SUBSET SegIds
      BY DEF Waiting, With
    <2>3. s \in Waiting(e)
      BY <2>1, <2>2, FirstExists DEF NextWaiting, FirstOf, Consistent
    <2> HIDE DEF s
    <2>4. s \in SegIds /\ e.segs[s].display = "Waiting"
      BY <2>3 DEF Waiting, With
    <2>5. Consistent(Enter(e, s)) /\ Entered(e, Enter(e, s), s)
      BY <2>1, <2>4, EnterConsistent
    <2>6. Showing(d, Enter(e, s))
      BY <2>1, <2>4, <2>5, EnteredShowing
    <2>7. EnterNext(e) = Enter(e, s)
      BY <1>1 DEF EnterNext, s
    <2> QED
      BY <2>5, <2>6, <2>7
  <1>2. CASE ~Ready(e, s)
    <2>1. EnterNext(e) = e
      BY <1>2 DEF EnterNext
    <2>2. Showing(d, e)
      BY FadingShowing
    <2> QED BY <2>1, <2>2
  <1> QED
    BY <1>1, <1>2

LEMMA InheritConsistent ==
  ASSUME NEW d, Consistent(d), ReplacementReady(d), NEW aligned
  PROVE  LET e == Inherit(d, ReplacementHead(d), aligned) IN Consistent(e) /\ Showing(d, e)
  <1> DEFINE s == ReplacementHead(d)
             k == d.slot.key
             old == d.segs[k]
             new == IF old.index = 0 THEN d.segs[s]
                    ELSE Realigned(d.segs[s], old.index, d.segs[s].left, ~old.ambiguous /\ aligned)
             owner == [new EXCEPT !.display = "Visible", !.age = 0]
             S == [d.segs EXCEPT ![s] = owner]
             U == Unanchored(S, k)
             sl == Owner(d, s, d.slot.final, 0)
             w == ReplaceChunk(d.window, k, s)
             e == Inherit(d, s, aligned)
  <1>0. Typed(d) /\ d.segs \in [SegIds -> PagedSegments] /\ d.slot \in Slots /\ d.config \in Configs
    BY DEF Consistent, Typed
  <1>1. d.slot.placeholder /\ s # 0 /\ d.segs[s].left > 0
    BY DEF ReplacementReady, Ready
  <1>2. k \in SegIds /\ d.segs[k].display = "Retired"
    BY <1>1, NoId DEF Consistent, OwnsSlot
  <1>3. s \in Waiting(d) \cap Anchored(d)
    <2>1. Waiting(d) \cap Anchored(d) \in SUBSET SegIds
      BY DEF Waiting, With
    <2> QED
      BY <1>0, <1>1, <2>1, FirstExists DEF ReplacementHead, FirstOf
  <1> HIDE DEF s
  <1>4. s \in SegIds /\ d.segs[s].display = "Waiting" /\ d.segs[s] \in PagedSegments /\ s # k
    BY <1>0, <1>2, <1>3 DEF Waiting, With
  <1>5. new \in PagedSegments /\ new.left > 0
    <2>1. old.index \in 0..MaxPages /\ d.segs[s].left \in 1..MaxPages
      BY <1>0, <1>1, <1>2, <1>4 DEF Segments, PagedSegments, PagesFit
    <2>2. ~d.segs[s].ambiguous
      BY <1>3 DEF Consistent, WaitingUnread
    <2> HIDE DEF old
    <2>3. CASE old.index = 0
      BY <1>1, <1>4, <2>3
    <2>4. CASE old.index # 0
      <3> DEFINE agrees == ~old.ambiguous /\ aligned
      <3>1. agrees => ~d.segs[s].ambiguous
        BY <2>2
      <3>2. new = Realigned(d.segs[s], old.index, d.segs[s].left, agrees)
        BY <2>4
      <3> HIDE DEF new, agrees
      <3> QED BY <1>4, <2>1, <3>1, <3>2, RealignedFacts
    <2> QED
      BY <2>3, <2>4
  <1> HIDE DEF new
  <1>6. owner \in PagedSegments /\ owner.display = "Visible" /\ owner.left > 0
    <2>1. "Visible" \in Displays /\ 0 \in 0..StaleAge
      BY LimitsAssumption DEF Displays
    <2> QED BY <1>5, <2>1 DEF Segments, PagedSegments, PagesFit
  <1> HIDE DEF owner
  <1>7. S \in [SegIds -> PagedSegments] /\ S[s] = owner /\ \A t \in SegIds \ {s} : S[t] = d.segs[t]
    BY <1>0, <1>4, <1>6
  <1> HIDE DEF S
  <1>8. /\ U \in [SegIds -> PagedSegments]
        /\ \A t \in SegIds : /\ U[t].display = S[t].display /\ U[t].left = S[t].left
                             /\ U[t].index = S[t].index /\ U[t].ambiguous = S[t].ambiguous
    BY <1>7 DEF Unanchored, Segments, PagedSegments, PagesFit
  <1>9. sl \in Slots /\ sl.key = s /\ ~sl.placeholder
    <2>1. d.slot.final \in BOOLEAN /\ 0 \in 0..Lifetime
      BY <1>0, LimitsAssumption DEF Slots
    <2> QED BY <1>0, <1>4, <2>1, OwnerType
  <1>10. w \in Seq(SegIds) /\ Len(w) <= MaxChunks
    <2>1. d.window \in Seq(SegIds) /\ Len(d.window) <= MaxChunks
      BY <1>0 DEF Typed
    <2> QED BY <1>4, <2>1, ReplaceChunkType
  <1> HIDE DEF U, sl, w
  <1>11. e = DisplayOf(U, sl, w, d.config)
    BY DEF Inherit, U, S, owner, new, sl, w
  <1>12. e.segs = U /\ e.slot = sl
    BY <1>11, DisplayFields
  <1>13. Typed(e)
    BY <1>0, <1>8, <1>9, <1>10, <1>11, TypedDisplay
  <1> HIDE DEF e
  <1>14. OwnsSlot(e)
    <2>1. \A t \in SegIds : d.segs[t].display # "Visible"
      BY <1>1 DEF Consistent, OwnsSlot
    <2> QED BY <1>4, <1>6, <1>7, <1>8, <1>9, <1>12, <2>1 DEF OwnsSlot
  <1>15. WaitingUnread(e)
    BY <1>6, <1>7, <1>8, <1>12 DEF Consistent, WaitingUnread, Waiting, With
  <1>16. Showing(d, e)
    <2>1. \A t \in SegIds \ {s} : /\ e.segs[t].display = d.segs[t].display
                                  /\ e.segs[t].left > 0 => d.segs[t].left > 0
      BY <1>7, <1>8, <1>12
    <2>2. e.segs[s].display = "Visible"
      BY <1>4, <1>6, <1>7, <1>8, <1>12
    <2> QED BY <1>1, <1>4, <1>9, <1>12, <2>1, <2>2 DEF Showing
  <1> QED
    BY <1>13, <1>14, <1>15, <1>16 DEF Consistent, e, s

LEMMA NextPageConsistent ==
  ASSUME NEW d, Consistent(d), TurnsPage(d)
  PROVE  LET r == NextPage(d, d.slot.key) IN Consistent(r) /\ Showing(d, r)
  <1> DEFINE s == d.slot.key
             seg == [d.segs[s] EXCEPT !.left = @ - 1, !.index = @ + 1]
             e == [d EXCEPT !.segs[s] = seg]
             f == [d EXCEPT !.segs[s].left = @ - 1, !.segs[s].index = @ + 1]
             r == Enter(e, s)
  <1>1. /\ s \in SegIds /\ d.segs[s].left > 1 /\ ~d.slot.placeholder
        /\ Typed(d) /\ d.segs[s] \in PagedSegments
    BY DEF TurnsPage, MorePages, Consistent, Typed, Slots
  <1>2. d.segs[s].display = "Visible"
    BY <1>1 DEF Consistent, OwnsSlot
  <1>3. /\ d.segs[s].left - 1 \in 1..MaxPages /\ d.segs[s].index + 1 \in 0..MaxPages
        /\ (d.segs[s].index + 1) + (d.segs[s].left - 1) <= MaxPages
        /\ ~d.segs[s].ambiguous
    BY <1>1, LimitsAssumption DEF PagedSegments, PagesFit, Segments
  <1>a. /\ d.segs[s] \in Segments
        /\ d.segs[s].left - 1 \in 0..MaxPages /\ d.segs[s].index + 1 \in 0..MaxPages
    BY <1>1, <1>3, LimitsAssumption DEF PagedSegments
  <1>4. /\ seg \in Segments
        /\ seg.left = d.segs[s].left - 1 /\ seg.index = d.segs[s].index + 1
        /\ seg.ambiguous = d.segs[s].ambiguous
        /\ seg.display = d.segs[s].display
    BY <1>a DEF Segments
  <1>5. f = e
    BY <1>1 DEF Typed, PagedSegments, Segments
  <1> HIDE DEF seg
  <1>6. PagesFit(seg)
    BY <1>3, <1>4 DEF PagesFit
  <1>7. seg \in PagedSegments /\ seg.left > 0 /\ seg.display # "Waiting"
    BY <1>2, <1>3, <1>4, <1>6 DEF PagedSegments
  <1>9. /\ Consistent(e) /\ e.slot = d.slot /\ e.segs[s] = seg
        /\ \A t \in SegIds \ {s} : e.segs[t] = d.segs[t]
    BY <1>1, <1>4, <1>7, SegmentConsistent
  <1>11. NextPage(d, s) = r
    BY <1>5 DEF NextPage
  <1> HIDE DEF e, f
  <1>12. Consistent(r) /\ Entered(e, r, s)
    BY <1>1, <1>2, <1>4, <1>7, <1>9, EnterConsistent
  <1> HIDE DEF r
  <1>13. Showing(d, r)
    <2>1. \A t \in SegIds \ {s} : r.segs[t] = d.segs[t]
      BY <1>9, <1>12 DEF Entered
    <2>2. r.segs[s].display = d.segs[s].display /\ d.segs[s].left > 0
      BY <1>1, <1>2, <1>12 DEF Entered, PagedSegments, Segments
    <2>3. ~r.slot.placeholder
      BY <1>12 DEF Entered
    <2> QED BY <2>1, <2>2, <2>3 DEF Showing
  <1> QED
    BY <1>11, <1>12, <1>13

\* tick, once it has expired what is over
LEMMA RenderedConsistent ==
  ASSUME NEW d, Consistent(d), NEW aligned
  PROVE  Consistent(Rendered(d, aligned)) /\ Showing(d, Rendered(d, aligned))
  <1> DEFINE Good(e) == Consistent(e) /\ Showing(d, e)
  <1>1. ReplacementReady(d) => Good(Inherit(d, ReplacementHead(d), aligned))
    BY InheritConsistent
  <1>2. Good([d EXCEPT !.slot.dirty = FALSE])
    <2> DEFINE e == [d EXCEPT !.slot.dirty = FALSE]
    <2>1. /\ e.segs = d.segs
          /\ e.slot.key = d.slot.key /\ e.slot.placeholder = d.slot.placeholder
          /\ Typed(e)
      BY DEF Consistent, Typed, Slots
    <2> HIDE DEF e
    <2>2. Consistent(e)
      BY <2>1, AlikeConsistent
    <2>3. Fading(d, e)
      BY <2>1 DEF Fading
    <2>4. Showing(d, e)
      BY <2>1, <2>3, FadingShowing
    <2> QED BY <2>2, <2>4 DEF e
  <1>3. TurnsPage(d) => Good(NextPage(d, d.slot.key))
    BY NextPageConsistent
  <1>4. ASSUME NEW preserve \in BOOLEAN
        PROVE  Good(EnterNext(ClearSlot(d, preserve)))
    <2> DEFINE r == ClearSlot(d, preserve)
    <2>1. Consistent(r) /\ Fading(d, r) /\ r.slot.key = 0
      BY ClearConsistent
    <2> HIDE DEF r
    <2>2. Good(EnterNext(r))
      BY <2>1, EnterNextConsistent
    <2> QED BY <2>2 DEF r
  <1>6. d.slot.key = 0 => Good(EnterNext(d))
    BY FadingItself, EnterNextConsistent
  <1>7. Good(d)
    BY FadingItself, FadingShowing
  <1>8. Good(EnterNext(ClearSlot(d, FALSE))) /\ Good(EnterNext(ClearSlot(d, TRUE)))
    BY <1>4
  <1> HIDE DEF Good
  <1>9. Good(Rendered(d, aligned))
    BY <1>1, <1>2, <1>3, <1>6, <1>7, <1>8 DEF Rendered
  <1> QED
    BY <1>9 DEF Good

LEMMA ReconfiguredConsistent ==
  ASSUME NEW d, Consistent(d), NEW c \in Configs,
         NEW pages, \A s \in SegIds : pages[s] \in 1..MaxPages
  PROVE  LET r == Reconfigured(d, c, pages) IN Consistent(r) /\ Fading(d, r)
  <1> DEFINE rewrap == c.layout # d.config.layout
             shown == rewrap /\ d.slot.key # 0 /\ ~d.slot.placeholder
             T == [s \in SegIds |-> Rewrapped(d.segs[s], pages[s])]
             S == IF rewrap THEN T ELSE d.segs
             sl == [d.slot EXCEPT !.dirty = @ \/ shown]
             w == IF shown THEN ReplaceChunk(d.window, d.slot.key, d.slot.key) ELSE d.window
             r == Reconfigured(d, c, pages)
  <1>1. /\ Typed(d) /\ d.slot \in Slots /\ d.slot.key \in SegIds \cup {0}
        /\ d.segs \in [SegIds -> PagedSegments]
    BY DEF Consistent, Typed, Slots
  <1>2. /\ S \in [SegIds -> PagedSegments]
        /\ \A s \in SegIds : /\ S[s].display = d.segs[s].display
                             /\ S[s].index = d.segs[s].index
                             /\ S[s].ambiguous = d.segs[s].ambiguous
                             /\ d.segs[s].left > 0 <=> S[s].left > 0
    <2>1. ASSUME NEW s \in SegIds
          PROVE  /\ T[s] \in PagedSegments
                 /\ T[s].display = d.segs[s].display
                 /\ T[s].index = d.segs[s].index
                 /\ T[s].ambiguous = d.segs[s].ambiguous
                 /\ d.segs[s].left > 0 <=> T[s].left > 0
      <3>1. /\ T[s] \in PagedSegments
            /\ T[s].display = d.segs[s].display
            /\ T[s].index = d.segs[s].index
            /\ T[s].ambiguous = d.segs[s].ambiguous
            /\ d.segs[s].left > 0 => T[s].left > 0
        BY <1>1, RewrappedFacts
      <3>2. d.segs[s].left \in Nat
        BY <1>1 DEF PagedSegments, Segments
      <3>3. d.segs[s].left = 0 => T[s] = d.segs[s]
        BY DEF Rewrapped
      <3> HIDE DEF T
      <3> QED BY <3>1, <3>2, <3>3
    <2>2. T \in [SegIds -> PagedSegments]
      BY <2>1
    <2> HIDE DEF T
    <2>3. \A s \in SegIds : /\ T[s].display = d.segs[s].display
                            /\ T[s].index = d.segs[s].index
                            /\ T[s].ambiguous = d.segs[s].ambiguous
                            /\ d.segs[s].left > 0 <=> T[s].left > 0
      BY <2>1
    <2> QED BY <1>1, <2>2, <2>3
  <1>3. sl \in Slots /\ sl.key = d.slot.key /\ sl.placeholder = d.slot.placeholder
    <2>1. (d.slot.dirty \/ shown) \in BOOLEAN
      BY <1>1 DEF Slots
    <2> QED BY <1>1, <2>1 DEF Slots
  <1>4. w \in Seq(SegIds) /\ Len(w) <= MaxChunks
    <2>1. d.window \in Seq(SegIds) /\ Len(d.window) <= MaxChunks
      BY <1>1 DEF Typed
    <2>2. shown => d.slot.key \in SegIds
      BY <1>1
    <2> QED BY <2>1, <2>2, ReplaceChunkType
  <1> HIDE DEF S, sl, w
  <1>5. r = DisplayOf(S, sl, w, c)
    BY DEF Reconfigured, S, sl, w
  <1>6. r.segs = S /\ r.slot = sl
    BY <1>5, DisplayFields
  <1>7. Typed(r)
    BY <1>2, <1>3, <1>4, <1>5, TypedDisplay
  <1> HIDE DEF r
  <1>8. Consistent(r)
    BY <1>2, <1>3, <1>6, <1>7, AlikeConsistent
  <1>9. Fading(d, r)
    BY <1>2, <1>6 DEF Fading
  <1> QED
    BY <1>8, <1>9 DEF r

\* apply_config
LEMMA ApplyConfigConsistent ==
  ASSUME NEW d, Consistent(d), NEW c \in Configs,
         NEW pages, \A s \in SegIds : pages[s] \in 1..MaxPages
  PROVE  LET r == ApplyConfig(d, c, pages) IN Consistent(r) /\ Fading(d, r)
  <1> DEFINE e == Reconfigured(d, c, pages)
  <1>1. Consistent(e) /\ Fading(d, e)
    BY ReconfiguredConsistent
  <1> HIDE DEF e
  <1>2. Consistent(Expire(e)) /\ Fading(d, Expire(e))
    BY <1>1, ExpireConsistent, FadingOn
  <1> QED
    BY <1>2 DEF ApplyConfig, e

\* The clocks one tick later
LEMMA AgedConsistent ==
  ASSUME NEW d, Consistent(d)
  PROVE  LET e == Aged(d) IN
         /\ Consistent(e)
         /\ \A s \in SegIds : e.segs[s].display = d.segs[s].display /\ e.segs[s].left = d.segs[s].left
  <1> DEFINE S == [s \in SegIds |->
                     IF d.segs[s].display = "Waiting"
                     THEN [d.segs[s] EXCEPT !.age = Smaller(@ + 1, StaleAge)] ELSE d.segs[s]]
             sl == IF d.slot.key = 0 THEN d.slot ELSE Older(d.slot)
             e == Aged(d)
  <1>1. d.segs \in [SegIds -> PagedSegments] /\ d.slot \in Slots /\ Typed(d)
    BY DEF Consistent, Typed
  <1>2. ASSUME NEW s \in SegIds
        PROVE  /\ S[s] \in PagedSegments
               /\ S[s].display = d.segs[s].display
               /\ S[s].index = d.segs[s].index /\ S[s].ambiguous = d.segs[s].ambiguous
               /\ S[s].left = d.segs[s].left
    <2>1. d.segs[s] \in Segments /\ PagesFit(d.segs[s])
      BY <1>1 DEF PagedSegments
    <2>2. Smaller(d.segs[s].age + 1, StaleAge) \in 0..StaleAge
      BY <2>1, LimitsAssumption DEF Segments, Smaller
    <2> DEFINE aged == [d.segs[s] EXCEPT !.age = Smaller(@ + 1, StaleAge)]
    <2>3. /\ aged \in Segments
          /\ aged.display = d.segs[s].display
          /\ aged.index = d.segs[s].index /\ aged.ambiguous = d.segs[s].ambiguous
          /\ aged.left = d.segs[s].left
      BY <2>1, <2>2 DEF Segments
    <2> HIDE DEF aged
    <2>4. PagesFit(aged)
      BY <2>1, <2>3 DEF PagesFit
    <2>5. S[s] = IF d.segs[s].display = "Waiting" THEN aged ELSE d.segs[s]
      BY DEF aged
    <2> QED BY <2>1, <2>3, <2>4, <2>5 DEF PagedSegments
  <1>3. S \in [SegIds -> PagedSegments]
    <2>1. \A s \in SegIds : S[s] \in PagedSegments
      BY <1>2
    <2> QED BY <2>1
  <1>4. sl \in Slots /\ sl.key = d.slot.key /\ sl.placeholder = d.slot.placeholder
    <2>1. /\ Smaller(d.slot.page + 1, MinPage) \in 0..MinPage
          /\ Smaller(d.slot.hold + 1, MaxHold) \in 0..MaxHold
          /\ Smaller(d.slot.life + 1, Lifetime) \in 0..Lifetime
      BY <1>1, LimitsAssumption, MaxHoldType DEF Slots, Smaller
    <2> QED BY <1>1, <2>1 DEF Older, Slots
  <1>5. e = [d EXCEPT !.segs = S, !.slot = sl]
    BY DEF Aged
  <1> HIDE DEF S, sl, e
  <1>6. e.segs = S /\ e.slot = sl /\ Typed(e)
    BY <1>1, <1>3, <1>4, <1>5 DEF Typed
  <1>7. Consistent(e)
    BY <1>2, <1>4, <1>6, AlikeConsistent
  <1> QED
    BY <1>2, <1>6, <1>7 DEF e

LEMMA EmptyConsistent ==
  ASSUME NEW c \in Configs
  PROVE  LET d == DisplayOf([s \in SegIds |-> Absent], NoSlot, << >>, c) IN
         Consistent(d) /\ \A s \in SegIds : d.segs[s].display = "Absent"
  <1> DEFINE d == DisplayOf([s \in SegIds |-> Absent], NoSlot, << >>, c)
  <1>1. Consistent(d)
    <2>1. Steady(d, 0)
      BY EmptySteady
    <2> HIDE DEF d
    <2> QED BY <2>1 DEF Steady, Consistent
  <1>2. \A s \in SegIds : d.segs[s].display = "Absent"
    BY DEF DisplayOf, Absent
  <1> QED BY <1>1, <1>2

\* What does not live and is not in the slot can be forgotten.
LEMMA ForgottenConsistent ==
  ASSUME NEW d, Consistent(d), NEW F,
         \A s \in SegIds \cap F : ~Lives(d.segs[s]) /\ s # d.slot.key
  PROVE  LET e == [d EXCEPT !.segs = [s \in SegIds |-> IF s \in F THEN Absent ELSE @[s]]] IN
         /\ Consistent(e) /\ e.slot = d.slot /\ e.config = d.config
         /\ \A s \in SegIds : e.segs[s] = IF s \in F THEN Absent ELSE d.segs[s]
  <1> DEFINE S == [s \in SegIds |-> IF s \in F THEN Absent ELSE d.segs[s]]
             e == [d EXCEPT !.segs = S]
  <1>1. Typed(d) /\ d.segs \in [SegIds -> PagedSegments]
    BY DEF Consistent, Typed
  <1>2. S \in [SegIds -> PagedSegments] /\ \A s \in SegIds : S[s] = IF s \in F THEN Absent ELSE d.segs[s]
    BY <1>1, AbsentType
  <1> HIDE DEF S
  <1>3. e.segs = S /\ e.slot = d.slot /\ e.config = d.config /\ Typed(e)
    BY <1>1, <1>2 DEF Typed
  <1>4. Absent.display = "Absent"
    BY DEF Absent
  <1> HIDE DEF e
  <1>5. OwnsSlot(e)
    <2>1. OwnsSlot(d)
      BY DEF Consistent
    <2>2. \A s \in SegIds : e.segs[s].display = "Visible" <=> d.segs[s].display = "Visible"
      BY <1>2, <1>3, <1>4 DEF Lives
    <2>3. \A s \in SegIds : s = d.slot.key => e.segs[s] = d.segs[s]
      BY <1>2, <1>3
    <2>4. \A s \in SegIds : e.segs[s].display = "Visible" => e.segs[s] = d.segs[s]
      BY <1>2, <1>3, <1>4
    <2> QED BY <1>3, <2>1, <2>2, <2>3, <2>4 DEF OwnsSlot
  <1>6. WaitingUnread(e)
    BY <1>2, <1>3, <1>4 DEF Consistent, WaitingUnread, Waiting, With
  <1>7. Consistent(e)
    BY <1>3, <1>5, <1>6 DEF Consistent
  <1> QED
    BY <1>2, <1>3, <1>7 DEF e, S
=============================================================================
