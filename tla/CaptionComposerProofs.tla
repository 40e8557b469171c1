------------------------ MODULE CaptionComposerProofs ------------------------
(* Proofs about CaptionComposer for every value of its constants: any finite set  *)
(* of ids, any configurations and any limits.                                    *)
EXTENDS CaptionComposer, FiniteSetTheorems, SequenceTheorems, WellFoundedInduction, TLAPS

-----------------------------------------------------------------------------
(* Finite sets of numbers. *)

LEMMA LeastNumber ==
  ASSUME NEW S \in SUBSET Nat, S # {}
  PROVE  \E m \in S : \A n \in S : m <= n
  <1> DEFINE R == OpToRel(<, Nat)
  <1>1. IsWellFoundedOn(R, Nat)
    BY NatLessThanWellFounded
  <1>2. \A m, n \in Nat : << m, n >> \in R <=> m < n
    BY DEF OpToRel
  <1> HIDE DEF R
  <1>3. PICK m \in S : \A n \in S : ~(<< n, m >> \in R)
    BY <1>1, WFMin
  <1>4. ASSUME NEW n \in S PROVE m <= n
    <2>1. n \in Nat /\ m \in Nat
      OBVIOUS
    <2>2. ~(n < m)
      BY <1>2, <1>3, <2>1
    <2> QED
      BY <2>1, <2>2
  <1> QED
    BY <1>4

LEMMA GreatestImage ==
  ASSUME NEW S, IsFiniteSet(S), S # {}, NEW f \in [S -> Nat]
  PROVE  \E m \in S : \A n \in S : f[n] <= f[m]
  <1> DEFINE HasGreatest(T) == \E m \in T : \A n \in T : f[n] <= f[m]
             Bad == {T \in SUBSET S : T # {} /\ ~HasGreatest(T)}
             Sizes == {Cardinality(T) : T \in Bad}
  <1>1. SUFFICES ASSUME Bad # {} PROVE FALSE
    OBVIOUS
  <1>2. Sizes \in SUBSET Nat /\ Sizes # {}
    BY <1>1, FS_Subset, FS_CardinalityType
  <1>3. PICK k \in Sizes : \A j \in Sizes : k <= j
    <2> HIDE DEF Sizes
    <2> QED BY <1>2, LeastNumber
  <1>4. PICK T \in Bad : Cardinality(T) = k
    BY <1>3
  <1>5. PICK x \in T : TRUE
    BY <1>4
  <1>6. IsFiniteSet(T)
    BY <1>4, FS_Subset
  <1>7. /\ IsFiniteSet(T \ {x})
        /\ Cardinality(T \ {x}) = Cardinality(T) - 1
    BY <1>5, <1>6, FS_RemoveElement
  <1>a. Cardinality(T) \in Nat /\ Cardinality(T \ {x}) \in Nat
    BY <1>6, <1>7, FS_CardinalityType
  <1>b. T \ {x} \notin Bad
    <2>1. SUFFICES ASSUME T \ {x} \in Bad PROVE FALSE
      OBVIOUS
    <2>2. Cardinality(T \ {x}) \in Sizes
      BY <2>1
    <2>3. k <= Cardinality(T \ {x})
      BY <1>3, <2>2
    <2> QED
      BY <2>3, <1>4, <1>7, <1>a
  <1>8. CASE T \ {x} = {}
    <2>1. HasGreatest(T)
      BY <1>5, <1>8, <1>4
    <2> QED BY <2>1, <1>4
  <1>9. CASE T \ {x} # {}
    <2>1. PICK m \in T \ {x} : \A n \in T \ {x} : f[n] <= f[m]
      BY <1>b, <1>9, <1>4
    <2>2. f[m] \in Nat /\ f[x] \in Nat /\ \A n \in T : f[n] \in Nat
      BY <1>4, <1>5, <2>1
    <2>3. HasGreatest(T)
      <3>1. CASE f[m] <= f[x]
        <4>1. \A n \in T : f[n] <= f[x]
          BY <2>1, <2>2, <3>1
        <4> QED BY <4>1, <1>5
      <3>2. CASE f[x] <= f[m]
        <4>1. \A n \in T : f[n] <= f[m]
          BY <2>1, <2>2, <3>2
        <4> QED BY <4>1, <2>1
      <3> QED BY <3>1, <3>2, <2>2
    <2> QED BY <2>3, <1>4
  <1> QED
    BY <1>8, <1>9

LEMMA MaxHoldType == MaxHold \in Nat /\ \A c \in Configs : c.hold <= MaxHold
  <1> DEFINE f == [c \in Configs |-> c.hold]
  <1>1. f \in [Configs -> Nat] /\ IsFiniteSet(Configs) /\ Configs # {}
    BY IdsAssumption
  <1>2. PICK m \in Configs : \A n \in Configs : f[n] <= f[m]
    <2> HIDE DEF f
    <2> QED BY <1>1, GreatestImage
  <1>3. m.hold \in Nat /\ \A c \in Configs : c.hold <= m.hold
    BY <1>2, IdsAssumption
  <1>4. \E h \in {c.hold : c \in Configs} : \A c \in Configs : c.hold <= h
    BY <1>3
  <1> QED
    BY <1>4, IdsAssumption DEF MaxHold

-----------------------------------------------------------------------------
(* The inductive invariant, of a display in the middle of a call. *)

\* The pages of a translation are not more than there may be; a text that does not
\* agree with what was read has one.
PagesFit(seg) ==
    IF seg.ambiguous THEN seg.left <= 1 ELSE seg.index + seg.left <= MaxPages

PagedSegments == {seg \in Segments : PagesFit(seg)}

Typed(d) ==
    /\ d \in [segs : [SegIds -> PagedSegments], slot : Slots, window : Seq(SegIds),
              config : Configs]
    /\ Len(d.window) <= MaxChunks

OwnsSlot(d) ==
    /\ \A s \in SegIds : d.segs[s].display = "Visible" <=> d.slot.key = s /\ ~d.slot.placeholder
    /\ d.slot.placeholder => d.slot.key \in SegIds /\ d.segs[d.slot.key].display = "Retired"
    /\ \A s \in SegIds : d.segs[s].display = "Visible" => d.segs[s].left > 0

AnchorsHold(d) ==
    /\ \A s \in Waiting(d) : d.segs[s].anchor # 0 =>
          d.slot.key = d.segs[s].anchor /\ d.slot.placeholder
    /\ d.slot.key # 0 => d.segs[d.slot.key].anchor = 0

WindowHolds(d) ==
    IF d.slot.key = 0 THEN d.window = << >>
    ELSE d.window # << >> /\ d.window[Len(d.window)] = d.slot.key

\* Whatever was registered has an id up to h; what does not live awaits no translation.
LivesAllocated(d, h) ==
    \A s \in SegIds : /\ d.segs[s].display # "Absent" => s <= h
                      /\ ~Lives(d.segs[s]) => d.segs[s].expected = NoJob

\* What waits was not read yet.
WaitingUnread(d) ==
    \A s \in Waiting(d) : d.segs[s].index = 0 /\ ~d.segs[s].ambiguous

Steady(d, h) ==
    /\ Typed(d) /\ OwnsSlot(d) /\ AnchorsHold(d) /\ LivesAllocated(d, h)
    /\ WaitingUnread(d)

LEMMA NoId == 0 \notin SegIds /\ \A s \in SegIds : s \in Nat
  BY IdsAssumption

LEMMA AbsentType == Absent \in PagedSegments
  BY LimitsAssumption DEF Absent, Segments, PagedSegments, PagesFit, Displays, Jobs, NoJob

LEMMA NoSlotType == NoSlot \in Slots
  BY LimitsAssumption, MaxHoldType DEF NoSlot, Slots

LEMMA TombstoneType ==
  ASSUME NEW seg \in PagedSegments
  PROVE  /\ Tombstone(seg) \in PagedSegments
         /\ Tombstone(seg).display = "Retired" /\ Tombstone(seg).anchor = seg.anchor
         /\ Tombstone(seg).expected = NoJob /\ Tombstone(seg).order = seg.order
  <1>1. "Retired" \in Displays /\ NoJob \in Jobs /\ 0 \in 0..MaxPages /\ 0 \in 0..StaleAge
    BY LimitsAssumption DEF Displays, Jobs, NoJob
  <1>2. Tombstone(seg) \in Segments
    BY <1>1 DEF Tombstone, Segments, PagedSegments
  <1>3. /\ Tombstone(seg).left = 0 /\ Tombstone(seg).index = seg.index
        /\ seg.index \in 0..MaxPages
    BY DEF Tombstone, Segments, PagedSegments
  <1>4. PagesFit(Tombstone(seg))
    BY <1>3, LimitsAssumption DEF PagesFit
  <1> QED
    BY <1>1, <1>2, <1>4 DEF Tombstone, Segments, PagedSegments

-----------------------------------------------------------------------------
(* Retirement *)

LEMMA RetiredFacts ==
  ASSUME NEW d, Typed(d), NEW S, NEW reason
  PROVE  LET r == RetireSegments(d, S, reason) IN
         /\ Typed(r)
         /\ \A s \in SegIds : r.segs[s] = IF Lives(d.segs[s]) /\ s \in S
                                          THEN Tombstone(d.segs[s]) ELSE d.segs[s]
         /\ r.window = d.window /\ r.config = d.config /\ r.slot.key = d.slot.key
         /\ r.slot.placeholder <=>
               \/ d.slot.placeholder
               \/ d.slot.key \in S \cap SegIds /\ Lives(d.segs[d.slot.key])
  <1> DEFINE r == RetireSegments(d, S, reason)
             T == [s \in SegIds |->
                     IF Lives(d.segs[s]) /\ s \in S THEN Tombstone(d.segs[s]) ELSE d.segs[s]]
             sl == IF d.slot.key \in S \cap SegIds /\ Lives(d.segs[d.slot.key])
                   THEN [d.slot EXCEPT !.placeholder = TRUE, !.leave = reason \notin Keeps]
                   ELSE d.slot
  <1>1. r = [d EXCEPT !.segs = T, !.slot = sl]
    BY DEF RetireSegments
  <1>2. T \in [SegIds -> PagedSegments]
    BY TombstoneType DEF Typed
  <1>3. /\ sl \in Slots /\ sl.key = d.slot.key
        /\ sl.placeholder <=>
              \/ d.slot.placeholder
              \/ d.slot.key \in S \cap SegIds /\ Lives(d.segs[d.slot.key])
    <2>1. d.slot \in Slots /\ (reason \notin Keeps) \in BOOLEAN
      BY DEF Typed
    <2>2. CASE d.slot.key \in S \cap SegIds /\ Lives(d.segs[d.slot.key])
      BY <2>1, <2>2 DEF Slots
    <2>3. CASE ~(d.slot.key \in S \cap SegIds /\ Lives(d.segs[d.slot.key]))
      <3>1. sl = d.slot
        BY <2>3
      <3> QED BY <2>1, <2>3, <3>1
    <2> QED
      BY <2>2, <2>3
  <1>4. /\ r.segs = T /\ r.slot = sl /\ r.window = d.window /\ r.config = d.config
        /\ r \in [segs : [SegIds -> PagedSegments], slot : Slots, window : Seq(SegIds),
                  config : Configs]
    <2> HIDE DEF r, T, sl
    <2> QED BY <1>1, <1>2, <1>3 DEF Typed
  <1>5. Typed(r)
    BY <1>4 DEF Typed
  <1> HIDE DEF r, sl
  <1> QED
    BY <1>3, <1>4, <1>5 DEF r

LEMMA RetireSteady ==
  ASSUME NEW d, NEW h, Steady(d, h), NEW S, NEW reason
  PROVE  /\ Steady(RetireSegments(d, S, reason), h)
         /\ Live(RetireSegments(d, S, reason)) \subseteq Live(d)
  <1> DEFINE r == RetireSegments(d, S, reason)
  <1>1. /\ Typed(r)
        /\ \A s \in SegIds : r.segs[s] = IF Lives(d.segs[s]) /\ s \in S
                                          THEN Tombstone(d.segs[s]) ELSE d.segs[s]
        /\ r.slot.key = d.slot.key
        /\ r.slot.placeholder <=>
              \/ d.slot.placeholder
              \/ d.slot.key \in S \cap SegIds /\ Lives(d.segs[d.slot.key])
    BY RetiredFacts DEF Steady
  <1> HIDE DEF r
  <1>2. \A s \in SegIds : /\ r.segs[s].anchor = d.segs[s].anchor
                          /\ \/ r.segs[s] = d.segs[s] /\ (s \notin S \/ ~Lives(d.segs[s]))
                             \/ r.segs[s].display = "Retired" /\ s \in S /\ Lives(d.segs[s])
    BY <1>1, TombstoneType DEF Steady, Typed
  <1>3. d.slot.key \in SegIds \cup {0} /\ d.slot.placeholder \in BOOLEAN
    BY DEF Steady, Typed, Slots
  <1>4. OwnsSlot(r)
    <2>1. OwnsSlot(d)
      BY DEF Steady
    <2>2. ASSUME NEW s \in SegIds
          PROVE  r.segs[s].display = "Visible" <=> r.slot.key = s /\ ~r.slot.placeholder
      <3>1. CASE d.slot.key # s
        BY <1>1, <1>2, <2>1, <3>1 DEF OwnsSlot
      <3>2. CASE d.slot.key = s
        <4>1. CASE s \in S /\ Lives(d.segs[s])
          BY <1>1, <1>2, <3>2, <4>1
        <4>2. CASE ~(s \in S /\ Lives(d.segs[s]))
          <5>1. r.segs[s] = d.segs[s] /\ (r.slot.placeholder <=> d.slot.placeholder)
            BY <1>1, <1>2, <3>2, <4>2
          <5> QED BY <1>1, <2>1, <3>2, <5>1 DEF OwnsSlot
        <4> QED BY <4>1, <4>2
      <3> QED BY <3>1, <3>2
    <2>3. r.slot.placeholder => r.slot.key \in SegIds /\ r.segs[r.slot.key].display = "Retired"
      BY <1>1, <1>2, <2>1 DEF OwnsSlot, Lives
    <2>4. \A s \in SegIds : r.segs[s].display = "Visible" => r.segs[s].left > 0
      BY <1>2, <2>1 DEF OwnsSlot
    <2> QED BY <2>2, <2>3, <2>4 DEF OwnsSlot
  <1>5. AnchorsHold(r)
    <2>1. AnchorsHold(d)
      BY DEF Steady
    <2>2. ASSUME NEW s \in SegIds, r.segs[s].display = "Waiting", r.segs[s].anchor # 0
          PROVE  r.slot.key = r.segs[s].anchor /\ r.slot.placeholder
      <3>1. r.segs[s] = d.segs[s]
        BY <1>2, <2>2
      <3>2. d.slot.key = d.segs[s].anchor /\ d.slot.placeholder
        BY <2>1, <2>2, <3>1 DEF AnchorsHold, Waiting, With
      <3> QED BY <1>1, <3>1, <3>2
    <2>3. r.slot.key # 0 => r.segs[r.slot.key].anchor = 0
      BY <1>1, <1>2, <1>3, <2>1 DEF AnchorsHold
    <2> QED BY <2>2, <2>3 DEF AnchorsHold, Waiting, With
  <1>6. LivesAllocated(r, h)
    BY <1>1, TombstoneType DEF Steady, Typed, LivesAllocated, Lives
  <1>7. Live(r) \subseteq Live(d)
    BY <1>2 DEF Live, Lives
  <1>8. WaitingUnread(r)
    BY <1>2 DEF Steady, WaitingUnread, Waiting, With
  <1> QED
    BY <1>1, <1>4, <1>5, <1>6, <1>7, <1>8 DEF Steady, r

LEMMA ClearSteady ==
  ASSUME NEW d, NEW h, Steady(d, h), NEW preserve \in BOOLEAN
  PROVE  LET r == ClearSlot(d, preserve) IN
         /\ Steady(r, h) /\ r.slot.key = 0 /\ r.config = d.config
         /\ Live(r) \subseteq Live(d)
         /\ r.window = IF preserve THEN d.window ELSE << >>
         /\ \A s \in SegIds : r.segs[s] = IF Lives(d.segs[s]) /\ s \in {d.slot.key} \cup Anchored(d)
                                          THEN Tombstone(d.segs[s]) ELSE d.segs[s]
  <1> DEFINE S == {d.slot.key} \cup Anchored(d)
             t == RetireSegments(d, S, "Completed")
             w == IF preserve THEN t.window ELSE << >>
             r == ClearSlot(d, preserve)
  <1>1. /\ Steady(t, h) /\ Typed(t) /\ Live(t) \subseteq Live(d)
        /\ \A s \in SegIds : t.segs[s] = IF Lives(d.segs[s]) /\ s \in S
                                          THEN Tombstone(d.segs[s]) ELSE d.segs[s]
        /\ t.window = d.window /\ t.config = d.config /\ t.slot.key = d.slot.key
    BY RetireSteady, RetiredFacts DEF Steady
  <1>2. r = [t EXCEPT !.slot = NoSlot, !.window = w]
    BY DEF ClearSlot
  <1> HIDE DEF t, r
  <1>3. w \in Seq(SegIds) /\ Len(w) <= MaxChunks
    BY <1>1, LimitsAssumption, EmptySeq DEF Typed
  <1> HIDE DEF w
  <1>4. r.segs = t.segs /\ r.slot = NoSlot /\ r.window = w /\ r.config = t.config /\ Typed(r)
    BY <1>1, <1>2, <1>3, NoSlotType DEF Typed
  <1>5. r.slot.key = 0 /\ ~r.slot.placeholder
    BY <1>4 DEF NoSlot
  <1>6. \A s \in SegIds : r.segs[s].display # "Visible"
    <2> SUFFICES ASSUME NEW s \in SegIds, r.segs[s].display = "Visible" PROVE FALSE
      OBVIOUS
    <2>1. t.segs[s].display = "Visible" /\ t.slot.key = s
      BY <1>1, <1>4 DEF Steady, OwnsSlot
    <2>2. Lives(d.segs[s]) => t.segs[s].display = "Retired"
      BY <1>1, <2>1, TombstoneType DEF Steady, Typed
    <2>3. ~Lives(d.segs[s]) => t.segs[s] = d.segs[s]
      BY <1>1
    <2> QED BY <2>1, <2>2, <2>3 DEF Lives
  <1>7. OwnsSlot(r)
    BY <1>5, <1>6, NoId DEF OwnsSlot
  <1>8. \A s \in SegIds : r.segs[s].display = "Waiting" => r.segs[s].anchor = 0
    <2> SUFFICES ASSUME NEW s \in SegIds, r.segs[s].display = "Waiting", r.segs[s].anchor # 0
                 PROVE FALSE
      OBVIOUS
    <2>1. t.segs[s].display = "Waiting" /\ t.segs[s].anchor = t.slot.key
      BY <1>1, <1>4 DEF Steady, AnchorsHold, Waiting, With
    <2>2. d.segs[s].anchor = t.segs[s].anchor
      BY <1>1, TombstoneType DEF Steady, Typed
    <2>3. s \in S
      BY <1>1, <1>4, <2>1, <2>2 DEF Anchored
    <2>4. Lives(d.segs[s]) => t.segs[s].display = "Retired"
      BY <1>1, <2>3, TombstoneType DEF Steady, Typed
    <2>5. ~Lives(d.segs[s]) => t.segs[s] = d.segs[s]
      BY <1>1
    <2> QED BY <2>1, <2>4, <2>5 DEF Lives
  <1>9. AnchorsHold(r)
    BY <1>5, <1>8 DEF AnchorsHold, Waiting, With
  <1>10. w = IF preserve THEN d.window ELSE << >>
    BY <1>1 DEF w
  <1>b. LivesAllocated(r, h)
    BY <1>1, <1>4 DEF Steady, LivesAllocated
  <1>11. Steady(r, h)
    BY <1>1, <1>4, <1>7, <1>9, <1>b DEF Steady, WaitingUnread, Waiting, With
  <1>c. Live(r) \subseteq Live(d)
    BY <1>1, <1>4 DEF Live
  <1> HIDE DEF S
  <1> QED
    BY <1>1, <1>4, <1>5, <1>10, <1>11, <1>c DEF r, S

LEMMA ExpireSteady ==
  ASSUME NEW d, NEW h, Steady(d, h), WindowHolds(d)
  PROVE  /\ Steady(Expire(d), h) /\ WindowHolds(Expire(d))
         /\ Expire(d).config = d.config
         /\ Live(Expire(d)) \subseteq Live(d)
  <1>1. /\ Steady(Fresh(d), h) /\ WindowHolds(Fresh(d)) /\ Fresh(d).config = d.config
        /\ Live(Fresh(d)) \subseteq Live(d)
    BY RetireSteady, RetiredFacts DEF Fresh, Steady, WindowHolds
  <1>2. LET r == ClearSlot(Fresh(d), FALSE) IN
        Steady(r, h) /\ WindowHolds(r) /\ r.config = d.config /\ Live(r) \subseteq Live(d)
    BY <1>1, ClearSteady DEF WindowHolds
  <1> QED
    BY <1>1, <1>2 DEF Expire

ComposerInv ==
    /\ TypeOK
    /\ Steady(Display, highWater)
    /\ WindowHolds(Display)

LEMMA DisplayFields ==
  ASSUME NEW S, NEW sl, NEW w, NEW c
  PROVE  /\ DisplayOf(S, sl, w, c).segs = S /\ DisplayOf(S, sl, w, c).slot = sl
         /\ DisplayOf(S, sl, w, c).window = w /\ DisplayOf(S, sl, w, c).config = c
  BY DEF DisplayOf

LEMMA TypedDisplay ==
  ASSUME NEW S \in [SegIds -> PagedSegments], NEW sl \in Slots, NEW w \in Seq(SegIds),
         Len(w) <= MaxChunks, NEW c \in Configs
  PROVE  Typed(DisplayOf(S, sl, w, c))
  BY DEF DisplayOf, Typed

LEMMA TraceFacts ==
  ASSUME NEW d, Typed(d), NEW s \in SegIds
  PROVE  /\ Trace(d, s) \in PagedSegments
         /\ Trace(d, s).display = d.segs[s].display
         /\ d.segs[s].display # "Retired" \/ d.slot.key = s => Trace(d, s) = d.segs[s]
         /\ Trace(d, s).expected \in {d.segs[s].expected, NoJob}
         /\ Lives(d.segs[s]) => Trace(d, s) = d.segs[s]
  <1>1. "Retired" \in Displays
    BY DEF Displays
  <1>2. /\ [Absent EXCEPT !.display = "Retired"] \in PagedSegments
        /\ [Absent EXCEPT !.display = "Retired"].display = "Retired"
        /\ [Absent EXCEPT !.display = "Retired"].expected = NoJob
    BY <1>1, AbsentType DEF Absent, Segments, PagedSegments, PagesFit
  <1> QED
    BY <1>2 DEF Trace, Typed, Lives

LEMMA CommitKeeps ==
  ASSUME NEW d, Steady(d, highWater'), WindowHolds(d), Commit(d),
         highWater' \in SegIds \cup {0}, pending' \in Configs \cup {NoConfig}
  PROVE  ComposerInv'
  <1>1. /\ segs' = [s \in SegIds |-> Trace(d, s)]
        /\ slot' = d.slot /\ window' = d.window /\ config' = d.config
    BY DEF Commit, Settled, Steady, Typed
  <1>2. /\ segs' \in [SegIds -> PagedSegments]
        /\ \A s \in SegIds : /\ segs'[s].display = d.segs[s].display
                             /\ d.segs[s].display # "Retired" \/ d.slot.key = s
                                => segs'[s] = d.segs[s]
                             /\ segs'[s].expected \in {d.segs[s].expected, NoJob}
    BY <1>1, TraceFacts DEF Steady
  <1>3. TypeOK'
    BY <1>1, <1>2 DEF Steady, Typed, TypeOK, PagedSegments
  <1>4. /\ Display'.segs = segs' /\ Display'.slot = d.slot
        /\ Display'.window = d.window /\ Display'.config = d.config
    BY <1>1, DisplayFields DEF Display, DisplayOf
  <1>5. Typed(Display')
    BY <1>1, <1>2, TypedDisplay DEF Display, DisplayOf, Steady, Typed
  <1>6. d.slot.key \in SegIds \cup {0}
    BY DEF Steady, Typed, Slots
  <1>7. OwnsSlot(Display')
    BY <1>2, <1>4, <1>6 DEF Steady, OwnsSlot
  <1>8. AnchorsHold(Display')
    BY <1>2, <1>4, <1>6 DEF Steady, AnchorsHold, Waiting, With
  <1>9. LivesAllocated(Display', highWater')
    BY <1>2, <1>4 DEF Steady, LivesAllocated, Lives
  <1>10. WindowHolds(Display')
    BY <1>4 DEF WindowHolds
  <1>11. WaitingUnread(Display')
    BY <1>2, <1>4 DEF Steady, WaitingUnread, Waiting, With
  <1> QED
    BY <1>3, <1>5, <1>7, <1>8, <1>9, <1>10, <1>11
       DEF ComposerInv, Steady, Display, Typed, OwnsSlot, AnchorsHold, LivesAllocated,
           WaitingUnread, WindowHolds, Waiting, With

LEMMA NowKeeps ==
  ASSUME ComposerInv
  PROVE  /\ Steady(Now, highWater) /\ WindowHolds(Now) /\ Now.config = config
         /\ \A s \in Live(Display) : Now.segs[s].anchor = Now.slot.key /\ Now.slot.key # 0 =>
               Now.slot.placeholder
         /\ Live(Now) \subseteq Live(Display)
  <1> DEFINE f == Fresh(Display)
  <1>1. Steady(Now, highWater) /\ WindowHolds(Now) /\ Now.config = config
    BY ExpireSteady DEF ComposerInv, Now, Display, DisplayOf
  <1>2. /\ Steady(f, highWater)
        /\ \A s \in SegIds : f.segs[s] = IF Lives(segs[s]) /\ s \in Stale(Display)
                                          THEN Tombstone(segs[s]) ELSE segs[s]
        /\ f.slot.key = slot.key
        /\ f.slot.placeholder <=> (slot.placeholder \/ (slot.key \in Stale(Display) \cap SegIds
                                                          /\ Lives(segs[slot.key])))
    BY RetireSteady, RetiredFacts DEF Fresh, ComposerInv, Steady, Display, DisplayOf
  <1>3. \A s \in SegIds : f.segs[s].anchor = segs[s].anchor /\ (Lives(f.segs[s]) => Lives(segs[s]))
    BY <1>2, TombstoneType DEF ComposerInv, Steady, Typed, Display, DisplayOf, Lives
  <1>4. ASSUME NEW s \in Live(Display), segs[s].anchor = slot.key, slot.key # 0
        PROVE  slot.placeholder
    BY <1>4 DEF ComposerInv, Steady, OwnsSlot, AnchorsHold, Live, Lives, Waiting, With,
                Display, DisplayOf
  <1>5. Now = f \/ (Now.slot.key = 0 /\ Now = ClearSlot(f, FALSE))
    BY <1>2, ClearSteady DEF Now, Expire
  <1> HIDE DEF f
  <1>6. ASSUME NEW s \in Live(Display), Now.segs[s].anchor = Now.slot.key, Now.slot.key # 0
        PROVE  Now.slot.placeholder
    BY <1>2, <1>3, <1>4, <1>5, <1>6 DEF Live, Display, DisplayOf
  <1>7. Live(Now) \subseteq Live(Display)
    BY ExpireSteady DEF ComposerInv, Now
  <1> QED
    BY <1>1, <1>6, <1>7

-----------------------------------------------------------------------------
(* The first of a set of segments. *)

LEMMA FirstIs ==
  ASSUME NEW d, Typed(d), NEW S \in SUBSET SegIds, NEW s \in S,
         \A t \in S \ {s} : Precedes(d, s, t)
  PROVE  FirstOf(d, S) = s
  <1>1. \A t \in S : (\A u \in S \ {t} : Precedes(d, t, u)) => t = s
    <2> SUFFICES ASSUME NEW t \in S, \A u \in S \ {t} : Precedes(d, t, u), t # s PROVE FALSE
      OBVIOUS
    <2>1. Precedes(d, s, t) /\ Precedes(d, t, s)
      OBVIOUS
    <2>2. d.segs[s].order \in Nat /\ d.segs[t].order \in Nat /\ s \in Nat /\ t \in Nat
      BY NoId DEF Typed, Segments, PagedSegments, PagesFit
    <2> QED
      BY <2>1, <2>2 DEF Precedes
  <1>2. \E t \in S : \A u \in S \ {t} : Precedes(d, t, u)
    OBVIOUS
  <1>3. S # {}
    OBVIOUS
  <1> QED
    BY <1>1, <1>2, <1>3 DEF FirstOf

LEMMA FirstExists ==
  ASSUME NEW d, Typed(d), NEW S \in SUBSET SegIds, S # {}
  PROVE  /\ FirstOf(d, S) \in S
         /\ \A t \in S \ {FirstOf(d, S)} : Precedes(d, FirstOf(d, S), t)
  <1> DEFINE Places == {d.segs[s].order : s \in S}
  <1>1. Places \in SUBSET Nat /\ Places # {}
    BY DEF Typed, Segments, PagedSegments, PagesFit
  <1>2. PICK p \in Places : \A q \in Places : p <= q
    <2> HIDE DEF Places
    <2> QED BY <1>1, LeastNumber
  <1> DEFINE There == {s \in S : d.segs[s].order = p}
  <1>3. There \in SUBSET Nat /\ There # {}
    BY <1>2, NoId
  <1>4. PICK s \in There : \A t \in There : s <= t
    <2> HIDE DEF There
    <2> QED BY <1>3, LeastNumber
  <1>5. ASSUME NEW t \in S \ {s} PROVE Precedes(d, s, t)
    <2>1. d.segs[s].order = p /\ d.segs[t].order \in Places
      BY <1>4
    <2>2. p <= d.segs[t].order
      BY <1>2, <2>1
    <2>3. p \in Nat /\ d.segs[t].order \in Nat /\ s \in Nat /\ t \in Nat
      BY <1>1, <1>4, NoId DEF Typed, Segments, PagedSegments, PagesFit
    <2>4. d.segs[t].order = p => s <= t
      BY <1>4
    <2> QED
      BY <2>1, <2>2, <2>3, <2>4 DEF Precedes
  <1>6. FirstOf(d, S) = s
    BY <1>4, <1>5, FirstIs
  <1> QED
    BY <1>4, <1>5, <1>6

-----------------------------------------------------------------------------
(* The window, and what enters it. *)

LEMMA AppendFacts ==
  ASSUME NEW w \in Seq(SegIds), Len(w) <= MaxChunks, NEW s \in SegIds
  PROVE  LET r == Trim(Append(w, s)) IN
         r \in Seq(SegIds) /\ Len(r) <= MaxChunks /\ r # << >> /\ r[Len(r)] = s
  <1> DEFINE a == Append(w, s)
  <1>1. a \in Seq(SegIds) /\ Len(a) = Len(w) + 1 /\ a[Len(a)] = s /\ Len(w) \in Nat
    BY LenProperties, AppendProperties
  <1>2. CASE Len(a) > MaxChunks
    <2>1. Trim(a) = Tail(a) /\ a # << >> /\ Len(a) > 1
      BY <1>1, <1>2, LimitsAssumption DEF Trim
    <2> HIDE DEF a
    <2>2. /\ Tail(a) \in Seq(SegIds) /\ Len(Tail(a)) = Len(a) - 1
          /\ \A i \in 1..Len(Tail(a)) : Tail(a)[i] = a[i + 1]
      BY <1>1, <2>1, HeadTailProperties
    <2>3. Len(Tail(a)) \in 1..Len(Tail(a)) /\ Tail(a)[Len(Tail(a))] = a[Len(a)]
      BY <1>1, <2>1, <2>2
    <2>4. Tail(a) # << >>
      <3>1. Len(Tail(a)) # 0
        BY <1>1, <2>1, <2>2
      <3> QED BY <3>1, EmptySeq
    <2> QED
      BY <1>1, <2>1, <2>2, <2>3, <2>4, LimitsAssumption DEF a
  <1>3. CASE ~(Len(a) > MaxChunks)
    BY <1>1, <1>3, LimitsAssumption, EmptySeq DEF Trim
  <1> QED
    BY <1>2, <1>3

LEMMA ReplaceFacts ==
  ASSUME NEW w \in Seq(SegIds), Len(w) <= MaxChunks, w # << >>, NEW s \in SegIds
  PROVE  LET r == ReplaceChunk(w, w[Len(w)], s) IN
         r \in Seq(SegIds) /\ Len(r) <= MaxChunks /\ r # << >> /\ r[Len(r)] = s
  <1> DEFINE at == {i \in DOMAIN w : w[i] = w[Len(w)]}
             r == [w EXCEPT ![Len(w)] = s]
  <1>1. Len(w) \in 1..Len(w) /\ DOMAIN w = 1..Len(w) /\ Len(w) \in Nat
    BY LenProperties, EmptySeq
  <1>2. Len(w) \in at /\ \A i \in at : i <= Len(w) /\ i \in Nat
    BY <1>1
  <1>3. (CHOOSE i \in at : \A j \in at : j <= i) = Len(w)
    <2> HIDE DEF at
    <2>1. \A i \in at : (\A j \in at : j <= i) => i = Len(w)
      BY <1>1, <1>2
    <2> QED
      BY <1>2, <2>1
  <1>4. /\ r \in Seq(SegIds) /\ Len(r) = Len(w) /\ r[Len(r)] = s
    BY <1>1, ExceptSeq
  <1>5. ReplaceChunk(w, w[Len(w)], s) = Trim(r)
    BY <1>2, <1>3 DEF ReplaceChunk
  <1>6. Trim(r) = r
    BY <1>1, <1>4, LimitsAssumption DEF Trim
  <1> HIDE DEF r
  <1> QED
    BY <1>1, <1>4, <1>5, <1>6, EmptySeq

LEMMA RealignedFacts ==
  ASSUME NEW seg \in PagedSegments, NEW index \in 0..MaxPages, NEW pages \in 1..MaxPages,
         NEW aligned,
         aligned => ~seg.ambiguous
  PROVE  LET r == Realigned(seg, index, pages, aligned) IN
         /\ r \in PagedSegments /\ r.left > 0
         /\ r.display = seg.display /\ r.anchor = seg.anchor /\ r.expected = seg.expected
  <1>1. CASE aligned /\ (index = 0 \/ pages > index)
    <2> DEFINE r == [seg EXCEPT !.left = pages - index, !.index = index]
    <2>1. pages - index \in 0..MaxPages /\ pages - index > 0 /\ index + (pages - index) <= MaxPages
      BY <1>1, LimitsAssumption
    <2>2. Realigned(seg, index, pages, aligned) = r
      BY <1>1 DEF Realigned
    <2>3. /\ r \in Segments /\ r.left = pages - index /\ r.index = index
          /\ r.display = seg.display /\ r.anchor = seg.anchor /\ r.expected = seg.expected
          /\ r.ambiguous = seg.ambiguous
      BY <2>1 DEF Segments, PagedSegments
    <2> HIDE DEF r
    <2>4. PagesFit(r)
      BY <1>1, <2>1, <2>3 DEF PagesFit
    <2> QED BY <2>1, <2>2, <2>3, <2>4 DEF PagedSegments
  <1>2. CASE ~(aligned /\ (index = 0 \/ pages > index))
    <2> DEFINE r == [seg EXCEPT !.left = 1, !.index = index, !.ambiguous = TRUE]
    <2>1. 1 \in 0..MaxPages
      BY LimitsAssumption
    <2>2. Realigned(seg, index, pages, aligned) = r
      BY <1>2 DEF Realigned
    <2>3. /\ r \in Segments /\ r.left = 1 /\ r.ambiguous
          /\ r.display = seg.display /\ r.anchor = seg.anchor /\ r.expected = seg.expected
      BY <2>1 DEF Segments, PagedSegments
    <2> HIDE DEF r
    <2>4. PagesFit(r)
      BY <2>3 DEF PagesFit
    <2> QED BY <2>2, <2>3, <2>4 DEF PagedSegments
  <1> QED BY <1>1, <1>2

LEMMA OwnerType ==
  ASSUME NEW d, Typed(d), NEW s \in SegIds, NEW final \in BOOLEAN, NEW life \in 0..Lifetime
  PROVE  /\ Owner(d, s, final, life) \in Slots
         /\ Owner(d, s, final, life).key = s /\ ~Owner(d, s, final, life).placeholder
  <1>1. d.segs[s].final \in BOOLEAN
    BY DEF Typed, Segments, PagedSegments, PagesFit
  <1>2. (d.segs[s].final \/ final) \in BOOLEAN
    BY <1>1
  <1> QED
    BY <1>2, NoSlotType DEF Owner, NoSlot, Slots

LEMMA EnterSteady ==
  ASSUME NEW d, NEW h, Steady(d, h), NEW s \in SegIds, d.segs[s].left > 0, d.segs[s].anchor = 0,
         \/ d.slot.key = 0 /\ d.segs[s].display = "Waiting"
         \/ d.slot.key = s /\ d.segs[s].display = "Visible"
  PROVE  /\ Steady(Enter(d, s), h) /\ WindowHolds(Enter(d, s))
         /\ Enter(d, s).config = d.config
  <1> DEFINE life == IF d.slot.key = s THEN d.slot.life ELSE 0
             sl == Owner(d, s, FALSE, life)
             S == [d.segs EXCEPT ![s].display = "Visible", ![s].age = 0]
             w == Trim(Append(d.window, s))
             e == Enter(d, s)
  <1>0. Typed(d) /\ d.segs \in [SegIds -> PagedSegments] /\ d.slot \in Slots
    BY DEF Steady, Typed
  <1>1. sl \in Slots /\ sl.key = s /\ ~sl.placeholder
    <2>1. life \in 0..Lifetime
      BY <1>0, LimitsAssumption DEF Slots
    <2> HIDE DEF life
    <2> QED BY <1>0, <2>1, OwnerType
  <1>2. /\ S \in [SegIds -> PagedSegments]
        /\ S[s].display = "Visible" /\ S[s].left = d.segs[s].left /\ S[s].anchor = 0
        /\ S[s].expected = d.segs[s].expected
        /\ \A t \in SegIds \ {s} : S[t] = d.segs[t]
    <2>1. "Visible" \in Displays /\ 0 \in 0..StaleAge
      BY LimitsAssumption DEF Displays
    <2> QED BY <1>0, <2>1 DEF Segments, PagedSegments, PagesFit
  <1>3. w \in Seq(SegIds) /\ Len(w) <= MaxChunks /\ w # << >> /\ w[Len(w)] = s
    BY AppendFacts DEF Steady, Typed
  <1> HIDE DEF S, sl, w
  <1>4. e = DisplayOf(S, sl, w, d.config)
    BY DEF Enter, S, sl, w
  <1>5. e.segs = S /\ e.slot = sl /\ e.window = w /\ e.config = d.config
    BY <1>4, DisplayFields
  <1>6. Typed(e)
    BY <1>1, <1>2, <1>3, <1>4, TypedDisplay DEF Steady, Typed
  <1> HIDE DEF e
  <1>7. OwnsSlot(e)
    <2>1. \A t \in SegIds \ {s} : d.segs[t].display # "Visible"
      BY NoId DEF Steady, OwnsSlot
    <2> QED BY <1>1, <1>2, <1>5, <2>1 DEF OwnsSlot
  <1>8. AnchorsHold(e)
    <2>1. \A t \in SegIds : d.segs[t].display = "Waiting" => d.segs[t].anchor = 0
      BY NoId DEF Steady, OwnsSlot, AnchorsHold, Waiting, With
    <2> QED BY <1>1, <1>2, <1>5, <2>1 DEF AnchorsHold, Waiting, With
  <1>9. LivesAllocated(e, h)
    BY <1>2, <1>5 DEF Steady, LivesAllocated, Lives
  <1>10. WindowHolds(e)
    BY <1>1, <1>3, <1>5, NoId DEF WindowHolds
  <1>11. WaitingUnread(e)
    BY <1>2, <1>5 DEF Steady, WaitingUnread, Waiting, With
  <1> QED
    BY <1>5, <1>6, <1>7, <1>8, <1>9, <1>10, <1>11 DEF Steady, e

LEMMA EnterNextSteady ==
  ASSUME NEW d, NEW h, Steady(d, h), d.slot.key = 0, WindowHolds(d) \/ Ready(d, NextWaiting(d))
  PROVE  Steady(EnterNext(d), h) /\ WindowHolds(EnterNext(d))
  <1> DEFINE s == NextWaiting(d)
  <1>1. CASE Ready(d, s)
    <2>1. s # 0 /\ d.segs[s].left > 0
      BY <1>1 DEF Ready
    <2>2. Waiting(d) \in SUBSET SegIds
      BY DEF Waiting, With
    <2>3. s \in Waiting(d)
      BY <2>1, <2>2, FirstExists DEF NextWaiting, FirstOf, Steady
    <2> HIDE DEF s
    <2>4. s \in SegIds /\ d.segs[s].display = "Waiting"
      BY <2>3 DEF Waiting, With
    <2>5. d.segs[s].anchor = 0
      BY <2>3 DEF Steady, AnchorsHold
    <2> QED
      BY <1>1, <2>1, <2>4, <2>5, EnterSteady DEF EnterNext, s
  <1>2. CASE ~Ready(d, s)
    BY <1>2 DEF EnterNext
  <1> QED
    BY <1>1, <1>2

LEMMA InheritSteady ==
  ASSUME NEW d, NEW h, Steady(d, h), WindowHolds(d), ReplacementReady(d), NEW aligned
  PROVE  LET e == Inherit(d, ReplacementHead(d), aligned) IN Steady(e, h) /\ WindowHolds(e)
  <1> DEFINE s == ReplacementHead(d)
             k == d.slot.key
             old == d.segs[k]
             new == IF old.index = 0 THEN d.segs[s]
                    ELSE Realigned(d.segs[s], old.index, d.segs[s].left, ~old.ambiguous /\ aligned)
             owner == [new EXCEPT !.display = "Visible", !.age = 0]
             S == [d.segs EXCEPT ![s] = owner]
             U == Unanchored(S, k)
             sl == Owner(d, s, d.slot.final, 0)
             w == ReplaceChunk(d.window, k, s)
             e == Inherit(d, s, aligned)
  <1>0. Typed(d) /\ d.segs \in [SegIds -> PagedSegments] /\ d.slot \in Slots /\ d.config \in Configs
    BY DEF Steady, Typed
  <1>1. d.slot.placeholder /\ s # 0 /\ d.segs[s].left > 0
    BY DEF ReplacementReady, Ready
  <1>2. k \in SegIds /\ d.segs[k].display = "Retired" /\ d.segs[k].anchor = 0
    BY <1>1, NoId DEF Steady, OwnsSlot, AnchorsHold
  <1>3. s \in Waiting(d) \cap Anchored(d)
    <2>1. Waiting(d) \cap Anchored(d) \in SUBSET SegIds
      BY DEF Waiting, With
    <2> QED
      BY <1>0, <1>1, <2>1, FirstExists DEF ReplacementHead, FirstOf
  <1> HIDE DEF s
  <1>4. s \in SegIds /\ d.segs[s].display = "Waiting" /\ d.segs[s] \in PagedSegments /\ s # k
    BY <1>0, <1>2, <1>3 DEF Waiting, With
  <1>5. /\ new \in PagedSegments /\ new.left > 0 /\ new.expected = d.segs[s].expected
        /\ new.anchor = d.segs[s].anchor
    <2>1. old.index \in 0..MaxPages /\ d.segs[s].left \in 1..MaxPages
      BY <1>0, <1>1, <1>2, <1>4 DEF Segments, PagedSegments, PagesFit
    <2>2. ~d.segs[s].ambiguous
      BY <1>3 DEF Steady, WaitingUnread
    <2> HIDE DEF old
    <2>3. CASE old.index = 0
      BY <1>1, <1>4, <2>3
    <2>4. CASE old.index # 0
      <3> DEFINE agrees == ~old.ambiguous /\ aligned
      <3>1. agrees => ~d.segs[s].ambiguous
        BY <2>2
      <3>2. new = Realigned(d.segs[s], old.index, d.segs[s].left, agrees)
        BY <2>4
      <3> HIDE DEF new, agrees
      <3> QED BY <1>4, <2>1, <3>1, <3>2, RealignedFacts
    <2> QED
      BY <2>3, <2>4
  <1> HIDE DEF new
  <1>6. /\ owner \in PagedSegments /\ owner.display = "Visible" /\ owner.left > 0
        /\ owner.expected = d.segs[s].expected
    <2>1. "Visible" \in Displays /\ 0 \in 0..StaleAge
      BY LimitsAssumption DEF Displays
    <2> QED BY <1>5, <2>1 DEF Segments, PagedSegments, PagesFit
  <1> HIDE DEF owner
  <1>7. S \in [SegIds -> PagedSegments] /\ S[s] = owner /\ \A t \in SegIds \ {s} : S[t] = d.segs[t]
    BY <1>0, <1>4, <1>6
  <1> HIDE DEF S
  <1>8. /\ U \in [SegIds -> PagedSegments]
        /\ \A t \in SegIds : /\ U[t].display = S[t].display /\ U[t].left = S[t].left
                             /\ U[t].expected = S[t].expected
                             /\ U[t].index = S[t].index /\ U[t].ambiguous = S[t].ambiguous
                             /\ U[t].anchor = IF S[t].anchor = k THEN 0 ELSE S[t].anchor
    BY <1>7 DEF Unanchored, Segments, PagedSegments, PagesFit
  <1>9. sl \in Slots /\ sl.key = s /\ ~sl.placeholder
    <2>1. d.slot.final \in BOOLEAN /\ 0 \in 0..Lifetime
      BY <1>0, LimitsAssumption DEF Slots
    <2> QED BY <1>0, <1>4, <2>1, OwnerType
  <1>10. w \in Seq(SegIds) /\ Len(w) <= MaxChunks /\ w # << >> /\ w[Len(w)] = s
    <2>1. d.window \in Seq(SegIds) /\ Len(d.window) <= MaxChunks
      BY <1>0 DEF Typed
    <2>2. d.window # << >> /\ d.window[Len(d.window)] = k
      BY <1>2, NoId DEF WindowHolds
    <2> HIDE DEF k
    <2> QED BY <1>4, <2>1, <2>2, ReplaceFacts
  <1> HIDE DEF U, sl, w
  <1>11. e = DisplayOf(U, sl, w, d.config)
    BY DEF Inherit, U, S, owner, new, sl, w
  <1>12. e.segs = U /\ e.slot = sl /\ e.window = w
    BY <1>11, DisplayFields
  <1>13. Typed(e)
    BY <1>0, <1>8, <1>9, <1>10, <1>11, TypedDisplay
  <1> HIDE DEF e
  <1>14. OwnsSlot(e)
    <2>1. \A t \in SegIds : d.segs[t].display # "Visible"
      BY <1>1 DEF Steady, OwnsSlot
    <2> QED BY <1>4, <1>6, <1>7, <1>8, <1>9, <1>12, <2>1 DEF OwnsSlot
  <1>15. AnchorsHold(e)
    <2>1. \A t \in SegIds : d.segs[t].display = "Waiting" => d.segs[t].anchor \in {0, k}
      BY DEF Steady, AnchorsHold, Waiting, With
    <2>2. \A t \in SegIds : U[t].display = "Waiting" => U[t].anchor = 0
      BY <1>6, <1>7, <1>8, <2>1
    <2>3. owner.anchor = k
      BY <1>3, <1>5 DEF owner, Anchored, Segments, PagedSegments, PagesFit
    <2>4. U[s].anchor = 0
      BY <1>4, <1>7, <1>8, <2>3
    <2> QED BY <1>9, <1>12, <2>2, <2>4 DEF AnchorsHold, Waiting, With
  <1>16. LivesAllocated(e, h)
    <2>1. \A t \in SegIds : /\ d.segs[t].display # "Absent" => t <= h
                            /\ ~Lives(d.segs[t]) => d.segs[t].expected = NoJob
      BY DEF Steady, LivesAllocated
    <2>2. \A t \in SegIds \ {s} : /\ U[t].display = d.segs[t].display
                                  /\ U[t].expected = d.segs[t].expected
      BY <1>7, <1>8
    <2>3. U[s].display = "Visible" /\ s <= h
      BY <1>4, <1>6, <1>7, <1>8, <2>1
    <2> QED
      BY <1>12, <2>1, <2>2, <2>3 DEF LivesAllocated, Lives
  <1>17. WindowHolds(e)
    BY <1>4, <1>9, <1>10, <1>12, NoId DEF WindowHolds
  <1>18. WaitingUnread(e)
    BY <1>6, <1>7, <1>8, <1>12 DEF Steady, WaitingUnread, Waiting, With
  <1> QED
    BY <1>13, <1>14, <1>15, <1>16, <1>17, <1>18 DEF Steady, e, s

-----------------------------------------------------------------------------
(* Registration *)

LEMMA ConfirmedSteady ==
  ASSUME NEW d, NEW h, Steady(d, h)
  PROVE  LET c == Confirmed(d) IN
         /\ Steady(c, h)
         /\ WindowHolds(d) => WindowHolds(c)
         /\ c.segs = d.segs /\ c.slot.key = d.slot.key /\ c.slot.placeholder = d.slot.placeholder
         /\ c.window = d.window
  <1> DEFINE c == Confirmed(d)
  <1>0. Typed(d) /\ d.slot \in Slots /\ 0 \in 0..MaxHold
    BY MaxHoldType DEF Steady, Typed
  <1>1. /\ c.segs = d.segs /\ c.window = d.window /\ c.config = d.config
        /\ c.slot.key = d.slot.key /\ c.slot.placeholder = d.slot.placeholder
        /\ c.slot \in Slots /\ Typed(c)
    BY <1>0 DEF Confirmed, Typed, Slots
  <1> HIDE DEF c
  <1>2. Steady(c, h) /\ (WindowHolds(d) => WindowHolds(c))
    BY <1>1
       DEF Steady, OwnsSlot, AnchorsHold, LivesAllocated, WaitingUnread, WindowHolds, Waiting, With
  <1> QED
    BY <1>1, <1>2 DEF c

LEMMA UpdateSteady ==
  ASSUME NEW d, NEW h, Steady(d, h), WindowHolds(d), NEW updated \in SUBSET Live(d),
         NEW revs, \A s \in updated : revs[s] \in 0..MaxRevision, NEW final \in BOOLEAN
  PROVE  LET u == Update(d, updated, revs, final) IN
         /\ Steady(u, h) /\ WindowHolds(u)
         /\ u.slot.key = d.slot.key /\ u.slot.placeholder = d.slot.placeholder
         /\ \A s \in SegIds : u.segs[s].anchor = d.segs[s].anchor
                              /\ u.segs[s].display = d.segs[s].display
  <1> DEFINE confirmed == /\ final /\ d.slot.key \in updated /\ ~d.slot.placeholder
                          /\ ~d.segs[d.slot.key].final
             e == IF confirmed THEN Confirmed(d) ELSE d
             seg(s) == [Finalized(e.segs[s], final) EXCEPT !.order = Order(s)]
             S == [s \in SegIds |->
                     IF s \notin updated THEN e.segs[s]
                     ELSE IF revs[s] > seg(s).expected.rev THEN Revised(seg(s), revs[s])
                     ELSE seg(s)]
             u == Update(d, updated, revs, final)
  <1>1. /\ Steady(e, h) /\ WindowHolds(e) /\ Typed(e)
        /\ e.segs = d.segs /\ e.slot.key = d.slot.key /\ e.slot.placeholder = d.slot.placeholder
    BY ConfirmedSteady DEF Steady
  <1>2. u = [e EXCEPT !.segs = S]
    BY DEF Update
  <1> HIDE DEF e
  <1>3. ASSUME NEW s \in SegIds
        PROVE  /\ S[s] \in PagedSegments
               /\ S[s].display = d.segs[s].display /\ S[s].anchor = d.segs[s].anchor
               /\ S[s].left = d.segs[s].left /\ S[s].index = d.segs[s].index
               /\ S[s].ambiguous = d.segs[s].ambiguous
               /\ s \notin updated => S[s] = d.segs[s]
    <2>1. CASE s \notin updated
      BY <1>1, <2>1 DEF Typed
    <2>2. CASE s \in updated
      <3>1. FirstJob(revs[s]) \in Jobs
        BY <2>2 DEF FirstJob, Jobs
      <3>2. d.segs[s] \in PagedSegments /\ Order(s) \in Nat
        BY <1>1, IdsAssumption DEF Typed
      <3>3. /\ seg(s) \in PagedSegments /\ seg(s).display = d.segs[s].display
            /\ seg(s).anchor = d.segs[s].anchor /\ seg(s).left = d.segs[s].left
            /\ seg(s).index = d.segs[s].index /\ seg(s).ambiguous = d.segs[s].ambiguous
        BY <1>1, <3>2 DEF Finalized, Segments, PagedSegments, PagesFit
      <3> HIDE DEF seg
      <3>4. /\ Revised(seg(s), revs[s]) \in PagedSegments
            /\ Revised(seg(s), revs[s]).display = d.segs[s].display
            /\ Revised(seg(s), revs[s]).anchor = d.segs[s].anchor
            /\ Revised(seg(s), revs[s]).left = d.segs[s].left
            /\ Revised(seg(s), revs[s]).index = d.segs[s].index
            /\ Revised(seg(s), revs[s]).ambiguous = d.segs[s].ambiguous
        BY <3>1, <3>3 DEF Revised, Segments, PagedSegments, PagesFit
      <3> QED BY <2>2, <3>3, <3>4
    <2> QED BY <2>1, <2>2
  <1>4. S \in [SegIds -> PagedSegments]
    <2>1. \A s \in SegIds : S[s] \in PagedSegments
      BY <1>3
    <2> QED BY <2>1
  <1> HIDE DEF S
  <1>5. u.segs = S /\ u.slot = e.slot /\ u.window = e.window /\ Typed(u)
    BY <1>1, <1>2, <1>4 DEF Typed
  <1> HIDE DEF u
  <1>6. OwnsSlot(u) /\ AnchorsHold(u) /\ WindowHolds(u)
    <2>1. e.slot.key \in SegIds \cup {0}
      BY <1>1 DEF Typed, Slots
    <2> QED
      BY <1>1, <1>3, <1>5, <2>1
         DEF Steady, OwnsSlot, AnchorsHold, WindowHolds, Waiting, With
  <1>7. LivesAllocated(u, h)
    BY <1>1, <1>3, <1>5 DEF Steady, LivesAllocated, Live, Lives
  <1>8. WaitingUnread(u)
    BY <1>1, <1>3, <1>5 DEF Steady, WaitingUnread, Waiting, With
  <1> QED
    BY <1>1, <1>3, <1>5, <1>6, <1>7, <1>8 DEF Steady, u

LEMMA AllocatedLater ==
  ASSUME NEW d, NEW h \in Nat, NEW g \in Nat, Steady(d, h), h <= g
  PROVE  Steady(d, g)
  BY NoId DEF Steady, LivesAllocated

LEMMA NewSegmentType ==
  ASSUME NEW d, Typed(d), NEW s \in SegIds, NEW rev \in 0..MaxRevision, NEW fresh \in SUBSET SegIds,
         NEW olds \in [SegIds -> SUBSET SegIds], NEW final \in BOOLEAN
  PROVE  LET n == NewSegment(d, s, rev, fresh, olds, final) IN
         /\ n \in PagedSegments /\ n.display = "Waiting" /\ n.anchor = AnchorFor(d, olds[s])
         /\ n.index = 0 /\ ~n.ambiguous
  <1>1. "Waiting" \in Displays /\ FirstJob(rev) \in Jobs
    BY DEF Displays, FirstJob, Jobs
  <1>2. OrderFor(d, s, fresh, olds) \in Nat
    <2> DEFINE first == {o \in olds[s] : \A t \in fresh : o \in olds[t] => Order(s) <= Order(t)}
               places == {d.segs[o].order : o \in first \ With(d, "Absent")} \cup {Order(s)}
    <2>1. places \in SUBSET Nat /\ places # {}
      BY IdsAssumption DEF Typed, Segments, PagedSegments, PagesFit
    <2>2. \E p \in places : \A q \in places : p <= q
      <3> HIDE DEF places
      <3> QED BY <2>1, LeastNumber
    <2>3. OrderFor(d, s, fresh, olds) \in places
      <3>1. OrderFor(d, s, fresh, olds) = CHOOSE p \in places : \A q \in places : p <= q
        BY DEF OrderFor
      <3> HIDE DEF places
      <3> QED BY <2>2, <3>1
    <2> HIDE DEF places
    <2> QED BY <2>1, <2>3
  <1>3. AnchorFor(d, olds[s]) \in SegIds \cup {0}
    <2> DEFINE anchors == {d.segs[o].anchor : o \in olds[s]} \ {0}
    <2>1. anchors \subseteq SegIds /\ d.slot.key \in SegIds \cup {0}
      BY DEF Typed, Segments, PagedSegments, PagesFit, Slots
    <2>2. AnchorFor(d, olds[s])
          = IF d.slot.key \in olds[s] THEN d.slot.key
            ELSE IF anchors = {} THEN 0 ELSE CHOOSE a \in anchors : TRUE
      BY DEF AnchorFor
    <2> HIDE DEF anchors
    <2>3. anchors # {} => (CHOOSE a \in anchors : TRUE) \in anchors
      OBVIOUS
    <2> QED BY <2>1, <2>2, <2>3
  <1> QED
    BY <1>1, <1>2, <1>3, AbsentType DEF NewSegment, Segments, PagedSegments, PagesFit, Absent

LEMMA AnchorForFacts ==
  ASSUME NEW d, NEW h, Steady(d, h), NEW olds \in SUBSET SegIds,
         \A o \in olds : Replaceable(d, o),
         \A o \in olds : d.segs[o].anchor = d.slot.key /\ d.slot.key # 0 => d.slot.placeholder,
         AnchorFor(d, olds) # 0
  PROVE  /\ d.slot.key = AnchorFor(d, olds)
         /\ d.slot.placeholder \/ (d.slot.key \in olds /\ Lives(d.segs[d.slot.key]))
  <1>1. CASE d.slot.key \in olds
    BY <1>1 DEF AnchorFor, Steady, OwnsSlot, Lives
  <1>2. CASE d.slot.key \notin olds
    <2> DEFINE anchors == {d.segs[o].anchor : o \in olds} \ {0}
    <2>1. anchors # {} /\ AnchorFor(d, olds) = CHOOSE a \in anchors : TRUE
      BY <1>2 DEF AnchorFor
    <2>2. AnchorFor(d, olds) \in anchors
      <3> HIDE DEF anchors
      <3> QED BY <2>1
    <2>3. PICK o \in olds : d.segs[o].anchor = AnchorFor(d, olds) /\ d.segs[o].anchor # 0
      BY <2>2
    <2>4. CASE o \in Live(d)
      BY <1>2, <2>3, <2>4 DEF Live, Lives, Steady, OwnsSlot, AnchorsHold, Waiting, With
    <2>5. CASE o \notin Live(d)
      BY <1>2, <2>3, <2>5 DEF Replaceable, Anchored
    <2> QED BY <2>4, <2>5
  <1> QED BY <1>1, <1>2

LEMMA ReplaceSteady ==
  ASSUME NEW d, NEW h \in Nat, NEW g \in Nat, Steady(d, h), WindowHolds(d), h <= g,
         NEW fresh \in SUBSET SegIds, \A s \in fresh : h < s /\ s <= g,
         NEW olds \in [SegIds -> SUBSET SegIds],
         \A s \in fresh : \A o \in olds[s] :
            d.segs[o].anchor = d.slot.key /\ d.slot.key # 0 => d.slot.placeholder,
         NEW revs, \A s \in fresh : revs[s] \in 0..MaxRevision, NEW final \in BOOLEAN
  PROVE  LET r == Replace(d, fresh, olds, revs, final) IN Steady(r, g) /\ WindowHolds(r)
  <1> DEFINE replaced == UNION {olds[s] : s \in fresh}
             lost == {s \in fresh : \E o \in olds[s] : ~Replaceable(d, o)}
             c == IF final /\ d.slot.key \in replaced THEN Confirmed(d) ELSE d
             e == RetireSegments(c, replaced, "Replaced")
             new(s) == NewSegment(d, s, revs[s], fresh, olds, final)
             S == [s \in SegIds |-> IF s \in fresh THEN new(s) ELSE e.segs[s]]
             n == [e EXCEPT !.segs = S]
             r == RetireSegments(n, lost, "ReconcileAmbiguous")
  <1>1. /\ Steady(c, h) /\ WindowHolds(c)
        /\ c.segs = d.segs /\ c.slot.key = d.slot.key
        /\ c.slot.placeholder = d.slot.placeholder /\ c.window = d.window
    BY ConfirmedSteady
  <1> HIDE DEF c
  <1>2. /\ Steady(e, h) /\ Typed(e)
        /\ e.window = d.window /\ e.slot.key = d.slot.key
        /\ e.slot.placeholder <=> (d.slot.placeholder \/ (d.slot.key \in replaced \cap SegIds
                                                          /\ Lives(d.segs[d.slot.key])))
    BY <1>1, RetireSteady, RetiredFacts DEF Steady
  <1> HIDE DEF e
  <1>3. ASSUME NEW s \in fresh
        PROVE  /\ new(s) \in PagedSegments /\ new(s).display = "Waiting"
               /\ new(s).anchor = AnchorFor(d, olds[s])
               /\ new(s).index = 0 /\ ~new(s).ambiguous
    BY <1>3, NewSegmentType DEF Steady
  <1> HIDE DEF new
  <1>4. S \in [SegIds -> PagedSegments]
    BY <1>2, <1>3 DEF Typed
  <1>5. n.segs = S /\ n.slot = e.slot /\ n.window = e.window /\ n.config = e.config /\ Typed(n)
    BY <1>2, <1>4 DEF Typed
  <1> HIDE DEF n
  <1>6. e.slot.key \in SegIds \cup {0} /\ e.slot.key \notin fresh
    <2>1. e.slot.key \in SegIds \cup {0}
      BY <1>2 DEF Typed, Slots
    <2>2. e.slot.key # 0 => e.segs[e.slot.key].display # "Absent" /\ e.slot.key <= h
      BY <1>2, <2>1 DEF Steady, OwnsSlot, LivesAllocated, Slots, Typed
    <2> QED BY <2>1, <2>2, NoId
  <1>7. /\ Typed(r) /\ r.window = e.window /\ r.slot.key = e.slot.key
        /\ \A s \in SegIds : r.segs[s] = IF Lives(S[s]) /\ s \in lost THEN Tombstone(S[s]) ELSE S[s]
        /\ r.slot.placeholder <=> e.slot.placeholder
    BY <1>5, <1>6, RetiredFacts
  <1> HIDE DEF r
  <1>8. /\ \A s \in SegIds \ fresh : r.segs[s] = e.segs[s]
        /\ \A s \in fresh : r.segs[s] = IF s \in lost THEN Tombstone(new(s)) ELSE new(s)
    BY <1>3, <1>7 DEF Lives
  <1>9. \A s \in fresh : Tombstone(new(s)).display = "Retired" /\ Tombstone(new(s)).expected = NoJob
    BY <1>3, TombstoneType
  <1>10. OwnsSlot(r)
    <2>1. \A s \in SegIds : r.segs[s].display = "Visible" => s \notin fresh
      BY <1>3, <1>8, <1>9
    <2> QED
      BY <1>2, <1>6, <1>7, <1>8, <2>1 DEF Steady, OwnsSlot
  <1>11. AnchorsHold(r)
    <2>1. ASSUME NEW s \in fresh, r.segs[s].display = "Waiting", r.segs[s].anchor # 0
          PROVE  r.slot.key = r.segs[s].anchor /\ r.slot.placeholder
      <3>1. s \notin lost /\ r.segs[s] = new(s) /\ AnchorFor(d, olds[s]) = r.segs[s].anchor
        BY <1>3, <1>8, <1>9, <2>1
      <3>2. /\ d.slot.key = AnchorFor(d, olds[s])
            /\ d.slot.placeholder \/ (d.slot.key \in olds[s] /\ Lives(d.segs[d.slot.key]))
        BY <2>1, <3>1, AnchorForFacts
      <3> QED
        BY <1>2, <1>7, <3>1, <3>2
    <2>2. ASSUME NEW s \in SegIds \ fresh, r.segs[s].display = "Waiting", r.segs[s].anchor # 0
          PROVE  r.slot.key = r.segs[s].anchor /\ r.slot.placeholder
      BY <1>2, <1>7, <1>8, <2>2 DEF Steady, AnchorsHold, Waiting, With
    <2>3. r.slot.key # 0 => r.segs[r.slot.key].anchor = 0
      BY <1>2, <1>6, <1>7, <1>8 DEF Steady, AnchorsHold
    <2> QED
      BY <2>1, <2>2, <2>3 DEF AnchorsHold, Waiting, With
  <1>12. LivesAllocated(r, g)
    <2>1. \A s \in SegIds \ fresh : /\ r.segs[s].display # "Absent" => s <= h
                                    /\ ~Lives(r.segs[s]) => r.segs[s].expected = NoJob
      BY <1>2, <1>8 DEF Steady, LivesAllocated
    <2>2. \A s \in fresh : ~Lives(r.segs[s]) => r.segs[s].expected = NoJob
      BY <1>3, <1>8, <1>9 DEF Lives
    <2> QED
      BY <2>1, <2>2, NoId DEF LivesAllocated
  <1>13. WindowHolds(r)
    BY <1>1, <1>2, <1>7 DEF WindowHolds
  <1>14. r = Replace(d, fresh, olds, revs, final)
    BY DEF r, n, new, e, c, Replace
  <1>15. WaitingUnread(r)
    BY <1>2, <1>3, <1>8, <1>9 DEF Steady, WaitingUnread, Waiting, With
  <1> QED
    BY <1>7, <1>10, <1>11, <1>12, <1>13, <1>14, <1>15 DEF Steady

LEMMA UsedUpFacts ==
  ASSUME NEW d, NEW fresh \in SUBSET SegIds, NEW updated, highWater \in SegIds \cup {0}
  PROVE  LET g == UsedUp(d, fresh, updated) IN
         /\ g \in SegIds \cup {0} /\ highWater <= g
         /\ ~Refused(d, fresh, updated) => \A s \in fresh : s <= g
  <1>1. CASE Refused(d, fresh, updated) \/ fresh = {}
    BY <1>1, NoId DEF UsedUp
  <1>2. CASE ~Refused(d, fresh, updated) /\ fresh # {}
    <2> DEFINE f == [s \in fresh |-> s]
    <2>1. f \in [fresh -> Nat] /\ IsFiniteSet(fresh)
      BY NoId, IdsAssumption, FS_Subset
    <2>2. \E m \in fresh : \A n \in fresh : f[n] <= f[m]
      <3> HIDE DEF f
      <3> QED BY <1>2, <2>1, GreatestImage
    <2>3. \E s \in fresh : \A t \in fresh : t <= s
      BY <2>2
    <2>4. /\ UsedUp(d, fresh, updated) \in fresh
          /\ \A t \in fresh : t <= UsedUp(d, fresh, updated)
      BY <1>2, <2>3 DEF UsedUp
    <2>5. \A s \in fresh : highWater < s
      BY <1>2, NoId DEF Refused
    <2> QED
      BY <2>4, <2>5, NoId
  <1> QED
    BY <1>1, <1>2

LEMMA RegisteredKeeps ==
  ASSUME ComposerInv, NEW fresh \in SUBSET SegIds, NEW olds \in SUBSET Live(Display),
         NEW updated, NEW revs, NEW final \in BOOLEAN,
         \A s \in SegIds : s \in fresh \cup updated => revs[s] \in 0..MaxRevision
  PROVE  LET r == Registered(Now, fresh, [s \in SegIds |-> olds], updated, revs, final) IN
         Steady(r, UsedUp(Now, fresh, updated)) /\ WindowHolds(r)
  <1> DEFINE d == Now
             g == UsedUp(d, fresh, updated)
             all == [s \in SegIds |-> olds]
             u == Update(d, updated, revs, final)
             r == Replace(u, fresh, all, revs, final)
  <1>1. /\ Steady(d, highWater) /\ WindowHolds(d)
        /\ \A s \in Live(Display) : d.segs[s].anchor = d.slot.key /\ d.slot.key # 0 =>
              d.slot.placeholder
    BY NowKeeps
  <1>2. highWater \in Nat /\ highWater \in SegIds \cup {0}
    BY NoId DEF ComposerInv, TypeOK
  <1> HIDE DEF d
  <1>3. /\ g \in SegIds \cup {0} /\ highWater <= g /\ g \in Nat
        /\ ~Refused(d, fresh, updated) => \A s \in fresh : s <= g
    <2>1. /\ g \in SegIds \cup {0} /\ highWater <= g
          /\ ~Refused(d, fresh, updated) => \A s \in fresh : s <= g
      BY <1>2, UsedUpFacts
    <2> HIDE DEF g
    <2> QED BY <2>1, NoId
  <1> HIDE DEF g
  <1>4. CASE Refused(d, fresh, updated) \/ Full(d, fresh)
    <2>1. Registered(d, fresh, all, updated, revs, final) = d
      BY <1>4 DEF Registered
    <2> QED
      BY <1>1, <1>2, <1>3, <2>1, AllocatedLater DEF g, d
  <1>5. CASE ~Refused(d, fresh, updated) /\ ~Full(d, fresh)
    <2>1. updated \subseteq SegIds \/ updated \cap SegIds \subseteq Live(d)
      BY <1>5 DEF Refused, Live
    <2>2. updated \in SUBSET Live(d) /\ \A s \in updated : revs[s] \in 0..MaxRevision
      BY <1>5 DEF Refused, Live
    <2>3. /\ Steady(u, highWater) /\ WindowHolds(u)
          /\ u.slot.key = d.slot.key /\ u.slot.placeholder = d.slot.placeholder
          /\ \A s \in SegIds : u.segs[s].anchor = d.segs[s].anchor
      BY <1>1, <2>2, UpdateSteady
    <2> HIDE DEF u
    <2>4. \A s \in fresh : highWater < s /\ s <= g
      BY <1>2, <1>3, <1>5, NoId DEF Refused
    <2>5. all \in [SegIds -> SUBSET SegIds] /\ \A s \in SegIds : all[s] = olds
      BY DEF Live
    <2>6. \A s \in fresh : \A o \in all[s] :
             u.segs[o].anchor = u.slot.key /\ u.slot.key # 0 => u.slot.placeholder
      BY <1>1, <2>3, <2>5
    <2> HIDE DEF all
    <2>7. Steady(r, g) /\ WindowHolds(r)
      BY <1>2, <1>3, <2>3, <2>4, <2>5, <2>6, ReplaceSteady
    <2> HIDE DEF r
    <2>8. Steady(EnforceWaiting(r), g) /\ WindowHolds(EnforceWaiting(r))
      BY <2>7, RetireSteady, RetiredFacts DEF EnforceWaiting, WindowHolds, Steady
    <2>9. Registered(d, fresh, all, updated, revs, final) = EnforceWaiting(r)
      BY <1>5 DEF Registered, r, u
    <2> QED
      BY <2>8, <2>9 DEF g, d, all
  <1> QED
    BY <1>4, <1>5

-----------------------------------------------------------------------------
(* Translations and the display *)

LEMMA SegmentSteady ==
  ASSUME NEW d, NEW h, Steady(d, h), WindowHolds(d), NEW s \in Live(d), NEW seg \in PagedSegments,
         seg.display = d.segs[s].display, seg.anchor = d.segs[s].anchor,
         d.segs[s].left > 0 => seg.left > 0,
         seg.display = "Waiting" => seg.index = 0 /\ ~seg.ambiguous
  PROVE  LET e == [d EXCEPT !.segs[s] = seg] IN
         /\ Steady(e, h) /\ WindowHolds(e)
         /\ e.slot = d.slot /\ e.window = d.window /\ e.segs = [d.segs EXCEPT ![s] = seg]
  <1> DEFINE e == [d EXCEPT !.segs[s] = seg]
  <1>1. s \in SegIds /\ Typed(d)
    BY DEF Steady, Live
  <1>2. /\ e.segs = [d.segs EXCEPT ![s] = seg] /\ e.slot = d.slot
        /\ e.window = d.window /\ e.config = d.config /\ Typed(e)
    BY <1>1 DEF Typed
  <1> HIDE DEF e
  <1>3. /\ e.segs[s] = seg
        /\ \A t \in SegIds \ {s} : e.segs[t] = d.segs[t]
    BY <1>1, <1>2 DEF Typed
  <1>4. e.slot.key \in SegIds \cup {0}
    BY <1>2 DEF Typed, Slots
  <1>5. OwnsSlot(e)
    BY <1>2, <1>3, <1>4 DEF Steady, OwnsSlot
  <1>6. AnchorsHold(e)
    BY <1>2, <1>3, <1>4 DEF Steady, AnchorsHold, Waiting, With
  <1>7. LivesAllocated(e, h)
    BY <1>3 DEF Steady, LivesAllocated, Live, Lives
  <1>8. WindowHolds(e)
    BY <1>2 DEF WindowHolds
  <1>9. WaitingUnread(e)
    BY <1>3 DEF Steady, WaitingUnread, Waiting, With
  <1> QED
    BY <1>2, <1>5, <1>6, <1>7, <1>8, <1>9 DEF Steady, e

LEMMA ExpectingSteady ==
  ASSUME NEW d, NEW h, Steady(d, h), WindowHolds(d), NEW s \in SegIds, NEW job \in Jobs
  PROVE  Steady(Expecting(d, s, job), h) /\ WindowHolds(Expecting(d, s, job))
  <1>1. CASE s \in Live(d)
    <2> DEFINE seg == [d.segs[s] EXCEPT !.expected = job, !.processed = FALSE]
    <2>1. /\ seg \in PagedSegments /\ seg.display = d.segs[s].display
          /\ seg.anchor = d.segs[s].anchor /\ seg.left = d.segs[s].left
          /\ seg.index = d.segs[s].index /\ seg.ambiguous = d.segs[s].ambiguous
      BY DEF Steady, Typed, Segments, PagedSegments, PagesFit
    <2>3. seg.display = "Waiting" => seg.index = 0 /\ ~seg.ambiguous
      BY <1>1, <2>1 DEF Steady, WaitingUnread, Waiting, With
    <2>2. [d EXCEPT !.segs[s].expected = job, !.segs[s].processed = FALSE]
          = [d EXCEPT !.segs[s] = seg]
      BY DEF Steady, Typed, Segments, PagedSegments, PagesFit
    <2> HIDE DEF seg
    <2> QED
      BY <1>1, <2>1, <2>2, <2>3, SegmentSteady DEF Expecting
  <1>2. CASE s \notin Live(d)
    BY <1>2 DEF Expecting
  <1> QED
    BY <1>1, <1>2

LEMMA UpdateVisibleSteady ==
  ASSUME NEW d, NEW h, Steady(d, h), WindowHolds(d), NEW s \in Live(d), d.slot.key = s,
         NEW pages \in 1..MaxPages, NEW aligned,
         ~d.slot.placeholder
  PROVE  LET e == UpdateVisible(d, s, pages, aligned) IN Steady(e, h) /\ WindowHolds(e)
  <1> DEFINE seg == d.segs[s]
             new == Realigned(seg, seg.index, pages, ~seg.ambiguous /\ aligned)
             e == [d EXCEPT !.segs[s] = new]
             sl == [Restarted(d.slot) EXCEPT !.dirty = TRUE]
             w == ReplaceChunk(d.window, s, s)
             v == UpdateVisible(d, s, pages, aligned)
  <1>1. s \in SegIds /\ Typed(d) /\ seg \in PagedSegments
    BY DEF Steady, Live, Typed
  <1>2. /\ new \in PagedSegments /\ new.left > 0
        /\ new.display = seg.display /\ new.anchor = seg.anchor
    <2>1. seg.index \in 0..MaxPages
      BY <1>1 DEF Segments, PagedSegments, PagesFit
    <2> DEFINE agrees == ~seg.ambiguous /\ aligned
    <2>2. (agrees => ~seg.ambiguous) /\ new = Realigned(seg, seg.index, pages, agrees)
      OBVIOUS
    <2> HIDE DEF seg, new, agrees
    <2> QED BY <1>1, <2>1, <2>2, RealignedFacts
  <1> HIDE DEF new
  <1>a. new.display # "Waiting"
    BY <1>1, <1>2 DEF Steady, OwnsSlot
  <1>3. /\ Steady(e, h) /\ e.slot = d.slot
        /\ e.window = d.window /\ e.segs = [d.segs EXCEPT ![s] = new]
    BY <1>2, <1>a, SegmentSteady
  <1>4. sl \in Slots /\ sl.key = d.slot.key /\ sl.placeholder = d.slot.placeholder
    <2>1. d.slot \in Slots /\ 0 \in 0..MinPage /\ 0 \in 0..MaxHold /\ 0 \in 0..Lifetime
      BY <1>1, LimitsAssumption, MaxHoldType DEF Typed
    <2> QED BY <2>1 DEF Restarted, Slots
  <1>5. w \in Seq(SegIds) /\ Len(w) <= MaxChunks /\ w # << >> /\ w[Len(w)] = s
    <2>1. /\ d.window \in Seq(SegIds) /\ Len(d.window) <= MaxChunks
          /\ d.window # << >> /\ d.window[Len(d.window)] = s
      BY <1>1, NoId DEF Typed, WindowHolds
    <2>2. w = ReplaceChunk(d.window, d.window[Len(d.window)], s)
      BY <2>1
    <2> HIDE DEF w
    <2> QED BY <1>1, <2>1, <2>2, ReplaceFacts
  <1> HIDE DEF sl, w
  <1>6. v = [e EXCEPT !.slot = sl, !.window = w]
    BY <1>1 DEF UpdateVisible, Typed, new, sl, w
  <1> HIDE DEF e
  <1>7. /\ v.segs = e.segs /\ v.slot = sl /\ v.window = w /\ v.config = e.config /\ Typed(v)
    BY <1>3, <1>4, <1>5, <1>6 DEF Steady, Typed
  <1> HIDE DEF v
  <1>8. Steady(v, h)
    BY <1>3, <1>4, <1>7
       DEF Steady, OwnsSlot, AnchorsHold, LivesAllocated, WaitingUnread, Waiting, With
  <1>9. WindowHolds(v)
    BY <1>1, <1>4, <1>5, <1>7, NoId DEF WindowHolds
  <1> QED
    BY <1>8, <1>9 DEF v

LEMMA TakenSteady ==
  ASSUME NEW d, NEW h, Steady(d, h), WindowHolds(d), NEW s \in Live(d), NEW job \in Jobs,
         NEW pages \in 0..MaxPages, NEW aligned
  PROVE  LET r == Taken(d, s, job, pages, aligned) IN Steady(r, h) /\ WindowHolds(r)
  <1> DEFINE seg == [d.segs[s] EXCEPT !.processed = TRUE]
             told == [seg EXCEPT !.job = job]
             shown == [told EXCEPT !.left = pages]
             e == [d EXCEPT !.segs[s].processed = TRUE]
             t == [e EXCEPT !.segs[s].job = job]
             x == [t EXCEPT !.segs[s].left = pages]
  <1>1. s \in SegIds /\ Typed(d) /\ d.segs[s] \in PagedSegments
    BY DEF Steady, Live, Typed
  <1>a. d.segs[s].display = "Waiting" => d.segs[s].index = 0 /\ ~d.segs[s].ambiguous
    BY <1>1 DEF Steady, WaitingUnread, Waiting, With
  <1>2. /\ seg \in PagedSegments /\ seg.display = d.segs[s].display
        /\ seg.anchor = d.segs[s].anchor /\ seg.left = d.segs[s].left
        /\ seg.index = d.segs[s].index /\ seg.ambiguous = d.segs[s].ambiguous
    BY <1>1 DEF Segments, PagedSegments, PagesFit
  <1>3. /\ told \in PagedSegments /\ told.display = d.segs[s].display
        /\ told.anchor = d.segs[s].anchor /\ told.left = d.segs[s].left
        /\ told.index = d.segs[s].index /\ told.ambiguous = d.segs[s].ambiguous
    BY <1>2 DEF Segments, PagedSegments, PagesFit
  <1>4. ASSUME pages # 0, ~Shows(d, s)
        PROVE  /\ shown \in PagedSegments /\ shown.display = d.segs[s].display
               /\ shown.anchor = d.segs[s].anchor /\ shown.left = pages
               /\ shown.index = d.segs[s].index /\ shown.ambiguous = d.segs[s].ambiguous
    <2>1. /\ shown \in Segments /\ shown.display = d.segs[s].display
          /\ shown.anchor = d.segs[s].anchor /\ shown.left = pages
          /\ shown.index = d.segs[s].index /\ shown.ambiguous = d.segs[s].ambiguous
      BY <1>3 DEF Segments, PagedSegments
    <2>2. d.segs[s].display = "Waiting"
      BY <1>1, <1>4 DEF Shows, Steady, OwnsSlot, Live, Lives
    <2>3. PagesFit(shown)
      BY <1>a, <2>1, <2>2 DEF PagesFit
    <2> QED BY <2>1, <2>3 DEF PagedSegments
  <1>5. /\ e = [d EXCEPT !.segs[s] = seg]
        /\ t = [d EXCEPT !.segs[s] = told]
        /\ x = [d EXCEPT !.segs[s] = shown]
    BY <1>1 DEF Typed, Segments, PagedSegments, PagesFit
  <1>6. Taken(d, s, job, pages, aligned) =
          IF d.slot.key = s /\ HoldOver(d) THEN e
          ELSE IF pages = 0
               THEN IF d.segs[s].left = 0 THEN RetireSegments(e, {s}, "TranslationFailed") ELSE e
          ELSE IF Shows(d, s) THEN UpdateVisible(t, s, pages, aligned)
          ELSE x
    BY DEF Taken
  <1> HIDE DEF seg, told, shown, e, t, x
  <1>7. Steady(e, h) /\ WindowHolds(e)
    BY <1>a, <1>2, <1>5, SegmentSteady
  <1>8. Steady(t, h) /\ WindowHolds(t) /\ t.slot = d.slot /\ s \in Live(t)
    <2>1. Steady(t, h) /\ WindowHolds(t) /\ t.slot = d.slot /\ t.segs = [d.segs EXCEPT ![s] = told]
      BY <1>a, <1>3, <1>5, SegmentSteady
    <2>2. s \in Live(t)
      BY <1>1, <1>3, <2>1 DEF Live, Lives, Typed
    <2> QED BY <2>1, <2>2
  <1>9. ASSUME pages # 0, ~Shows(d, s)
        PROVE  Steady(x, h) /\ WindowHolds(x)
    BY <1>a, <1>4, <1>5, <1>9, SegmentSteady
  <1>10. LET r == RetireSegments(e, {s}, "TranslationFailed") IN Steady(r, h) /\ WindowHolds(r)
    BY <1>7, RetireSteady, RetiredFacts DEF WindowHolds, Steady
  <1>11. pages # 0 /\ Shows(d, s) =>
          LET r == UpdateVisible(t, s, pages, aligned) IN Steady(r, h) /\ WindowHolds(r)
    BY <1>8, UpdateVisibleSteady DEF Shows
  <1> QED
    BY <1>6, <1>7, <1>9, <1>10, <1>11

\* Two displays that differ in nothing the invariant speaks of.
LEMMA AlikeSteady ==
  ASSUME NEW d, NEW h, Steady(d, h), NEW e, Typed(e),
         e.slot.key = d.slot.key, e.slot.placeholder = d.slot.placeholder,
         \A s \in SegIds : /\ e.segs[s].display = d.segs[s].display
                           /\ e.segs[s].anchor = d.segs[s].anchor
                           /\ e.segs[s].index = d.segs[s].index
                           /\ e.segs[s].ambiguous = d.segs[s].ambiguous
                           /\ e.segs[s].expected = d.segs[s].expected
                           /\ d.segs[s].left > 0 => e.segs[s].left > 0
  PROVE  Steady(e, h)
  <1>1. e.slot.key \in SegIds \cup {0}
    BY DEF Typed, Slots
  <1>2. OwnsSlot(e)
    BY <1>1 DEF Steady, OwnsSlot
  <1>3. AnchorsHold(e)
    BY <1>1 DEF Steady, AnchorsHold, Waiting, With
  <1>4. LivesAllocated(e, h)
    BY DEF Steady, LivesAllocated, Lives
  <1>5. WaitingUnread(e)
    BY DEF Steady, WaitingUnread, Waiting, With
  <1> QED
    BY <1>2, <1>3, <1>4, <1>5 DEF Steady

LEMMA RewrappedFacts ==
  ASSUME NEW seg \in PagedSegments, NEW pages \in 1..MaxPages
  PROVE  LET r == Rewrapped(seg, pages) IN
         /\ r \in PagedSegments
         /\ r.display = seg.display /\ r.anchor = seg.anchor /\ r.index = seg.index
         /\ r.ambiguous = seg.ambiguous /\ r.expected = seg.expected
         /\ seg.left > 0 => r.left > 0
  <1> DEFINE n == IF seg.ambiguous THEN 1 ELSE Smaller(pages, MaxPages - seg.index)
             r == [seg EXCEPT !.left = n]
  <1>1. CASE seg.left = 0
    BY <1>1 DEF Rewrapped
  <1>2. CASE seg.left # 0
    <2>1. /\ seg.index \in 0..MaxPages /\ seg.left \in 1..MaxPages
          /\ ~seg.ambiguous => seg.index + seg.left <= MaxPages
      BY <1>2 DEF Segments, PagedSegments, PagesFit
    <2>2. n \in 1..MaxPages /\ (~seg.ambiguous => seg.index + n <= MaxPages)
      BY <2>1, LimitsAssumption DEF Smaller
    <2>3. seg.ambiguous => n = 1
      OBVIOUS
    <2>4. Rewrapped(seg, pages) = r
      BY <1>2 DEF Rewrapped
    <2> HIDE DEF n
    <2>5. /\ r \in Segments /\ r.left = n
          /\ r.display = seg.display /\ r.anchor = seg.anchor /\ r.index = seg.index
          /\ r.ambiguous = seg.ambiguous /\ r.expected = seg.expected
      BY <2>2 DEF Segments, PagedSegments
    <2> HIDE DEF r
    <2>6. PagesFit(r)
      BY <2>2, <2>3, <2>5 DEF PagesFit
    <2> QED
      BY <2>2, <2>4, <2>5, <2>6 DEF PagedSegments
  <1> QED
    BY <1>1, <1>2

LEMMA ReconfiguredSteady ==
  ASSUME NEW d, NEW h, Steady(d, h), WindowHolds(d), NEW c \in Configs,
         NEW pages, \A s \in SegIds : pages[s] \in 1..MaxPages
  PROVE  LET r == Reconfigured(d, c, pages) IN Steady(r, h) /\ WindowHolds(r)
  <1> DEFINE rewrap == c.layout # d.config.layout
             shown == rewrap /\ d.slot.key # 0 /\ ~d.slot.placeholder
             T == [s \in SegIds |-> Rewrapped(d.segs[s], pages[s])]
             S == IF rewrap THEN T ELSE d.segs
             sl == [d.slot EXCEPT !.dirty = @ \/ shown]
             w == IF shown THEN ReplaceChunk(d.window, d.slot.key, d.slot.key) ELSE d.window
             r == Reconfigured(d, c, pages)
  <1>1. /\ Typed(d) /\ d.slot \in Slots /\ d.slot.key \in SegIds \cup {0}
        /\ d.segs \in [SegIds -> PagedSegments]
    BY DEF Steady, Typed, Slots
  <1>2. /\ S \in [SegIds -> PagedSegments]
        /\ \A s \in SegIds : /\ S[s].display = d.segs[s].display
                             /\ S[s].anchor = d.segs[s].anchor
                             /\ S[s].index = d.segs[s].index
                             /\ S[s].ambiguous = d.segs[s].ambiguous
                             /\ S[s].expected = d.segs[s].expected
                             /\ d.segs[s].left > 0 => S[s].left > 0
    <2>1. \A s \in SegIds : /\ T[s] \in PagedSegments
                            /\ T[s].display = d.segs[s].display
                            /\ T[s].anchor = d.segs[s].anchor
                            /\ T[s].index = d.segs[s].index
                            /\ T[s].ambiguous = d.segs[s].ambiguous
                            /\ T[s].expected = d.segs[s].expected
                            /\ d.segs[s].left > 0 => T[s].left > 0
      BY <1>1, RewrappedFacts
    <2>2. T \in [SegIds -> PagedSegments]
      BY <2>1
    <2> HIDE DEF T
    <2> QED BY <1>1, <2>1, <2>2
  <1>3. sl \in Slots /\ sl.key = d.slot.key /\ sl.placeholder = d.slot.placeholder
    <2>1. (d.slot.dirty \/ shown) \in BOOLEAN
      BY <1>1 DEF Slots
    <2> QED BY <1>1, <2>1 DEF Slots
  <1>4. /\ w \in Seq(SegIds) /\ Len(w) <= MaxChunks
        /\ IF d.slot.key = 0 THEN w = << >> ELSE w # << >> /\ w[Len(w)] = d.slot.key
    <2>1. CASE shown
      <3> DEFINE v == ReplaceChunk(d.window, d.slot.key, d.slot.key)
      <3>1. /\ d.window \in Seq(SegIds) /\ Len(d.window) <= MaxChunks
            /\ d.window # << >> /\ d.window[Len(d.window)] = d.slot.key
        BY <1>1, <2>1 DEF Typed, WindowHolds
      <3>2. v = ReplaceChunk(d.window, d.window[Len(d.window)], d.slot.key)
        BY <3>1
      <3>3. d.slot.key \in SegIds /\ d.slot.key # 0
        BY <1>1, <2>1
      <3> HIDE DEF v
      <3>4. /\ v \in Seq(SegIds) /\ Len(v) <= MaxChunks
            /\ v # << >> /\ v[Len(v)] = d.slot.key
        BY <3>1, <3>2, <3>3, ReplaceFacts
      <3>5. w = v
        BY <2>1 DEF v
      <3> HIDE DEF w
      <3> QED BY <3>3, <3>4, <3>5
    <2>2. CASE ~shown
      BY <1>1, <2>2 DEF Typed, WindowHolds
    <2> QED BY <2>1, <2>2
  <1> HIDE DEF S, sl, w
  <1>5. r = DisplayOf(S, sl, w, c)
    BY DEF Reconfigured, S, sl, w
  <1>6. r.segs = S /\ r.slot = sl /\ r.window = w
    BY <1>5, DisplayFields
  <1>7. Typed(r)
    BY <1>2, <1>3, <1>4, <1>5, TypedDisplay
  <1> HIDE DEF r
  <1>8. Steady(r, h)
    BY <1>2, <1>3, <1>6, <1>7, AlikeSteady
  <1>9. WindowHolds(r)
    BY <1>3, <1>4, <1>6 DEF WindowHolds
  <1> QED
    BY <1>8, <1>9 DEF r

\* Clearing the slot for what follows it leaves everything that waits.
LEMMA FollowsSteady ==
  ASSUME NEW d, NEW h, Steady(d, h), d.slot.key # 0, Follows(d)
  PROVE  Ready(ClearSlot(d, TRUE), NextWaiting(ClearSlot(d, TRUE)))
  <1> DEFINE r == ClearSlot(d, TRUE)
             W == Waiting(d)
             n == NextWaiting(d)
             S == {d.slot.key} \cup Anchored(d)
  <1>1. /\ Typed(d) /\ W \in SUBSET SegIds /\ d.slot.key \in SegIds
        /\ W \cap Anchored(d) \in SUBSET SegIds
    BY DEF Steady, Typed, Slots, Waiting, With
  <1>2. /\ Steady(r, h) /\ Typed(r)
        /\ \A s \in SegIds : r.segs[s] = IF Lives(d.segs[s]) /\ s \in S
                                         THEN Tombstone(d.segs[s]) ELSE d.segs[s]
    BY ClearSteady DEF Steady
  <1>3. d.slot.placeholder => W \cap Anchored(d) = {}
    <2>1. ASSUME d.slot.placeholder, W \cap Anchored(d) # {} PROVE FALSE
      <3>1. FirstOf(d, W \cap Anchored(d)) \in W \cap Anchored(d)
        BY <1>1, <2>1, FirstExists
      <3>2. FirstOf(d, W \cap Anchored(d)) = 0
        BY <2>1 DEF Follows, ReplacementHead
      <3> QED BY <1>1, <3>1, <3>2, NoId
    <2> QED BY <2>1
  <1>4. W \cap S = {}
    <2>1. ASSUME NEW s \in W, s \in S PROVE FALSE
      <3>1. s \in SegIds /\ d.segs[s].display = "Waiting"
        BY <1>1 DEF Waiting, With
      <3>2. CASE s = d.slot.key
        BY <3>1, <3>2 DEF Steady, OwnsSlot
      <3>3. CASE s \in Anchored(d)
        <4>1. d.segs[s].anchor # 0
          BY <3>3 DEF Anchored
        <4>2. d.slot.placeholder
          BY <4>1 DEF Steady, AnchorsHold
        <4> QED BY <1>3, <3>3, <4>2
      <3> QED BY <2>1, <3>2, <3>3
    <2> QED BY <2>1
  <1>5. \A s \in W : r.segs[s] = d.segs[s]
    BY <1>1, <1>2, <1>4
  <1>6. Waiting(r) = W
    <2>1. ASSUME NEW s \in SegIds PROVE s \in Waiting(r) <=> s \in W
      <3>1. CASE s \in W
        BY <1>5, <3>1 DEF Waiting, With
      <3>2. CASE s \notin W
        <4>1. r.segs[s] = d.segs[s] \/ r.segs[s].display = "Retired"
          <5>1. d.segs[s] \in PagedSegments
            BY <1>1, <2>1 DEF Typed
          <5>2. Tombstone(d.segs[s]).display = "Retired"
            BY <5>1, TombstoneType
          <5> HIDE DEF r, S
          <5> QED BY <1>2, <5>2
        <4> QED BY <3>2, <4>1 DEF Waiting, With
      <3> QED BY <3>1, <3>2
    <2>2. Waiting(r) \subseteq SegIds
      BY DEF Waiting, With
    <2> QED BY <1>1, <2>1, <2>2
  <1>7. n # 0 /\ d.segs[n].left > 0
    BY DEF Follows, Ready
  <1>8. n \in W /\ \A t \in W \ {n} : Precedes(d, n, t)
    <2>1. W # {}
      BY <1>7 DEF NextWaiting, FirstOf
    <2> QED BY <1>1, <2>1, FirstExists DEF NextWaiting
  <1> HIDE DEF r, W, n
  <1>9. \A t \in W \ {n} : Precedes(r, n, t)
    BY <1>5, <1>8 DEF Precedes
  <1>10. NextWaiting(r) = n
    BY <1>1, <1>2, <1>6, <1>8, <1>9, FirstIs DEF NextWaiting
  <1> QED
    BY <1>5, <1>7, <1>8, <1>10 DEF Ready, r

LEMMA NextPageSteady ==
  ASSUME NEW d, NEW h, Steady(d, h), WindowHolds(d), TurnsPage(d)
  PROVE  LET r == NextPage(d, d.slot.key) IN Steady(r, h) /\ WindowHolds(r)
  <1> DEFINE s == d.slot.key
             seg == [d.segs[s] EXCEPT !.left = @ - 1, !.index = @ + 1]
             e == [d EXCEPT !.segs[s] = seg]
             f == [d EXCEPT !.segs[s].left = @ - 1, !.segs[s].index = @ + 1]
  <1>1. /\ s \in SegIds /\ d.segs[s].left > 1 /\ ~d.slot.placeholder
        /\ Typed(d) /\ d.segs[s] \in PagedSegments
    BY DEF TurnsPage, MorePages, Steady, Typed, Slots
  <1>2. d.segs[s].display = "Visible" /\ d.segs[s].anchor = 0
    BY <1>1, NoId DEF Steady, OwnsSlot, AnchorsHold
  <1>3. /\ d.segs[s].left - 1 \in 1..MaxPages /\ d.segs[s].index + 1 \in 0..MaxPages
        /\ (d.segs[s].index + 1) + (d.segs[s].left - 1) <= MaxPages
        /\ ~d.segs[s].ambiguous
    BY <1>1, LimitsAssumption DEF PagedSegments, PagesFit, Segments
  <1>a. /\ d.segs[s] \in Segments
        /\ d.segs[s].left - 1 \in 0..MaxPages /\ d.segs[s].index + 1 \in 0..MaxPages
    BY <1>1, <1>3, LimitsAssumption DEF PagedSegments
  <1>4. /\ seg \in Segments
        /\ seg.left = d.segs[s].left - 1 /\ seg.index = d.segs[s].index + 1
        /\ seg.ambiguous = d.segs[s].ambiguous
        /\ seg.display = d.segs[s].display /\ seg.anchor = d.segs[s].anchor
    BY <1>a DEF Segments
  <1>5. f = e
    BY <1>1 DEF Typed, PagedSegments, Segments
  <1> HIDE DEF seg
  <1>6. PagesFit(seg)
    BY <1>3, <1>4 DEF PagesFit
  <1>7. seg \in PagedSegments /\ seg.left > 0 /\ seg.display # "Waiting"
    BY <1>2, <1>3, <1>4, <1>6 DEF PagedSegments
  <1>8. s \in Live(d)
    BY <1>1, <1>2 DEF Live, Lives
  <1>9. Steady(e, h) /\ e.slot = d.slot /\ e.segs = [d.segs EXCEPT ![s] = seg]
    BY <1>4, <1>7, <1>8, SegmentSteady
  <1>10. e.segs[s] = seg
    BY <1>1, <1>9 DEF Typed
  <1>11. NextPage(d, s) = Enter(e, s)
    BY <1>5 DEF NextPage
  <1> HIDE DEF e, f
  <1>12. Steady(Enter(e, s), h) /\ WindowHolds(Enter(e, s))
    BY <1>1, <1>2, <1>4, <1>7, <1>9, <1>10, EnterSteady
  <1> QED
    BY <1>11, <1>12

LEMMA RenderedSteady ==
  ASSUME NEW d, NEW h, Steady(d, h), WindowHolds(d), NEW aligned
  PROVE  Steady(Rendered(d, aligned), h) /\ WindowHolds(Rendered(d, aligned))
  <1> DEFINE Holds(e) == Steady(e, h) /\ WindowHolds(e)
  <1>1. ReplacementReady(d) => Holds(Inherit(d, ReplacementHead(d), aligned))
    BY InheritSteady
  <1>2. Holds([d EXCEPT !.slot.dirty = FALSE])
    <2> DEFINE e == [d EXCEPT !.slot.dirty = FALSE]
    <2>1. /\ e.segs = d.segs /\ e.window = d.window /\ e.config = d.config
          /\ e.slot.key = d.slot.key /\ e.slot.placeholder = d.slot.placeholder
          /\ Typed(e)
      BY DEF Steady, Typed, Slots
    <2> HIDE DEF e
    <2>2. Steady(e, h)
      BY <2>1, AlikeSteady
    <2>3. WindowHolds(e)
      BY <2>1 DEF WindowHolds
    <2> QED BY <2>2, <2>3 DEF e
  <1>3. TurnsPage(d) => Holds(NextPage(d, d.slot.key))
    BY NextPageSteady
  <1>4. Holds(EnterNext(ClearSlot(d, FALSE)))
    <2>1. LET r == ClearSlot(d, FALSE) IN Steady(r, h) /\ r.slot.key = 0 /\ WindowHolds(r)
      BY ClearSteady DEF WindowHolds
    <2> QED BY <2>1, EnterNextSteady
  <1>5. Undisturbed(d) /\ Follows(d) => Holds(EnterNext(ClearSlot(d, TRUE)))
    <2> SUFFICES ASSUME Undisturbed(d), Follows(d) PROVE Holds(EnterNext(ClearSlot(d, TRUE)))
      OBVIOUS
    <2>1. LET r == ClearSlot(d, TRUE) IN Steady(r, h) /\ r.slot.key = 0
      BY ClearSteady
    <2>2. LET r == ClearSlot(d, TRUE) IN Ready(r, NextWaiting(r))
      BY FollowsSteady DEF Undisturbed
    <2> QED BY <2>1, <2>2, EnterNextSteady
  <1>6. d.slot.key = 0 => Holds(EnterNext(d))
    BY EnterNextSteady
  <1>7. Holds(d)
    OBVIOUS
  <1> HIDE DEF Holds
  <1>8. Holds(Rendered(d, aligned))
    BY <1>1, <1>2, <1>3, <1>4, <1>5, <1>6, <1>7 DEF Rendered
  <1> QED
    BY <1>8 DEF Holds

-----------------------------------------------------------------------------
(* The steps. *)

LEMMA EmptySteady ==
  ASSUME NEW c \in Configs, NEW h
  PROVE  LET d == DisplayOf([s \in SegIds |-> Absent], NoSlot, << >>, c) IN
         Steady(d, h) /\ WindowHolds(d)
  <1> DEFINE S == [s \in SegIds |-> Absent]
             d == DisplayOf(S, NoSlot, << >>, c)
  <1>1. S \in [SegIds -> PagedSegments] /\ \A s \in SegIds : S[s] = Absent
    BY AbsentType
  <1>2. NoSlot \in Slots /\ NoSlot.key = 0 /\ ~NoSlot.placeholder
    BY NoSlotType DEF NoSlot
  <1>3. << >> \in Seq(SegIds) /\ Len(<< >>) <= MaxChunks
    BY LimitsAssumption
  <1>4. Absent.display = "Absent" /\ Absent.expected = NoJob
    BY DEF Absent
  <1> HIDE DEF S
  <1>5. d.segs = S /\ d.slot = NoSlot /\ d.window = << >>
    BY DisplayFields
  <1>6. Typed(d)
    BY <1>1, <1>2, <1>3, TypedDisplay
  <1> HIDE DEF d
  <1>7. OwnsSlot(d) /\ AnchorsHold(d) /\ LivesAllocated(d, h) /\ WaitingUnread(d) /\ WindowHolds(d)
    BY <1>1, <1>2, <1>4, <1>5, NoId
       DEF OwnsSlot, AnchorsHold, LivesAllocated, WaitingUnread, WindowHolds, Waiting, With, Lives
  <1> QED
    BY <1>6, <1>7 DEF Steady, d, S

\* The steps that write the state as it is, without forgetting what is retired.
LEMMA WriteKeeps ==
  ASSUME NEW d, Steady(d, highWater'), WindowHolds(d),
         segs' = d.segs, slot' = d.slot, window' = d.window, config' = d.config,
         highWater' \in SegIds \cup {0}, pending' \in Configs \cup {NoConfig}
  PROVE  ComposerInv'
  <1>1. Typed(d)
    BY DEF Steady
  <1>2. /\ Display'.segs = d.segs /\ Display'.slot = d.slot
        /\ Display'.window = d.window /\ Display'.config = d.config
    BY DisplayFields DEF Display, DisplayOf
  <1>3. Typed(Display')
    BY <1>1, TypedDisplay DEF Display, DisplayOf, Typed
  <1>4. Steady(Display', highWater')
    BY <1>2, <1>3, AlikeSteady
  <1>5. WindowHolds(Display')
    BY <1>2 DEF WindowHolds
  <1>6. TypeOK'
    BY <1>1 DEF Typed, TypeOK, PagedSegments
  <1> QED
    BY <1>4, <1>5, <1>6
       DEF ComposerInv, Steady, Display, Typed, OwnsSlot, AnchorsHold, LivesAllocated,
           WaitingUnread, WindowHolds, Waiting, With

LEMMA ResetGenerationKeeps ==
  ASSUME ComposerInv, ResetGeneration
  PROVE  ComposerInv'
  <1>1. config \in Configs /\ highWater' \in SegIds \cup {0} /\ pending' \in Configs \cup {NoConfig}
    BY DEF ComposerInv, TypeOK, ResetGeneration
  <1>2. LET d == DisplayOf([s \in SegIds |-> Absent], NoSlot, << >>, config) IN
        Steady(d, highWater') /\ WindowHolds(d)
    BY <1>1, EmptySteady
  <1> QED
    BY <1>1, <1>2, CommitKeeps DEF ResetGeneration

\* What most steps leave alone.
LEMMA RestTyped ==
  ASSUME ComposerInv
  PROVE  highWater \in SegIds \cup {0} /\ pending \in Configs \cup {NoConfig}
         /\ config \in Configs
  BY DEF ComposerInv, TypeOK

LEMMA ConfirmFinalKeeps ==
  ASSUME ComposerInv, NEW s \in SegIds, ConfirmFinal(s)
  PROVE  ComposerInv'
  <1>1. Steady(ConfirmedIf(Now, s), highWater) /\ WindowHolds(ConfirmedIf(Now, s))
    BY NowKeeps, ConfirmedSteady DEF ConfirmedIf
  <1> QED
    BY <1>1, RestTyped, CommitKeeps DEF ConfirmFinal

LEMMA ExpectRetryKeeps ==
  ASSUME ComposerInv, NEW s \in SegIds, ExpectRetry(s)
  PROVE  ComposerInv'
  <1> DEFINE job == [segs[s].expected EXCEPT !.att = 2]
             d == Expecting(Now, s, job)
  <1>1. job \in Jobs
    BY DEF ComposerInv, TypeOK, Segments, Jobs
  <1> HIDE DEF job
  <1>2. Steady(d, highWater) /\ WindowHolds(d)
    BY <1>1, NowKeeps, ExpectingSteady
  <1>3. Commit(d) /\ highWater' = highWater /\ pending' = pending
    BY DEF ExpectRetry, job
  <1> HIDE DEF d
  <1> QED
    BY <1>2, <1>3, RestTyped, CommitKeeps

LEMMA ForgetRetiredKeeps ==
  ASSUME ComposerInv, NEW s \in SegIds, ForgetRetired(s)
  PROVE  ComposerInv'
  <1> DEFINE S == [segs EXCEPT ![s] = Absent]
             d == DisplayOf(S, slot, window, config)
  <1>1. /\ segs \in [SegIds -> PagedSegments] /\ slot \in Slots /\ slot.key \in SegIds \cup {0}
        /\ window \in Seq(SegIds) /\ Len(window) <= MaxChunks /\ config \in Configs
    BY DEF ComposerInv, Steady, Typed, Display, DisplayOf, Slots
  <1>2. /\ S \in [SegIds -> PagedSegments] /\ S[s] = Absent
        /\ \A t \in SegIds \ {s} : S[t] = segs[t]
    BY <1>1, AbsentType
  <1>3. Absent.display = "Absent" /\ Absent.expected = NoJob
    BY DEF Absent
  <1>4. segs[s].display = "Retired" /\ slot.key # s /\ segs' = S
    BY DEF ForgetRetired
  <1> HIDE DEF S
  <1>5. d.segs = S /\ d.slot = slot /\ d.window = window /\ d.config = config
    BY DisplayFields
  <1>6. Typed(d)
    BY <1>1, <1>2, TypedDisplay
  <1> HIDE DEF d
  <1>7. /\ Display.segs = segs /\ Display.slot = slot /\ Display.window = window
        /\ Steady(Display, highWater) /\ WindowHolds(Display)
    BY DisplayFields DEF Display, ComposerInv
  <1>8. OwnsSlot(d)
    BY <1>1, <1>2, <1>3, <1>4, <1>5, <1>7 DEF Steady, OwnsSlot
  <1>9. AnchorsHold(d)
    BY <1>1, <1>2, <1>3, <1>4, <1>5, <1>7 DEF Steady, AnchorsHold, Waiting, With
  <1>10. LivesAllocated(d, highWater)
    BY <1>2, <1>3, <1>5, <1>7 DEF Steady, LivesAllocated, Lives
  <1>11. WaitingUnread(d)
    BY <1>2, <1>3, <1>5, <1>7 DEF Steady, WaitingUnread, Waiting, With
  <1>12. WindowHolds(d)
    BY <1>5, <1>7 DEF WindowHolds
  <1>13. Steady(d, highWater')
    BY <1>6, <1>8, <1>9, <1>10, <1>11 DEF Steady, ForgetRetired
  <1> QED
    BY <1>4, <1>5, <1>12, <1>13, RestTyped, WriteKeeps DEF ForgetRetired

\* What a registration comes to.
LEMMA RegisterCalls ==
  ASSUME ComposerInv, NEW fresh \in SUBSET {s \in SegIds : s > highWater}, NEW olds \in SUBSET Open,
         NEW revised \in {{}} \cup {{s} : s \in Open}, NEW final \in BOOLEAN,
         Register(fresh, olds, revised, final)
  PROVE  /\ olds \in SUBSET Live(Display) /\ fresh \in SUBSET SegIds
         /\ \E updated : \E revs :
               /\ \A s \in SegIds : s \in fresh \cup updated => revs[s] \in 0..MaxRevision
               /\ Commit(Registered(Now, fresh, [s \in SegIds |-> olds], updated, revs, final))
               /\ highWater' = UsedUp(Now, fresh, updated) /\ pending' = pending
  <1> DEFINE d == Now
             kept == Open \ olds
             updated == revised \cup (IF final THEN kept ELSE Moved(kept, fresh, olds))
             revs == [s \in SegIds |->
                        segs[s].expected.rev + (IF s \in fresh \cup revised THEN 1 ELSE 0)]
             all == [s \in SegIds |-> olds]
             r == Registered(d, fresh, all, updated, revs, final)
  <1>1. /\ fresh # {} => revised = {}
        /\ \A s \in revised : segs[s].expected.rev < MaxRevision
        /\ Commit(r) /\ highWater' = UsedUp(d, fresh, updated) /\ pending' = pending
    BY DEF Register
  <1>2. Open \subseteq Live(Display) /\ Open \subseteq SegIds
    BY DEF Open, Live
  <1>3. updated \subseteq SegIds
    BY <1>2 DEF Moved
  <1>4. /\ \A s \in SegIds : segs[s].expected.rev \in 0..MaxRevision
        /\ \A s \in fresh : segs[s].expected.rev = 0
    <2>1. \A s \in SegIds : segs[s].expected.rev \in 0..MaxRevision
      BY DEF ComposerInv, TypeOK, Segments, Jobs
    <2>2. ASSUME NEW s \in fresh PROVE segs[s].expected.rev = 0
      <3>1. s \in SegIds /\ s > highWater
        OBVIOUS
      <3>2. segs[s].display = "Absent"
        BY <3>1, NoId, RestTyped DEF ComposerInv, Steady, LivesAllocated, Display, DisplayOf
      <3>3. segs[s].expected = NoJob
        BY <3>1, <3>2 DEF ComposerInv, Steady, LivesAllocated, Lives, Display, DisplayOf
      <3> QED BY <3>3 DEF NoJob
    <2> QED BY <2>1, <2>2
  <1>5. \A s \in SegIds : s \in fresh \cup updated => revs[s] \in 0..MaxRevision
    <2>1. ASSUME NEW s \in SegIds PROVE revs[s] \in 0..MaxRevision
      <3>1. CASE s \in fresh
        BY <1>4, <3>1, LimitsAssumption
      <3>2. CASE s \in revised
        BY <1>1, <1>4, <3>2, LimitsAssumption
      <3>3. CASE s \notin fresh \cup revised
        BY <1>4, <3>3, LimitsAssumption
      <3> QED BY <3>1, <3>2, <3>3
    <2> QED BY <2>1
  <1>6. fresh \in SUBSET SegIds /\ olds \in SUBSET Live(Display)
    BY <1>2
  <1> HIDE DEF updated, revs
  <1> QED
    BY <1>1, <1>5, <1>6

LEMMA RegisterKeeps ==
  ASSUME ComposerInv, NEW fresh \in SUBSET {s \in SegIds : s > highWater}, NEW olds \in SUBSET Open,
         NEW revised \in {{}} \cup {{s} : s \in Open}, NEW final \in BOOLEAN,
         Register(fresh, olds, revised, final)
  PROVE  ComposerInv'
  <1>1. /\ olds \in SUBSET Live(Display) /\ fresh \in SUBSET SegIds
        /\ \E updated : \E revs :
              /\ \A s \in SegIds : s \in fresh \cup updated => revs[s] \in 0..MaxRevision
              /\ Commit(Registered(Now, fresh, [s \in SegIds |-> olds], updated, revs, final))
              /\ highWater' = UsedUp(Now, fresh, updated) /\ pending' = pending
    BY RegisterCalls
  <1>2. PICK updated, revs :
              /\ \A s \in SegIds : s \in fresh \cup updated => revs[s] \in 0..MaxRevision
              /\ Commit(Registered(Now, fresh, [s \in SegIds |-> olds], updated, revs, final))
              /\ highWater' = UsedUp(Now, fresh, updated) /\ pending' = pending
    BY <1>1
  <1> DEFINE r == Registered(Now, fresh, [s \in SegIds |-> olds], updated, revs, final)
  <1>3. Steady(r, UsedUp(Now, fresh, updated)) /\ WindowHolds(r)
    BY <1>1, <1>2, RegisteredKeeps
  <1>4. UsedUp(Now, fresh, updated) \in SegIds \cup {0}
    BY <1>1, RestTyped, UsedUpFacts
  <1>5. Commit(r)
    BY <1>2
  <1> HIDE DEF r
  <1> QED
    BY <1>2, <1>3, <1>4, <1>5, RestTyped, CommitKeeps

LEMMA CompleteKeeps ==
  ASSUME ComposerInv, NEW s \in SegIds, NEW job \in [rev : 1..MaxRevision, att : {1, 2}],
         NEW aligned, NEW pages \in Answers(s, job), Complete(s, job, pages, aligned)
  PROVE  ComposerInv'
  <1> DEFINE d == Answered(Now, s, job, pages, aligned)
  <1>1. job \in Jobs /\ pages \in 0..MaxPages
    BY LimitsAssumption DEF Jobs, Answers
  <1>2. Steady(Now, highWater) /\ WindowHolds(Now)
    BY NowKeeps
  <1>3. Steady(d, highWater) /\ WindowHolds(d)
    <2>1. CASE s \in Live(Now) /\ Accepts(Now.segs[s], job)
      BY <1>1, <1>2, <2>1, TakenSteady DEF Answered
    <2>2. CASE ~(s \in Live(Now) /\ Accepts(Now.segs[s], job))
      BY <1>2, <2>2 DEF Answered
    <2> QED BY <2>1, <2>2
  <1>4. Commit(d) /\ highWater' = highWater /\ pending' = pending
    BY DEF Complete
  <1> HIDE DEF d
  <1> QED
    BY <1>3, <1>4, RestTyped, CommitKeeps

LEMMA RetireKeeps ==
  ASSUME ComposerInv, NEW s \in SegIds, NEW reason, Retire(s, reason)
  PROVE  ComposerInv'
  <1> DEFINE d == RetireSegments(Now, {s}, reason)
  <1>1. Steady(d, highWater) /\ WindowHolds(d)
    BY NowKeeps, RetireSteady, RetiredFacts DEF Steady, WindowHolds
  <1>2. Commit(d) /\ highWater' = highWater /\ pending' = pending
    BY DEF Retire
  <1> HIDE DEF d
  <1> QED
    BY <1>1, <1>2, RestTyped, CommitKeeps

LEMMA LayoutsType ==
  ASSUME NEW c, NEW pages \in Layouts(c)
  PROVE  \A s \in SegIds : pages[s] \in 1..MaxPages
  BY LimitsAssumption DEF Layouts

LEMMA TickKeeps ==
  ASSUME ComposerInv, NEW pages \in Layouts(pending), NEW aligned, Tick(pages, aligned)
  PROVE  ComposerInv'
  <1> DEFINE new == IF pending = NoConfig THEN Now ELSE Reconfigured(Now, pending, pages)
             d == IF pending = NoConfig THEN Now ELSE Expire(new)
  <1>1. Steady(Now, highWater) /\ WindowHolds(Now)
    BY NowKeeps
  <1>2. Steady(new, highWater) /\ WindowHolds(new)
    BY <1>1, LayoutsType, RestTyped, ReconfiguredSteady
  <1>3. Steady(d, highWater) /\ WindowHolds(d)
    <2> HIDE DEF new
    <2> QED BY <1>1, <1>2, ExpireSteady
  <1>4. Commit(Rendered(d, aligned)) /\ highWater' = highWater /\ pending' = NoConfig
    BY DEF Tick, Now
  <1> HIDE DEF d
  <1>5. Steady(Rendered(d, aligned), highWater) /\ WindowHolds(Rendered(d, aligned))
    BY <1>3, RenderedSteady
  <1> QED
    BY <1>4, <1>5, RestTyped, CommitKeeps

LEMMA SetConfigKeeps ==
  ASSUME ComposerInv, NEW c \in Configs, NEW pages \in Layouts(c), SetConfig(c, pages)
  PROVE  ComposerInv'
  <1> DEFINE new == Reconfigured(Now, c, pages)
  <1>1. Steady(new, highWater) /\ WindowHolds(new)
    BY NowKeeps, LayoutsType, ReconfiguredSteady
  <1>2. Commit(Expire(new)) /\ highWater' = highWater /\ pending' = NoConfig
    BY DEF SetConfig, ApplyConfig
  <1> HIDE DEF new
  <1> QED
    BY <1>1, <1>2, ExpireSteady, RestTyped, CommitKeeps

LEMMA DeferConfigKeeps ==
  ASSUME ComposerInv, NEW c \in Configs, DeferConfig(c)
  PROVE  ComposerInv'
  <1>1. Steady(Display, highWater') /\ WindowHolds(Display)
    BY DEF ComposerInv, DeferConfig
  <1> QED
    BY <1>1, RestTyped, DisplayFields, WriteKeeps DEF DeferConfig, Display

LEMMA AgedSteady ==
  ASSUME NEW d, NEW h, Steady(d, h), WindowHolds(d)
  PROVE  LET e == Aged(d) IN
         Steady(e, h) /\ WindowHolds(e) /\ e.window = d.window /\ e.config = d.config
  <1> DEFINE S == [s \in SegIds |->
                     IF d.segs[s].display = "Waiting"
                     THEN [d.segs[s] EXCEPT !.age = Smaller(@ + 1, StaleAge)] ELSE d.segs[s]]
             sl == IF d.slot.key = 0 THEN d.slot ELSE Older(d.slot)
             e == Aged(d)
  <1>1. d.segs \in [SegIds -> PagedSegments] /\ d.slot \in Slots /\ Typed(d)
    BY DEF Steady, Typed
  <1>2. ASSUME NEW s \in SegIds
        PROVE  /\ S[s] \in PagedSegments
               /\ S[s].display = d.segs[s].display /\ S[s].anchor = d.segs[s].anchor
               /\ S[s].index = d.segs[s].index /\ S[s].ambiguous = d.segs[s].ambiguous
               /\ S[s].expected = d.segs[s].expected /\ S[s].left = d.segs[s].left
    <2>1. d.segs[s] \in Segments /\ PagesFit(d.segs[s])
      BY <1>1 DEF PagedSegments
    <2>2. Smaller(d.segs[s].age + 1, StaleAge) \in 0..StaleAge
      BY <2>1, LimitsAssumption DEF Segments, Smaller
    <2> DEFINE aged == [d.segs[s] EXCEPT !.age = Smaller(@ + 1, StaleAge)]
    <2>3. /\ aged \in Segments
          /\ aged.display = d.segs[s].display /\ aged.anchor = d.segs[s].anchor
          /\ aged.index = d.segs[s].index /\ aged.ambiguous = d.segs[s].ambiguous
          /\ aged.expected = d.segs[s].expected /\ aged.left = d.segs[s].left
      BY <2>1, <2>2 DEF Segments
    <2> HIDE DEF aged
    <2>4. PagesFit(aged)
      BY <2>1, <2>3 DEF PagesFit
    <2>5. S[s] = IF d.segs[s].display = "Waiting" THEN aged ELSE d.segs[s]
      BY DEF aged
    <2> QED BY <2>1, <2>3, <2>4, <2>5 DEF PagedSegments
  <1>3. S \in [SegIds -> PagedSegments]
    <2>1. \A s \in SegIds : S[s] \in PagedSegments
      BY <1>2
    <2> QED BY <2>1
  <1>4. sl \in Slots /\ sl.key = d.slot.key /\ sl.placeholder = d.slot.placeholder
    <2>1. /\ Smaller(d.slot.page + 1, MinPage) \in 0..MinPage
          /\ Smaller(d.slot.hold + 1, MaxHold) \in 0..MaxHold
          /\ Smaller(d.slot.life + 1, Lifetime) \in 0..Lifetime
      BY <1>1, LimitsAssumption, MaxHoldType DEF Slots, Smaller
    <2> QED BY <1>1, <2>1 DEF Older, Slots
  <1>5. e = [d EXCEPT !.segs = S, !.slot = sl]
    BY DEF Aged
  <1> HIDE DEF S, sl, e
  <1>6. /\ e.segs = S /\ e.slot = sl /\ e.window = d.window /\ e.config = d.config
        /\ Typed(e)
    BY <1>1, <1>3, <1>4, <1>5 DEF Typed
  <1>7. Steady(e, h)
    BY <1>2, <1>4, <1>6, AlikeSteady
  <1>8. WindowHolds(e)
    BY <1>4, <1>6 DEF WindowHolds
  <1> QED
    BY <1>6, <1>7, <1>8 DEF e

LEMMA AdvanceKeeps ==
  ASSUME ComposerInv, Advance
  PROVE  ComposerInv'
  <1> DEFINE d == Aged(Display)
  <1>1. Steady(d, highWater) /\ WindowHolds(d) /\ d.window = window /\ d.config = config
    BY AgedSteady, DisplayFields DEF ComposerInv, Display
  <1>2. segs' = d.segs /\ slot' = d.slot
    BY DEF Advance
  <1> HIDE DEF d
  <1> QED
    BY <1>1, <1>2, RestTyped, WriteKeeps DEF Advance

-----------------------------------------------------------------------------
(* The theorems. *)

(* The state the composer is created in satisfies the inductive invariant. *)
THEOREM InitKeeps == Init => ComposerInv
  <1> SUFFICES ASSUME Init PROVE ComposerInv
    OBVIOUS
  <1>1. config \in Configs /\ pending \in Configs \cup {NoConfig} /\ highWater \in SegIds \cup {0}
    BY DEF Init
  <1>2. Steady(Display, highWater) /\ WindowHolds(Display)
    BY <1>1, EmptySteady DEF Init, Display
  <1>3. TypeOK
    BY <1>1, <1>2 DEF Steady, Typed, TypeOK, Display, DisplayOf, PagedSegments
  <1> QED
    BY <1>2, <1>3 DEF ComposerInv

(* Every operation of the composer keeps the inductive invariant. *)
THEOREM StepKeeps == ComposerInv /\ [Next]_vars => ComposerInv'
  <1> SUFFICES ASSUME ComposerInv, [Next]_vars PROVE ComposerInv'
    OBVIOUS
  <1>1. CASE UNCHANGED vars
    <2>1. Steady(Display, highWater') /\ WindowHolds(Display)
      BY <1>1 DEF ComposerInv, vars
    <2> QED
      BY <1>1, <2>1, RestTyped, DisplayFields, WriteKeeps DEF vars, Display
  <1>2. CASE ResetGeneration
    BY <1>2, ResetGenerationKeeps
  <1>3. ASSUME NEW s \in SegIds, ConfirmFinal(s) \/ ExpectRetry(s) \/ ForgetRetired(s)
        PROVE  ComposerInv'
    BY <1>3, ConfirmFinalKeeps, ExpectRetryKeeps, ForgetRetiredKeeps
  <1>4. ASSUME NEW fresh \in SUBSET {s \in SegIds : s > highWater}, NEW olds \in SUBSET Open,
               NEW revised \in {{}} \cup {{s} : s \in Open}, NEW final \in BOOLEAN,
               Register(fresh, olds, revised, final)
        PROVE  ComposerInv'
    BY <1>4, RegisterKeeps
  <1>5. ASSUME NEW s \in SegIds, NEW job \in [rev : 1..MaxRevision, att : {1, 2}],
               NEW aligned \in Alignments, NEW pages \in Answers(s, job),
               Complete(s, job, pages, aligned)
        PROVE  ComposerInv'
    BY <1>5, CompleteKeeps
  <1>6. ASSUME NEW s \in SegIds, NEW reason, Retire(s, reason) PROVE ComposerInv'
    BY <1>6, RetireKeeps
  <1>7. ASSUME NEW pages \in Layouts(pending), NEW aligned \in Alignments, Tick(pages, aligned)
        PROVE  ComposerInv'
    BY <1>7, TickKeeps
  <1>8. ASSUME NEW c \in Configs, NEW pages \in Layouts(c), SetConfig(c, pages) PROVE ComposerInv'
    BY <1>8, SetConfigKeeps
  <1>9. ASSUME NEW c \in Configs, DeferConfig(c) PROVE ComposerInv'
    BY <1>9, DeferConfigKeeps
  <1>10. CASE Advance
    BY <1>10, AdvanceKeeps
  <1> QED
    BY <1>1, <1>2, <1>3, <1>4, <1>5, <1>6, <1>7, <1>8, <1>9, <1>10 DEF Next, Ticks

(* The inductive invariant of the composer: see its parts above. *)
THEOREM ComposerCorrect == Spec => []ComposerInv
  BY InitKeeps, StepKeeps, PTL DEF Spec

(* Every variable keeps its type; the window never holds more than kMaxWindowChunks. *)
THEOREM TypeCorrect == Spec => []TypeOK
  <1>1. ComposerInv => TypeOK
    BY DEF ComposerInv
  <1> QED
    BY ComposerCorrect, <1>1, PTL

(* The visible segment is the one that owns the display slot, it has a page there, and
   the owner of the slot is never forgotten (retire_segment, clear_slot, enter). *)
THEOREM OneCaptionOnDisplay == Spec => []DisplayOwnsSlot
  <1>1. ComposerInv => DisplayOwnsSlot
    BY DEF ComposerInv, Steady, OwnsSlot, DisplayOwnsSlot, Display, DisplayOf
  <1> QED
    BY ComposerCorrect, <1>1, PTL

(* No replacement is left waiting for a text that is no longer on display
   (AnchorFor in register_batch, clear_slot, inherit). *)
THEOREM NoReplacementIsLost == Spec => []ReplacementsAnchored
  <1>1. ComposerInv => ReplacementsAnchored
    BY DEF ComposerInv, Steady, AnchorsHold, ReplacementsAnchored, Display, DisplayOf
  <1> QED
    BY ComposerCorrect, <1>1, PTL

(* The rolling window ends with the text on display and is empty without one. *)
THEOREM WindowAgreesWithSlot == Spec => []WindowFollowsSlot
  <1>1. ComposerInv => WindowFollowsSlot
    BY DEF ComposerInv, WindowHolds, WindowFollowsSlot, Display, DisplayOf
  <1> QED
    BY ComposerCorrect, <1>1, PTL
=============================================================================
