---------------------- MODULE TranslationSchedulerSteps ----------------------
(* More about TranslationScheduler for every value of its constants: the limits of *)
(* queue, waiting segments and metadata hold, no segment is left without work or a *)
(* text, no text and no segment comes back, and no retry pushes ahead.             *)
EXTENDS TranslationSchedulerProofs

-----------------------------------------------------------------------------
(* QueuesBounded.  enforce_limits stops when the limits hold, or when no segment   *)
(* waits any more; in the second case only the visible segment's job is left.      *)

Limits(p) ==
    /\ IsFiniteSet(p.queue)
    /\ IsFiniteSet(Managed(p)) /\ Cardinality(Managed(p)) <= MaxManaged
    /\ Waiting(p) = {} \/ WithinLimits(p)

(* q has nothing in a bounded container that p has not. *)
Shrinks(p, q) ==
    /\ q.queue \subseteq p.queue
    /\ Waiting(q) \subseteq Waiting(p)
    /\ Managed(q) \subseteq Managed(p)

LEMMA WaitingManaged ==
  ASSUME NEW p
  PROVE  Waiting(p) \subseteq Managed(p)
  BY DEF Waiting, Managed, WithDisplay

LEMMA ShrinkLimits ==
  ASSUME NEW p, NEW q, Limits(p), Shrinks(p, q)
  PROVE  Limits(q)
  <1>1. IsFiniteSet(q.queue) /\ Cardinality(q.queue) <= Cardinality(p.queue)
    BY FS_Subset DEF Limits, Shrinks
  <1>2. IsFiniteSet(Managed(q)) /\ Cardinality(Managed(q)) <= Cardinality(Managed(p))
    BY FS_Subset DEF Limits, Shrinks
  <1>3. IsFiniteSet(Waiting(p)) /\ Cardinality(Waiting(q)) <= Cardinality(Waiting(p))
    BY FS_Subset, WaitingManaged DEF Limits, Shrinks
  <1>4. /\ Cardinality(q.queue) \in Nat /\ Cardinality(p.queue) \in Nat
        /\ Cardinality(Managed(q)) \in Nat /\ Cardinality(Managed(p)) \in Nat
        /\ Cardinality(Waiting(q)) \in Nat /\ Cardinality(Waiting(p)) \in Nat
    BY <1>1, <1>2, <1>3, FS_Subset, FS_CardinalityType, WaitingManaged DEF Limits, Shrinks
  <1> QED
    BY <1>1, <1>2, <1>3, <1>4, LimitsAssumption DEF Limits, Shrinks, WithinLimits

LEMMA ShrinksFurther ==
  ASSUME NEW p, NEW q, NEW r, Shrinks(p, q), Shrinks(q, r)
  PROVE  Shrinks(p, r)
  BY DEF Shrinks

LEMMA RetiredSegments ==
  ASSUME NEW p, NEW S
  PROVE  /\ \A s \in SegIds : RetireSegments(p, S).segs[s] =
                IF s \in S \cap Live(p) THEN Tombstone ELSE p.segs[s]
         /\ RetireSegments(p, S).queue \subseteq p.queue
  BY DEF RetireSegments, CancelRunning, CancelIds, PoolOf

LEMMA RetireShrinks ==
  ASSUME NEW p, NEW S
  PROVE  Shrinks(p, RetireSegments(p, S))
  <1> DEFINE r == RetireSegments(p, S)
             R == S \cap Live(p)
  <1>1. /\ \A s \in SegIds : r.segs[s] = IF s \in R THEN Tombstone ELSE p.segs[s]
        /\ r.queue \subseteq p.queue
    BY RetiredSegments
  <1> HIDE DEF r
  <1>2. \A s \in SegIds : \/ r.segs[s].display = p.segs[s].display
                          \/ r.segs[s].display = "Retired" /\ s \in Live(p)
    BY <1>1, TombstoneType
  <1>3. Waiting(r) \subseteq Waiting(p)
    BY <1>2 DEF Waiting, WithDisplay
  <1>4. Managed(r) \subseteq Managed(p)
    BY <1>2 DEF Managed, Live, WithDisplay
  <1>5. Shrinks(p, r)
    BY <1>1, <1>3, <1>4 DEF Shrinks
  <1> QED
    BY <1>5 DEF r

LEMMA ShapeShrinks ==
  ASSUME NEW p, NEW q, SameShape(p, q), q.queue \subseteq p.queue
  PROVE  Shrinks(p, q)
  BY DEF Shrinks, SameShape, Waiting, Managed, WithDisplay

LEMMA DisplaysShrink ==
  ASSUME NEW p, NEW q, q.queue \subseteq p.queue,
         \A s \in SegIds : q.segs[s].display = p.segs[s].display
  PROVE  Shrinks(p, q)
  BY DEF Shrinks, Waiting, Managed, WithDisplay

LEMMA SetShrinks ==
  ASSUME NEW p, PoolTyped(p), NEW s \in SegIds, NEW seg, seg.display = p.segs[s].display
  PROVE  Shrinks(p, SetSegment(p, s, seg))
  <1>1. /\ SetSegment(p, s, seg).queue = p.queue
        /\ SetSegment(p, s, seg).segs = [p.segs EXCEPT ![s] = seg]
    BY DEF SetSegment, PoolOf
  <1> QED
    BY <1>1, DisplaysShrink DEF PoolTyped

LEMMA DropShrinks ==
  ASSUME NEW p, PoolTyped(p), NEW J
  PROVE  Shrinks(p, DropRetries(p, J))
  BY DropShape, ShapeShrinks

LEMMA TickShrinks ==
  ASSUME PoolTyped(Pool)
  PROVE  Shrinks(Pool, Ticked)
  BY RetireTyped, RetireShrinks, DropShrinks, ShrinksFurther DEF Ticked, TickedPool, ExpireRetries

LEMMA EnforceEnforces ==
  ASSUME NEW p, PoolTyped(p), NEW e \in EnforceLimits(p)
  PROVE  Shrinks(p, e) /\ (Waiting(e) = {} \/ WithinLimits(e))
  <1> DEFINE d == IF Cardinality(p.queue) > MaxQueued THEN DropRetries(p, Retries(p.queue)) ELSE p
  <1>1. Shrinks(p, d)
    BY DropShrinks DEF Shrinks
  <1>2. PICK P : /\ e = RetireSegments(d, P)
                 /\ P = Waiting(d) \/ WithinLimits(e)
    <2> DEFINE Prefixes == {P \in SUBSET Waiting(d) :
                               \A x \in P, y \in Waiting(d) : Older(d, y, x) => y \in P}
               Stops(P) == P = Waiting(d) \/ WithinLimits(RetireSegments(d, P))
    <2>1. e \in {RetireSegments(d, P) : P \in
                   {P \in Prefixes : Stops(P) /\ \A Q \in Prefixes : Stops(Q) => P \subseteq Q}}
      BY DEF EnforceLimits
    <2> HIDE DEF d, Prefixes
    <2> QED
      BY <2>1
  <1>3. Shrinks(d, e)
    BY <1>2, RetireShrinks
  <1>4. P = Waiting(d) => Waiting(e) = {}
    <2> SUFFICES ASSUME P = Waiting(d) PROVE Waiting(e) = {}
      OBVIOUS
    <2>1. \A s \in SegIds : RetireSegments(d, P).segs[s] = IF s \in P \cap Live(d) THEN Tombstone ELSE d.segs[s]
      BY RetiredSegments
    <2> HIDE DEF d
    <2>2. \A s \in SegIds : e.segs[s] = IF s \in P \cap Live(d) THEN Tombstone ELSE d.segs[s]
      BY <1>2, <2>1
    <2>3. \A s \in SegIds : d.segs[s].display = "Waiting" => s \in P \cap Live(d)
      BY DEF Waiting, Live, WithDisplay
    <2>4. \A s \in SegIds : e.segs[s].display # "Waiting"
      BY <2>2, <2>3, TombstoneType
    <2> QED
      BY <2>4 DEF Waiting, WithDisplay
  <1> QED
    BY <1>1, <1>2, <1>3, <1>4, ShrinksFurther

LEMMA EnqueueLimits ==
  ASSUME NEW p, PoolTyped(p), NEW s \in Live(p), NEW kind \in Kinds,
         generation \in 0..MaxGeneration, NEW e \in Enqueue(p, s, kind),
         IsFiniteSet(p.queue), IsFiniteSet(Managed(p)), Cardinality(Managed(p)) <= MaxManaged
  PROVE  Limits(e)
  <1> DEFINE old == QueuedFor(p.queue, {s})
             f == IF kind = "QualityRetry" THEN p ELSE DropRetries(p, Retries(old))
             c == CancelRunning(Unqueue(f, old), {s})
             job == [id |-> CurrentJob(p, s), kind |-> kind]
             seg == [c.segs[s] EXCEPT !.processed = FALSE]
             n == SetSegment(Push(c, job), s, seg)
  <1>1. PoolTyped(f) /\ Shrinks(p, f) /\ Live(f) = Live(p)
    BY DropTyped, DropShrinks DEF Shrinks
  <1>2. PoolTyped(c) /\ c.segs = f.segs /\ c.queue \subseteq f.queue
    <2> HIDE DEF f
    <2>1. PoolTyped(c)
      BY <1>1, UnqueueTyped, CancelTyped DEF CancelRunning
    <2> QED
      BY <2>1 DEF CancelRunning, CancelIds, Unqueue, PoolOf
  <1>3. s \in SegIds /\ c.segs[s] \in Segments /\ seg.display = c.segs[s].display
    <2>1. s \in SegIds
      BY DEF Live, WithDisplay
    <2>2. c.segs[s] \in Segments
      BY <1>2, <2>1 DEF PoolTyped
    <2> HIDE DEF c
    <2> QED
      BY <2>1, <2>2 DEF Segments
  <1>4. /\ n.queue \subseteq p.queue \cup {job}
        /\ \A x \in SegIds : n.segs[x].display = f.segs[x].display
    <2> HIDE DEF f, job, seg
    <2> QED
      BY <1>1, <1>2, <1>3 DEF n, c, SetSegment, Push, PoolOf, Shrinks, PoolTyped
  <1>5. Managed(n) \subseteq Managed(p)
    <2>1. Managed(n) = Managed(f)
      BY <1>4 DEF Managed, WithDisplay
    <2> QED
      BY <2>1, <1>1 DEF Shrinks
  <1>6. PoolTyped(n)
    <2>1. job \in Jobs
      BY CurrentJobType DEF Jobs
    <2>2. PoolTyped(Push(c, job)) /\ Push(c, job).segs = c.segs
      BY <1>2, <2>1, PushTyped DEF Push, PoolOf
    <2>3. seg \in Segments /\ seg.rev = c.segs[s].rev /\ seg.att = c.segs[s].att
      BY <1>3 DEF Segments
    <2>4. generation > 0 /\ seg.rev \in Revisions /\ seg.att \in {1, 2}
      BY <1>1, <1>2, <2>3 DEF PoolTyped, LiveTyped
    <2> QED
      BY <2>2, <2>3, <2>4, <1>3, SetTyped
  <1>7. Shrinks(n, e) /\ (Waiting(e) = {} \/ WithinLimits(e))
    BY <1>6, EnforceEnforces DEF Enqueue
  <1> HIDE DEF n
  <1>8. IsFiniteSet(e.queue)
    <2>1. IsFiniteSet(p.queue \cup {job})
      BY FS_AddElement
    <2> QED
      BY <2>1, <1>4, <1>7, FS_Subset DEF Shrinks
  <1>9. IsFiniteSet(Managed(e)) /\ Cardinality(Managed(e)) <= MaxManaged
    <2>1. Managed(e) \subseteq Managed(p)
      BY <1>5, <1>7 DEF Shrinks
    <2>2. /\ IsFiniteSet(Managed(e)) /\ Cardinality(Managed(e)) <= Cardinality(Managed(p))
          /\ Cardinality(Managed(e)) \in Nat /\ Cardinality(Managed(p)) \in Nat
      BY <2>1, FS_Subset, FS_CardinalityType
    <2> QED
      BY <2>2, LimitsAssumption
  <1> QED
    BY <1>7, <1>8, <1>9 DEF Limits

LEMMA CommitLimits ==
  ASSUME NEW p, Limits(p), Commit(p)
  PROVE  Limits(Pool)'
  BY DEF Limits, WithinLimits, Commit, Pool, PoolOf, Waiting, Managed, WithDisplay

(* Most calls only take out of the containers. *)
LEMMA CommitShrunk ==
  ASSUME CoreInv, Limits(Pool), NEW p, Shrinks(Pool, p) \/ Shrinks(Ticked, p), Commit(p)
  PROVE  Limits(Pool)'
  <1>1. Shrinks(Pool, p)
    BY PoolTypedNow, TickShrinks, ShrinksFurther DEF CoreInv
  <1> QED
    BY <1>1, ShrinkLimits, CommitLimits

LEMMA RegisterLimits ==
  ASSUME CoreInv, Limits(Pool), NEW s \in SegIds, NEW r \in Revisions, NEW o \in Orders,
         NEW replaces \in SUBSET SegIds, RegisterRevision(s, r, o, replaces)
  PROVE  Limits(Pool)'
  <1> DEFINE t == Ticked
             fresh == t.segs[s].display = "Absent"
             base == IF fresh THEN NewSegment ELSE t.segs[s]
             seg == Revised(base, r, o)
             n == SetSegment(t, s, seg)
             p == RetireSegments(n, replaces \ {s})
             kind == IF fresh THEN "Initial" ELSE "SourceUpdate"
  <1>1. PoolTyped(t) /\ Limits(t) /\ generation \in 0..MaxGeneration
    BY PoolTypedNow, TickTyped, TickShrinks, ShrinkLimits DEF CoreInv, TypeInv, TypeOK
  <1>2. /\ generation > 0
        /\ s \in Live(t) \/ fresh
        /\ fresh => Cardinality(Managed(t)) < MaxManaged
    BY DEF RegisterRevision, Registered, Acceptable
  <1>3. NewSegment \in Segments /\ NewSegment.display = "Waiting"
    BY AbsentType DEF NewSegment, Segments, Displays
  <1>4. base \in Segments /\ base.display \in {"Waiting", "Visible"}
    BY <1>1, <1>2, <1>3 DEF PoolTyped, Live, WithDisplay
  <1>5. seg \in Segments /\ seg.display = base.display /\ seg.rev = r /\ seg.att = 1
    BY <1>4 DEF Revised, Segments
  <1>6. n.segs = [t.segs EXCEPT ![s] = seg] /\ n.queue = t.queue /\ PoolTyped(n)
    BY <1>1, <1>2, <1>5, SetTyped DEF SetSegment, PoolOf
  <1>7. PICK e \in Enqueue(p, s, kind) : Commit(e)
    BY DEF RegisterRevision, Registered
  <1> HIDE DEF t, base, seg, n
  <1>8. n.segs[s] = seg /\ s \in Live(n) /\ \A x \in SegIds \ {s} : n.segs[x] = t.segs[x]
    BY <1>1, <1>4, <1>5, <1>6 DEF PoolTyped, Live, WithDisplay
  <1>9. IsFiniteSet(n.queue) /\ IsFiniteSet(Managed(n)) /\ Cardinality(Managed(n)) <= MaxManaged
    <2>1. Managed(n) = Managed(t) \cup {s} /\ (~fresh => s \in Managed(t))
      BY <1>2, <1>4, <1>5, <1>8 DEF Managed, Live, WithDisplay
    <2>2. s \in Managed(t) => Managed(n) = Managed(t)
      BY <2>1
    <2>3. IsFiniteSet(t.queue) /\ IsFiniteSet(Managed(t)) /\ Cardinality(Managed(t)) <= MaxManaged
      BY <1>1 DEF Limits
    <2>4. CASE s \in Managed(t)
      BY <1>6, <2>2, <2>3, <2>4
    <2>5. CASE s \notin Managed(t)
      <3>1. Cardinality(Managed(t)) < MaxManaged /\ Cardinality(Managed(t)) \in Nat
        BY <1>2, <2>1, <2>3, <2>5, FS_CardinalityType
      <3>2. /\ IsFiniteSet(Managed(t) \cup {s})
            /\ Cardinality(Managed(t) \cup {s}) = Cardinality(Managed(t)) + 1
        BY <2>3, <2>5, FS_AddElement
      <3>3. Cardinality(Managed(n)) <= MaxManaged
        BY <2>1, <3>1, <3>2, LimitsAssumption
      <3> QED
        BY <1>6, <2>1, <2>3, <3>2, <3>3
    <2> QED
      BY <2>4, <2>5
  <1>10. PoolTyped(p) /\ Shrinks(n, p)
    BY <1>6, RetireTyped, RetireShrinks
  <1>11. s \in Live(p)
    <2>1. p.segs[s] = n.segs[s]
      BY DEF RetireSegments, CancelRunning, CancelIds, PoolOf
    <2> QED
      BY <2>1, <1>8 DEF Live, WithDisplay
  <1> HIDE DEF p
  <1>12. IsFiniteSet(p.queue) /\ IsFiniteSet(Managed(p)) /\ Cardinality(Managed(p)) <= MaxManaged
    <2>1. /\ IsFiniteSet(Managed(p)) /\ Cardinality(Managed(p)) <= Cardinality(Managed(n))
          /\ Cardinality(Managed(p)) \in Nat /\ Cardinality(Managed(n)) \in Nat
      BY <1>9, <1>10, FS_Subset, FS_CardinalityType DEF Shrinks
    <2> QED
      BY <1>9, <1>10, <2>1, FS_Subset, LimitsAssumption DEF Shrinks
  <1>13. kind \in Kinds
    BY DEF Kinds
  <1> HIDE DEF kind
  <1>14. Limits(e)
    BY <1>1, <1>7, <1>10, <1>11, <1>12, <1>13, EnqueueLimits
  <1> QED
    BY <1>7, <1>14, CommitLimits

LEMMA RetryLimits ==
  ASSUME CoreInv, Limits(Pool), NEW s \in SegIds, NEW page \in Pages \cup {0},
         NEW left \in Lifetimes \cup {NoDeadline}, RequestQualityRetry(s, page, left)
  PROVE  Limits(Pool)'
  <1> DEFINE t == Ticked
             seg == [t.segs[s] EXCEPT !.page = IF page # 0 THEN page ELSE @,
                                      !.left = IF left # NoDeadline THEN left ELSE @]
             sp == Spent(seg)
             re == [sp EXCEPT !.att = 2]
             n == SetSegment(t, s, re)
  <1>1. PoolTyped(Pool) /\ PoolTyped(t) /\ Limits(t) /\ generation \in 0..MaxGeneration
    BY PoolTypedNow, TickTyped, TickShrinks, ShrinkLimits DEF CoreInv, TypeInv, TypeOK
  <1>2. segs[s].display = "Visible" /\ segs[s].att = 1
    BY DEF RequestQualityRetry, MayRetry
  <1>3. s \in Live(t) /\ t.segs[s].display = "Visible" /\ t.segs[s] \in Segments
    BY <1>1, <1>2, TickKeepsVisible DEF PoolTyped
  <1>4. seg \in Segments /\ seg.display = "Visible" /\ seg.rev = t.segs[s].rev
    <2>1. left \in Nat \cup {NoDeadline} /\ page \in Pages \cup {0}
      BY IdsAssumption
    <2> QED
      BY <1>3, <2>1 DEF Segments
  <1> HIDE DEF seg
  <1>5. /\ sp \in Segments /\ sp.display = "Visible" /\ sp.rev = t.segs[s].rev
        /\ Spent(t.segs[s]).display = "Visible"
    BY <1>3, <1>4, SpentType
  <1> HIDE DEF sp
  <1>6. re \in Segments /\ re.display = "Visible" /\ re.rev = t.segs[s].rev /\ re.att = 2
    BY <1>5 DEF Segments
  <1> HIDE DEF re, t
  <1>7. /\ Limits(SetSegment(t, s, sp)) /\ Limits(SetSegment(t, s, Spent(t.segs[s])))
        /\ Limits(n)
    BY <1>1, <1>3, <1>5, <1>6, SetShrinks, ShrinkLimits
  <1>8. PoolTyped(n) /\ s \in Live(n)
    <2>1. generation > 0 /\ re.rev \in Revisions
      BY <1>1, <1>3, <1>6 DEF PoolTyped, LiveTyped
    <2> QED
      BY <1>1, <1>6, <2>1, SetTyped DEF SetSegment, PoolOf, PoolTyped, Live, WithDisplay
  <1> HIDE DEF n
  <1>9. \A e \in Enqueue(n, s, "QualityRetry") : Limits(e)
    BY <1>1, <1>7, <1>8, EnqueueLimits DEF Limits, Kinds
  <1>10. PICK e : Limits(e) /\ Commit(e)
    BY <1>7, <1>9 DEF RequestQualityRetry, Requested, n, re, sp, seg, t
  <1> QED
    BY <1>10, CommitLimits

LEMMA CompleteLimits ==
  ASSUME CoreInv, Limits(Pool), NEW id \in running, NEW ok \in BOOLEAN, Complete(id, ok)
  PROVE  Limits(Pool)'
  <1> DEFINE t == Ticked
             a == [t.segs[id.seg] EXCEPT !.processed = TRUE]
             b == [t.segs[id.seg] EXCEPT !.processed = TRUE, !.text = [rev |-> id.rev, att |-> id.att]]
  <1>1. PoolTyped(t)
    BY PoolTypedNow, TickTyped DEF CoreInv
  <1>2. id.seg \in SegIds
    BY DEF CoreInv, TypeInv, TypeOK, JobIds
  <1>3. t.segs[id.seg] \in Segments
    BY <1>1, <1>2 DEF PoolTyped
  <1>4. a.display = t.segs[id.seg].display /\ b.display = t.segs[id.seg].display
    BY <1>3 DEF Segments
  <1>5. PICK p : /\ Commit(PoolOf(p.segs, p.queue, p.cancelled \ {id}))
                 /\ \/ p = t \/ p = SetSegment(t, id.seg, a) \/ p = SetSegment(t, id.seg, b)
                    \/ p = RetireSegments(SetSegment(t, id.seg, a), {id.seg})
    BY DEF Complete, Answered
  <1> HIDE DEF t, a, b
  <1>6. Shrinks(t, p)
    <2>1. Shrinks(t, t)
      BY DEF Shrinks
    <2>2. Shrinks(t, SetSegment(t, id.seg, a)) /\ Shrinks(t, SetSegment(t, id.seg, b))
      BY <1>1, <1>2, <1>4, SetShrinks
    <2> QED
      BY <1>5, <2>1, <2>2, RetireShrinks, ShrinksFurther
  <1>7. Shrinks(t, PoolOf(p.segs, p.queue, p.cancelled \ {id}))
    BY <1>6 DEF Shrinks, PoolOf, Waiting, Managed, WithDisplay
  <1> QED
    BY <1>5, <1>7, CommitShrunk DEF t

LEMMA VisibleLimits ==
  ASSUME CoreInv, Limits(Pool), NEW s \in SegIds, MarkVisible(s)
  PROVE  Limits(Pool)'
  <1> DEFINE t == Ticked
             seg == [t.segs[s] EXCEPT !.display = "Visible"]
             n == SetSegment(t, s, seg)
  <1>1. PoolTyped(t)
    BY PoolTypedNow, TickTyped DEF CoreInv
  <1>2. s \in Live(t) /\ Commit(n)
    BY DEF MarkVisible, MayShow, MarkedVisible
  <1>3. seg.display = "Visible"
    BY <1>1 DEF PoolTyped, Segments
  <1>4. n.segs = [t.segs EXCEPT ![s] = seg] /\ n.queue = t.queue
    BY DEF SetSegment, PoolOf
  <1> HIDE DEF t, seg, n
  <1>5. n.segs[s] = seg /\ \A x \in SegIds \ {s} : n.segs[x] = t.segs[x]
    BY <1>1, <1>4 DEF PoolTyped
  <1>6. Shrinks(t, n)
    BY <1>2, <1>3, <1>4, <1>5 DEF Shrinks, Waiting, Managed, Live, WithDisplay
  <1> QED
    BY <1>2, <1>6, CommitShrunk DEF t

LEMMA ForgetLimits ==
  ASSUME CoreInv, Limits(Pool), NEW s \in SegIds, ForgetRetired(s)
  PROVE  Limits(Pool)'
  <1> DEFINE n == PoolOf([segs EXCEPT ![s] = Absent], queue, cancelled)
  <1>1. Commit(n)
    BY DEF ForgetRetired, Commit, PoolOf
  <1>2. \A x \in SegIds : n.segs[x] = IF x = s THEN Absent ELSE Pool.segs[x]
    BY DEF CoreInv, TypeInv, TypeOK, Pool, PoolOf
  <1>3. n.queue = Pool.queue
    BY DEF Pool, PoolOf
  <1> HIDE DEF n
  <1>4. Shrinks(Pool, n)
    BY <1>2, <1>3, AbsentType DEF Shrinks, Waiting, Managed, WithDisplay
  <1> QED
    BY <1>1, <1>4, CommitShrunk

LEMMA SettingLimits ==
  ASSUME CoreInv, Limits(Pool), NEW on \in BOOLEAN, SetQualityRetry(on)
  PROVE  Limits(Pool)'
  <1> DEFINE t == Ticked
             Off(x) == [x EXCEPT !.consumed = @ \/ x.suspected \/ x.pending, !.pending = FALSE]
             off == [s \in SegIds |-> Off(t.segs[s])]
             p == PoolOf(off, t.queue, t.cancelled)
             d == DropRetries(p, Retries(t.queue))
  <1>1. PoolTyped(t) /\ Shrinks(t, t)
    BY PoolTypedNow, TickTyped DEF CoreInv, Shrinks
  <1>2. \A x \in Segments : Off(x) \in Segments /\ Off(x).display = x.display
    <2>1. \A x \in Segments : (x.consumed \/ x.suspected \/ x.pending) \in BOOLEAN
      BY DEF Segments
    <2>2. \A x \in Segments, c \in BOOLEAN :
             LET y == [x EXCEPT !.consumed = c, !.pending = FALSE]
             IN  y \in Segments /\ y.display = x.display
      BY DEF Segments
    <2> QED
      BY <2>1, <2>2
  <1>3. \A s \in SegIds : p.segs[s] \in Segments /\ p.segs[s].display = t.segs[s].display
    BY <1>1, <1>2 DEF PoolTyped, PoolOf
  <1>4. p.queue = t.queue
    BY DEF PoolOf
  <1>5. PICK q : Commit(q) /\ (q = t \/ q = CancelIds(d, {id \in running : IsRetryId(id)}))
    BY DEF SetQualityRetry, WithoutRetries
  <1> HIDE DEF t, Off, off, p
  <1>6. d.queue \subseteq p.queue /\ \A s \in SegIds : d.segs[s].display = p.segs[s].display
    BY <1>3, SpentType DEF DropRetries, PoolOf
  <1> HIDE DEF d
  <1>7. Shrinks(t, CancelIds(d, {id \in running : IsRetryId(id)}))
    BY <1>3, <1>4, <1>6 DEF Shrinks, CancelIds, PoolOf, Waiting, Managed, WithDisplay
  <1> QED
    BY <1>1, <1>5, <1>7, CommitShrunk DEF t

LEMMA JudgementLimits ==
  ASSUME CoreInv, Limits(Pool), NEW s \in SegIds, NEW suspected \in Verdicts,
         NEW eligible \in BOOLEAN, SetQualityJudgement(s, suspected, eligible)
  PROVE  Limits(Pool)'
  <1> DEFINE seg == Judged(segs[s], suspected, eligible)
             n == SetSegment(Pool, s, seg)
  <1>1. PoolTyped(Pool) /\ segs[s] \in Segments
    BY PoolTypedNow DEF CoreInv, TypeInv, TypeOK
  <1>2. seg.display = Pool.segs[s].display
    BY <1>1 DEF Judged, Segments, Pool, PoolOf
  <1>3. Commit(n)
    BY DEF SetQualityJudgement, Commit, SetSegment, Pool, PoolOf
  <1> HIDE DEF seg
  <1> QED
    BY <1>1, <1>2, <1>3, SetShrinks, CommitShrunk

LEMMA PageLimits ==
  ASSUME CoreInv, Limits(Pool), NEW s \in SegIds, NEW page \in Pages \cup {0},
         NEW left \in Lifetimes \cup {NoDeadline}, NoteDisplayPage(s, page, left)
  PROVE  Limits(Pool)'
  <1> DEFINE seg == Pool.segs[s]
             reserved == seg.consumed /\ seg.att = 2
             noted == [seg EXCEPT !.page = IF reserved THEN @ ELSE page,
                                  !.left = IF reserved THEN Earlier(@, left)
                                           ELSE IF left # NoDeadline THEN left ELSE @]
             n == SetSegment(Pool, s, noted)
  <1>1. PoolTyped(Pool) /\ seg \in Segments /\ s \in Live(Pool)
    BY PoolTypedNow DEF CoreInv, NoteDisplayPage, PoolTyped
  <1>2. left \in Nat \cup {NoDeadline}
    BY IdsAssumption
  <1>3. noted \in Segments /\ noted.display = seg.display /\ noted.rev = seg.rev /\ noted.att = seg.att
    <2>1. Earlier(seg.left, left) \in Nat \cup {NoDeadline}
      BY <1>1, <1>2 DEF Earlier, Segments
    <2>2. \A a \in Pages \cup {0}, b \in Nat \cup {NoDeadline} :
             LET y == [seg EXCEPT !.page = a, !.left = b]
             IN  y \in Segments /\ y.display = seg.display /\ y.rev = seg.rev /\ y.att = seg.att
      BY <1>1 DEF Segments
    <2>3. (IF reserved THEN seg.page ELSE page) \in Pages \cup {0}
      BY <1>1 DEF Segments
    <2>4. (IF reserved THEN Earlier(seg.left, left)
           ELSE IF left # NoDeadline THEN left ELSE seg.left) \in Nat \cup {NoDeadline}
      BY <1>1, <1>2, <2>1 DEF Segments
    <2> QED
      BY <2>2, <2>3, <2>4
  <1>4. PICK p : /\ Commit(p)
                 /\ \E J : p = DropRetries(Pool, J) \/ p = DropRetries(n, J)
    BY DEF NoteDisplayPage, Noted, ExpireRetries
  <1> HIDE DEF noted
  <1>5. Shrinks(Pool, n)
    BY <1>1, <1>3, SetShrinks
  <1>6. PoolTyped(n)
    <2>1. generation > 0 /\ noted.rev \in Revisions /\ noted.att \in {1, 2}
      BY <1>1, <1>3 DEF PoolTyped, LiveTyped
    <2> QED
      BY <1>1, <1>3, <2>1, SetTyped
  <1> HIDE DEF n
  <1>7. Shrinks(Pool, p)
    BY <1>1, <1>4, <1>5, <1>6, DropShrinks, ShrinksFurther
  <1> QED
    BY <1>4, <1>7, CommitShrunk

LEMMA AdvanceLimits ==
  ASSUME CoreInv, Limits(Pool), Advance
  PROVE  Limits(Pool)'
  <1> DEFINE n == PoolOf(Aged(Pool), queue, cancelled)
  <1>1. Commit(n) /\ segs \in [SegIds -> Segments]
    BY DEF Advance, Commit, PoolOf, CoreInv, TypeInv, TypeOK
  <1>2. \A s \in SegIds : n.segs[s].display = Pool.segs[s].display
    BY <1>1 DEF Aged, Segments, Pool, PoolOf
  <1>3. n.queue = Pool.queue
    BY DEF Pool, PoolOf
  <1> HIDE DEF n
  <1> QED
    BY <1>1, <1>2, <1>3, DisplaysShrink, CommitShrunk

(* Every call leaves the containers within their limits, whatever it put into them
   before enforce_limits (register_segment, tick, complete). *)
THEOREM StepLimits == CoreInv /\ Limits(Pool) /\ [Next]_vars => Limits(Pool)'
  <1> SUFFICES ASSUME CoreInv, Limits(Pool), [Next]_vars PROVE Limits(Pool)'
    OBVIOUS
  <1> DEFINE t == Ticked
  <1>t. PoolTyped(Pool) /\ PoolTyped(t) /\ Limits(t)
    BY PoolTypedNow, TickTyped, TickShrinks, ShrinkLimits DEF CoreInv
  <1>s. Shrinks(t, t) /\ Shrinks(Pool, Pool)
    BY DEF Shrinks
  <1> HIDE DEF t
  <1>1. ASSUME NEW g \in 1..MaxGeneration, ResetGeneration(g) PROVE Limits(Pool)'
    <2>1. queue' = {} /\ \A s \in SegIds : segs'[s].display = "Absent"
      BY <1>1, AbsentType DEF ResetGeneration
    <2>2. Pool'.queue = {} /\ Waiting(Pool)' = {} /\ Managed(Pool)' = {}
      BY <2>1 DEF Pool, PoolOf, Waiting, Managed, WithDisplay
    <2> QED
      BY <2>2, FS_EmptySet, LimitsAssumption DEF Limits
  <1>2. ASSUME NEW s \in SegIds, NEW r \in Revisions, RegisterUnusableText(s, r) PROVE Limits(Pool)'
    BY <1>2, RetireShrinks, CommitShrunk DEF RegisterUnusableText
  <1>3. ASSUME NEW s \in SegIds, NEW r \in Revisions, RegisterOverflow(s, r) PROVE Limits(Pool)'
    BY <1>3, <1>s, CommitShrunk DEF RegisterOverflow, t
  <1>4. ASSUME NEW s \in SegIds, NEW o \in Orders, RegisterDuplicate(s, o) PROVE Limits(Pool)'
    <2> DEFINE seg == [t.segs[s] EXCEPT !.order = o]
    <2>1. t.segs[s] \in Segments
      BY <1>t DEF PoolTyped
    <2>2. /\ seg.display = t.segs[s].display /\ seg.rev = t.segs[s].rev
          /\ seg.att = t.segs[s].att /\ seg.processed = t.segs[s].processed
      BY <2>1 DEF Segments
    <2>3. Shrinks(t, SetSegment(t, s, seg))
      <3> HIDE DEF seg
      <3> QED
        BY <1>t, <2>2, SetShape, ShapeShrinks
    <2> QED
      BY <1>4, <2>3, CommitShrunk DEF RegisterDuplicate, t
  <1>5. ASSUME NEW s \in SegIds, NEW r \in Revisions, NEW o \in Orders,
               NEW replaces \in SUBSET SegIds, RegisterRevision(s, r, o, replaces)
        PROVE  Limits(Pool)'
    BY <1>5, RegisterLimits
  <1>6. ASSUME NEW s \in SegIds, NEW page \in Pages \cup {0},
               NEW left \in Lifetimes \cup {NoDeadline}, RequestQualityRetry(s, page, left)
        PROVE  Limits(Pool)'
    BY <1>6, RetryLimits
  <1>7. CASE Dispatch
    <2>1. \A J : Shrinks(t, Unqueue(t, J))
      BY DEF Shrinks, Unqueue, PoolOf, Waiting, Managed, WithDisplay
    <2>2. PICK j : Commit(Unqueue(t, {j}))
      BY <1>7 DEF Dispatch, t
    <2> QED
      BY <2>1, <2>2, CommitShrunk DEF t
  <1>8. CASE DispatchExpiresRetry
    BY <1>8, <1>t, DropShrinks, CommitShrunk DEF DispatchExpiresRetry, t
  <1>9. ASSUME NEW id \in running, NEW ok \in BOOLEAN, Complete(id, ok) PROVE Limits(Pool)'
    BY <1>9, CompleteLimits
  <1>10. ASSUME NEW s \in SegIds, MarkVisible(s) PROVE Limits(Pool)'
    BY <1>10, VisibleLimits
  <1>11. ASSUME NEW s \in SegIds, Retire(s) PROVE Limits(Pool)'
    BY <1>11, RetireShrinks, CommitShrunk DEF Retire
  <1>12. ASSUME NEW s \in SegIds, ForgetRetired(s) PROVE Limits(Pool)'
    BY <1>12, ForgetLimits
  <1>13. ASSUME NEW on \in BOOLEAN, SetQualityRetry(on) PROVE Limits(Pool)'
    BY <1>13, SettingLimits
  <1>14. ASSUME NEW s \in SegIds, NEW suspected \in Verdicts, NEW eligible \in BOOLEAN,
                SetQualityJudgement(s, suspected, eligible)
         PROVE  Limits(Pool)'
    BY <1>14, JudgementLimits
  <1>15. ASSUME NEW s \in SegIds, NEW page \in Pages \cup {0},
               NEW left \in Lifetimes \cup {NoDeadline}, NoteDisplayPage(s, page, left)
        PROVE  Limits(Pool)'
    BY <1>15, PageLimits
  <1>16. CASE Tick
    BY <1>16, <1>s, CommitShrunk DEF Tick, t
  <1>17. CASE Advance
    BY <1>17, AdvanceLimits
  <1>18. CASE UNCHANGED vars
    BY <1>18 DEF vars, Limits, WithinLimits, Pool, PoolOf, Waiting, Managed, WithDisplay
  <1> QED
    BY <1>1, <1>2, <1>3, <1>4, <1>5, <1>6, <1>7, <1>8, <1>9, <1>10, <1>11, <1>12, <1>13, <1>14,
       <1>15, <1>16, <1>17, <1>18
       DEF Next

(* Whatever is registered, queued work, waiting segments and metadata stay within
   their limits (enforce_limits, register_segment). *)
THEOREM QueuesStayBounded == Spec => []QueuesBounded
  <1>1. Init => Limits(Pool)
    <2> SUFFICES ASSUME Init PROVE Limits(Pool)
      OBVIOUS
    <2>1. queue = {} /\ \A s \in SegIds : segs[s].display = "Absent"
      BY AbsentType DEF Init
    <2>2. Pool.queue = {} /\ Waiting(Pool) = {} /\ Managed(Pool) = {}
      BY <2>1 DEF Pool, PoolOf, Waiting, Managed, WithDisplay
    <2> QED
      BY <2>2, FS_EmptySet, LimitsAssumption DEF Limits
  <1>2. CoreInv /\ Limits(Pool) => QueuesBounded
    <2> SUFFICES ASSUME CoreInv, Limits(Pool) PROVE QueuesBounded
      OBVIOUS
    <2>1. CASE WithinLimits(Pool)
      BY <2>1 DEF WithinLimits, Limits, QueuesBounded, Pool, PoolOf
    <2>2. CASE Waiting(Pool) = {}
      <3>1. \A j \in queue : j.id.seg \in WithDisplay(Pool, {"Visible"})
        <4>1. \A j \in queue : j.id.seg \in Live(Pool)
          BY DEF CoreInv, Core, JobOk, Pool, PoolOf
        <4> QED
          BY <2>2, <4>1 DEF Live, Waiting, WithDisplay
      <3>2. \A j, k \in queue : j = k
        BY <3>1 DEF CoreInv, Core, Pool, PoolOf
      <3>3. queue = {} \/ \E j : queue = {j}
        BY <3>2
      <3>4. Cardinality(queue) <= MaxQueued
        <4>1. CASE queue = {}
          BY <4>1, FS_EmptySet, LimitsAssumption
        <4>2. CASE \E j : queue = {j}
          <5>1. Cardinality(queue) = 1
            BY <4>2, FS_Singleton
          <5> QED
            BY <5>1, LimitsAssumption
        <4> QED
          BY <3>3, <4>1, <4>2
      <3> QED
        BY <2>2, <3>4, FS_EmptySet, LimitsAssumption DEF Limits, QueuesBounded
    <2> QED
      BY <2>1, <2>2 DEF Limits
  <1> QED
    BY CoreCorrect, StepLimits, <1>1, <1>2, PTL DEF Spec

-----------------------------------------------------------------------------
(* NoSegmentStranded, of a pool in the middle of a call: the segments X are still *)
(* to be given a job.  What enforce_limits and the tick drop from the queue are   *)
(* retries; that they are no first attempts is the last conjunct.                 *)

HasWork(p, s) ==
    p.segs[s].att = 1 /\ ~p.segs[s].processed =>
        \/ \E j \in p.queue : j.id = CurrentJob(p, s)
        \/ CurrentJob(p, s) \in running \ p.cancelled

HasText(p, s) ==
    p.segs[s].processed \/ p.segs[s].att = 2 \/ p.segs[s].display = "Visible" =>
        p.segs[s].text # NoText

Served(p, X) ==
    /\ \A s \in Live(p) \ X : HasWork(p, s) /\ HasText(p, s)
    /\ \A j \in p.queue : IsRetry(j) /\ j.id.seg \notin X => j.id.att # 1

(* Two pools whose segments agree on what Served reads. *)
SameCaptions(p, q) ==
    \A s \in SegIds : /\ q.segs[s].display = p.segs[s].display
                      /\ q.segs[s].rev = p.segs[s].rev
                      /\ q.segs[s].att = p.segs[s].att
                      /\ q.segs[s].processed = p.segs[s].processed
                      /\ q.segs[s].text = p.segs[s].text

(* Retries may leave the queue and be cancelled; so may anything of X. *)
LosesOnly(p, q, X) ==
    /\ q.queue \subseteq p.queue
    /\ \A j \in p.queue \ q.queue : IsRetry(j) \/ j.id.seg \in X
    /\ \A id \in q.cancelled \ p.cancelled : id.att # 1 \/ id.seg \in X

LEMMA SameServed ==
  ASSUME NEW p, NEW q, NEW X, Served(p, X), SameCaptions(p, q), LosesOnly(p, q, X)
  PROVE  Served(q, X)
  <1>1. Live(q) = Live(p)
    BY DEF SameCaptions, Live, WithDisplay
  <1>2. \A s \in Live(p) \ X : HasWork(q, s) /\ HasText(q, s)
    <2> SUFFICES ASSUME NEW s \in Live(p) \ X PROVE HasWork(q, s) /\ HasText(q, s)
      OBVIOUS
    <2>1. s \in SegIds /\ CurrentJob(q, s) = CurrentJob(p, s)
      BY DEF SameCaptions, Live, WithDisplay, CurrentJob
    <2>2. HasWork(p, s) /\ HasText(p, s)
      BY DEF Served
    <2>3. CurrentJob(p, s).seg = s /\ CurrentJob(p, s).att = p.segs[s].att
      BY DEF CurrentJob
    <2>4. \A j \in p.queue : j.id = CurrentJob(p, s) /\ p.segs[s].att = 1 => j \in q.queue
      BY <2>3 DEF LosesOnly, Served
    <2>5. p.segs[s].att = 1 /\ CurrentJob(p, s) \notin p.cancelled
            => CurrentJob(p, s) \notin q.cancelled
      BY <2>3 DEF LosesOnly
    <2> QED
      BY <2>1, <2>2, <2>4, <2>5 DEF HasWork, HasText, SameCaptions
  <1> QED
    BY <1>1, <1>2 DEF Served, LosesOnly

LEMMA DropServed ==
  ASSUME NEW p, PoolTyped(p), NEW X, Served(p, X),
         NEW J, \A j \in J : IsRetry(j) \/ j.id.seg \in X
  PROVE  Served(DropRetries(p, J), X)
  <1>1. SameCaptions(p, DropRetries(p, J))
    BY SpentType DEF SameCaptions, DropRetries, PoolOf, PoolTyped
  <1>2. LosesOnly(p, DropRetries(p, J), X)
    BY DEF LosesOnly, DropRetries, PoolOf
  <1> QED
    BY <1>1, <1>2, SameServed

LEMMA SetSameServed ==
  ASSUME NEW p, PoolTyped(p), NEW X, Served(p, X), NEW s \in SegIds, NEW seg,
         seg.display = p.segs[s].display, seg.rev = p.segs[s].rev, seg.att = p.segs[s].att,
         seg.processed = p.segs[s].processed, seg.text = p.segs[s].text
  PROVE  Served(SetSegment(p, s, seg), X)
  <1>1. SameCaptions(p, SetSegment(p, s, seg)) /\ LosesOnly(p, SetSegment(p, s, seg), X)
    BY DEF SameCaptions, LosesOnly, SetSegment, PoolOf, PoolTyped
  <1> QED
    BY <1>1, SameServed

LEMMA RetireServed ==
  ASSUME NEW p, NEW X, Served(p, X), NEW S
  PROVE  Served(RetireSegments(p, S), X)
  <1> DEFINE r == RetireSegments(p, S)
             R == S \cap Live(p)
  <1>1. /\ \A s \in SegIds : r.segs[s] = IF s \in R THEN Tombstone ELSE p.segs[s]
        /\ r.queue = p.queue \ QueuedFor(p.queue, R)
        /\ r.cancelled = p.cancelled \cup {id \in running : id.gen = generation /\ id.seg \in R}
        /\ Live(r) = Live(p) \ S
        /\ WithDisplay(r, {"Visible"}) = WithDisplay(p, {"Visible"}) \ S
    BY RetireFields
  <1> HIDE DEF r
  <1>2. \A s \in Live(r) \ X : HasWork(r, s) /\ HasText(r, s)
    <2> SUFFICES ASSUME NEW s \in Live(r) \ X PROVE HasWork(r, s) /\ HasText(r, s)
      OBVIOUS
    <2>1. s \in Live(p) \ X /\ s \in SegIds /\ s \notin R /\ r.segs[s] = p.segs[s]
      BY <1>1 DEF Live, WithDisplay
    <2>2. HasWork(p, s) /\ HasText(p, s)
      BY <2>1 DEF Served
    <2>3. CurrentJob(r, s) = CurrentJob(p, s) /\ CurrentJob(p, s).seg = s
      BY <2>1 DEF CurrentJob
    <2>4. \A j \in p.queue : j.id = CurrentJob(p, s) => j \in r.queue
      BY <1>1, <2>1, <2>3 DEF QueuedFor
    <2>5. CurrentJob(p, s) \notin p.cancelled => CurrentJob(p, s) \notin r.cancelled
      BY <1>1, <2>1, <2>3
    <2> QED
      BY <2>1, <2>2, <2>3, <2>4, <2>5 DEF HasWork, HasText
  <1>3. Served(r, X)
    BY <1>1, <1>2 DEF Served
  <1> QED
    BY <1>3 DEF r

LEMMA RetiredAway ==
  ASSUME NEW p, NEW s
  PROVE  s \notin Live(RetireSegments(p, {s})) /\ RetireSegments(p, {s}).queue \subseteq p.queue
  BY TombstoneType DEF RetireSegments, CancelRunning, CancelIds, PoolOf, Live, WithDisplay

LEMMA TickServed ==
  ASSUME PoolTyped(Pool), Served(Pool, {})
  PROVE  Served(Ticked, {})
  <1> DEFINE r == RetireSegments(Pool, {s \in Waiting(Pool) : Pool.segs[s].age >= StaleAge})
             J == {j \in Retries(r.queue) : j.id.seg \notin Live(r) \/ r.segs[j.id.seg].left = 0}
  <1>1. PoolTyped(r) /\ Served(r, {})
    BY RetireTyped, RetireServed
  <1>2. \A j \in J : IsRetry(j)
    BY DEF Retries
  <1>3. Ticked = DropRetries(r, J)
    BY DEF Ticked, TickedPool, ExpireRetries
  <1> HIDE DEF r, J
  <1> QED
    BY <1>1, <1>2, <1>3, DropServed

LEMMA EnforceServed ==
  ASSUME NEW p, PoolTyped(p), Served(p, {}), NEW e \in EnforceLimits(p)
  PROVE  Served(e, {})
  <1> DEFINE d == IF Cardinality(p.queue) > MaxQueued THEN DropRetries(p, Retries(p.queue)) ELSE p
  <1>1. Served(d, {})
    BY DropServed DEF Retries
  <1>2. \E P : e = RetireSegments(d, P)
    BY DEF EnforceLimits
  <1> QED
    BY <1>1, <1>2, RetireServed

(* While the record of s changes, s is still to be given a job. *)
LEMMA SetServed ==
  ASSUME NEW p, PoolTyped(p), NEW s \in SegIds, Served(p, {}), NEW seg
  PROVE  Served(SetSegment(p, s, seg), {s})
  <1> DEFINE n == SetSegment(p, s, seg)
  <1>1. n.queue = p.queue /\ n.cancelled = p.cancelled /\ n.segs = [p.segs EXCEPT ![s] = seg]
    BY DEF SetSegment, PoolOf
  <1> HIDE DEF n
  <1>2. \A x \in SegIds \ {s} : n.segs[x] = p.segs[x]
    BY <1>1 DEF PoolTyped
  <1>3. \A x \in Live(n) \ {s} :
            x \in Live(p) /\ n.segs[x] = p.segs[x] /\ CurrentJob(n, x) = CurrentJob(p, x)
    BY <1>2 DEF Live, WithDisplay, CurrentJob
  <1>4. Served(n, {s})
    BY <1>1, <1>3 DEF Served, HasWork, HasText
  <1> QED
    BY <1>4 DEF n

LEMMA SettleServed ==
  ASSUME NEW p, NEW s, Served(p, {s}), s \in Live(p) => HasWork(p, s) /\ HasText(p, s),
         \A j \in p.queue : j.id.seg = s => ~IsRetry(j) \/ j.id.att # 1
  PROVE  Served(p, {})
  BY DEF Served

(* Enqueue serves the segment that was still to be given a job. *)
LEMMA EnqueueServed ==
  ASSUME NEW p, PoolTyped(p), NEW s \in Live(p), Served(p, {s}), NEW kind \in Kinds,
         kind = "QualityRetry" <=> p.segs[s].att > 1,
         p.segs[s].att = 2 \/ p.segs[s].display = "Visible" => p.segs[s].text # NoText,
         generation \in 0..MaxGeneration, NEW e \in Enqueue(p, s, kind)
  PROVE  Served(e, {})
  <1> DEFINE old == QueuedFor(p.queue, {s})
             f == IF kind = "QualityRetry" THEN p ELSE DropRetries(p, Retries(old))
             c == CancelRunning(Unqueue(f, old), {s})
             job == [id |-> CurrentJob(p, s), kind |-> kind]
             seg == [c.segs[s] EXCEPT !.processed = FALSE]
             n == SetSegment(Push(c, job), s, seg)
  <1>1. PoolTyped(f) /\ Live(f) = Live(p) /\ f.queue \subseteq p.queue
    BY DropTyped, DropShape
  <1>2. Served(f, {s}) /\ SameCaptions(p, f)
    <2>1. \A j \in Retries(old) : IsRetry(j)
      BY DEF Retries
    <2>2. SameCaptions(p, p) /\ SameCaptions(p, DropRetries(p, Retries(old)))
      BY SpentType DEF SameCaptions, DropRetries, PoolOf, PoolTyped
    <2> QED
      BY <2>1, <2>2, DropServed
  <1>3. /\ c.segs = f.segs /\ c.queue = f.queue \ old
        /\ c.cancelled = f.cancelled \cup {id \in running : id.gen = generation /\ id.seg \in {s}}
    BY DEF CancelRunning, CancelIds, Unqueue, PoolOf
  <1>4. PoolTyped(c)
    BY <1>1, UnqueueTyped, CancelTyped DEF CancelRunning
  <1> HIDE DEF f, c
  <1>5. Served(c, {s}) /\ SameCaptions(p, c)
    <2>1. SameCaptions(f, c)
      BY <1>3 DEF SameCaptions
    <2>2. LosesOnly(f, c, {s})
      BY <1>3 DEF LosesOnly, QueuedFor
    <2> QED
      BY <1>2, <1>3, <2>1, <2>2, SameServed DEF SameCaptions
  <1>6. s \in SegIds /\ c.segs[s] \in Segments
    BY <1>4 DEF Live, WithDisplay, PoolTyped
  <1>7. /\ seg \in Segments /\ ~seg.processed /\ seg.display = p.segs[s].display
        /\ seg.rev = p.segs[s].rev /\ seg.att = p.segs[s].att /\ seg.text = p.segs[s].text
    <2>1. /\ seg \in Segments /\ ~seg.processed /\ seg.display = c.segs[s].display
          /\ seg.rev = c.segs[s].rev /\ seg.att = c.segs[s].att /\ seg.text = c.segs[s].text
      BY <1>6 DEF Segments
    <2> QED
      BY <1>5, <1>6, <2>1 DEF SameCaptions
  <1> HIDE DEF seg, job
  <1>8. /\ n.queue = c.queue \cup {job} /\ n.cancelled = c.cancelled
        /\ n.segs = [c.segs EXCEPT ![s] = seg]
    BY DEF SetSegment, Push, PoolOf
  <1>9. job.id = CurrentJob(p, s) /\ job.id.seg = s /\ job.id.att = p.segs[s].att /\ job.kind = kind
    BY DEF job, CurrentJob
  <1> HIDE DEF n
  <1>10. n.segs[s] = seg /\ \A x \in SegIds \ {s} : n.segs[x] = c.segs[x]
    BY <1>4, <1>6, <1>8 DEF PoolTyped
  <1>11. Served(n, {s})
    <2>1. \A x \in Live(n) \ {s} :
             x \in Live(c) /\ n.segs[x] = c.segs[x] /\ CurrentJob(n, x) = CurrentJob(c, x)
      BY <1>10 DEF Live, WithDisplay, CurrentJob
    <2> QED
      BY <1>5, <1>8, <1>9, <2>1 DEF Served, HasWork, HasText
  <1>12. HasWork(n, s) /\ HasText(n, s)
    <2>1. CurrentJob(n, s) = job.id /\ job \in n.queue
      BY <1>7, <1>8, <1>9, <1>10 DEF CurrentJob
    <2> QED
      BY <1>7, <1>10, <2>1 DEF HasWork, HasText
  <1>13. \A j \in n.queue : j.id.seg = s => ~IsRetry(j) \/ j.id.att # 1
    <2>1. \A j \in c.queue : j.id.seg # s
      BY <1>1, <1>3 DEF QueuedFor
    <2>2. IsRetry(job) => job.id.att # 1
      BY <1>9 DEF IsRetry
    <2> QED
      BY <1>8, <2>1, <2>2
  <1>14. Served(n, {})
    BY <1>11, <1>12, <1>13, SettleServed
  <1>15. PoolTyped(n)
    <2>1. job \in Jobs
      BY CurrentJobType DEF Jobs, job
    <2>2. PoolTyped(Push(c, job)) /\ Push(c, job).segs = c.segs
      BY <1>4, <2>1, PushTyped DEF Push, PoolOf
    <2>3. generation > 0 /\ seg.rev \in Revisions /\ seg.att \in {1, 2}
      BY <1>7 DEF PoolTyped, LiveTyped
    <2> QED
      BY <2>2, <2>3, <1>6, <1>7, SetTyped DEF n
  <1>16. e \in EnforceLimits(n)
    BY DEF Enqueue, n, seg, job, c, f
  <1> QED
    BY <1>14, <1>15, <1>16, EnforceServed

-----------------------------------------------------------------------------
(* Steps of Next. *)

LEMMA CommitServed ==
  ASSUME NEW p, Served(p, {}), Commit(p), generation' = generation, running' = running
  PROVE  Served(Pool, {})'
  BY DEF Served, HasWork, HasText, Commit, Pool, PoolOf, Live, WithDisplay, CurrentJob

LEMMA TickedServed ==
  ASSUME CoreInv, Served(Pool, {})
  PROVE  PoolTyped(Pool) /\ PoolTyped(Ticked) /\ Served(Ticked, {})
  BY PoolTypedNow, TickTyped, TickServed DEF CoreInv

LEMMA RegisterServed ==
  ASSUME CoreInv, Served(Pool, {}), NEW s \in SegIds, NEW r \in Revisions, NEW o \in Orders,
         NEW replaces \in SUBSET SegIds, RegisterRevision(s, r, o, replaces)
  PROVE  Served(Pool, {})'
  <1> DEFINE t == Ticked
             fresh == t.segs[s].display = "Absent"
             base == IF fresh THEN NewSegment ELSE t.segs[s]
             seg == Revised(base, r, o)
             n == SetSegment(t, s, seg)
             p == RetireSegments(n, replaces \ {s})
             kind == IF fresh THEN "Initial" ELSE "SourceUpdate"
  <1>1. PoolTyped(t) /\ Served(t, {}) /\ generation \in 0..MaxGeneration
    BY TickedServed DEF CoreInv, TypeInv, TypeOK
  <1>2. generation > 0 /\ (s \in Live(t) \/ fresh)
    BY DEF RegisterRevision, Acceptable
  <1>3. NewSegment \in Segments /\ NewSegment.display = "Waiting"
    BY AbsentType DEF NewSegment, Segments, Displays
  <1>4. /\ base \in Segments /\ base.display \in {"Waiting", "Visible"}
        /\ base.display = "Visible" => base.text # NoText
    BY <1>1, <1>2, <1>3 DEF PoolTyped, Live, WithDisplay, Served, HasText
  <1>5. /\ seg \in Segments /\ seg.display = base.display /\ seg.rev = r /\ seg.att = 1
        /\ seg.text = base.text
    BY <1>4 DEF Revised, Segments
  <1>6. n.segs = [t.segs EXCEPT ![s] = seg] /\ PoolTyped(n)
    BY <1>1, <1>2, <1>5, SetTyped DEF SetSegment, PoolOf
  <1>7. PICK e \in Enqueue(p, s, kind) : Commit(e)
    BY DEF RegisterRevision, Registered
  <1>8. generation' = generation /\ running' = running
    BY DEF RegisterRevision
  <1> HIDE DEF t, base, seg
  <1>9. Served(n, {s})
    BY <1>1, SetServed
  <1> HIDE DEF n
  <1>10. PoolTyped(p) /\ Served(p, {s})
    BY <1>6, <1>9, RetireTyped, RetireServed
  <1>11. p.segs[s] = seg /\ s \in Live(p)
    <2>1. p.segs[s] = n.segs[s] /\ n.segs[s] = seg
      BY <1>1, <1>6 DEF RetireSegments, CancelRunning, CancelIds, PoolOf, PoolTyped
    <2> QED
      BY <2>1, <1>4, <1>5 DEF Live, WithDisplay
  <1> HIDE DEF p
  <1>12. kind \in Kinds /\ kind # "QualityRetry" /\ ~(p.segs[s].att > 1)
    BY <1>5, <1>11 DEF Kinds
  <1> HIDE DEF kind
  <1>13. p.segs[s].att = 2 \/ p.segs[s].display = "Visible" => p.segs[s].text # NoText
    BY <1>4, <1>5, <1>11
  <1>14. Served(e, {})
    BY <1>1, <1>7, <1>10, <1>11, <1>12, <1>13, EnqueueServed
  <1> QED
    BY <1>7, <1>8, <1>14, CommitServed

LEMMA RetryServed ==
  ASSUME CoreInv, Served(Pool, {}), NEW s \in SegIds, NEW page \in Pages \cup {0},
         NEW left \in Lifetimes \cup {NoDeadline}, RequestQualityRetry(s, page, left)
  PROVE  Served(Pool, {})'
  <1> DEFINE t == Ticked
             seg == [t.segs[s] EXCEPT !.page = IF page # 0 THEN page ELSE @,
                                      !.left = IF left # NoDeadline THEN left ELSE @]
             sp == Spent(seg)
             re == [sp EXCEPT !.att = 2]
             n == SetSegment(t, s, re)
  <1>1. PoolTyped(Pool) /\ PoolTyped(t) /\ Served(t, {}) /\ generation \in 0..MaxGeneration
    BY TickedServed DEF CoreInv, TypeInv, TypeOK
  <1>2. segs[s].display = "Visible" /\ segs[s].att = 1
    BY DEF RequestQualityRetry, MayRetry
  <1>3. /\ s \in Live(t) /\ t.segs[s].display = "Visible" /\ t.segs[s] \in Segments
        /\ t.segs[s].text # NoText
    BY <1>1, <1>2, TickKeepsVisible DEF PoolTyped, Served, HasText
  <1>4. /\ seg \in Segments /\ seg.display = t.segs[s].display /\ seg.rev = t.segs[s].rev
        /\ seg.att = t.segs[s].att /\ seg.processed = t.segs[s].processed
        /\ seg.text = t.segs[s].text
    <2>1. left \in Nat \cup {NoDeadline} /\ page \in Pages \cup {0}
      BY IdsAssumption
    <2> QED
      BY <1>3, <2>1 DEF Segments
  <1> HIDE DEF seg
  <1>5. /\ sp \in Segments /\ sp.display = t.segs[s].display /\ sp.rev = t.segs[s].rev
        /\ sp.att = t.segs[s].att /\ sp.processed = t.segs[s].processed
        /\ sp.text = t.segs[s].text
    BY <1>4, SpentType
  <1> HIDE DEF sp
  <1>6. /\ re \in Segments /\ re.display = "Visible" /\ re.rev = t.segs[s].rev
        /\ re.att = 2 /\ re.text # NoText
    BY <1>3, <1>5 DEF Segments
  <1>7. Served(SetSegment(t, s, sp), {}) /\ Served(SetSegment(t, s, Spent(t.segs[s])), {})
    <2>1. Served(SetSegment(t, s, sp), {})
      BY <1>1, <1>5, SetSameServed
    <2>2. Served(SetSegment(t, s, Spent(t.segs[s])), {})
      BY <1>1, <1>3, SpentType, SetSameServed
    <2> QED
      BY <2>1, <2>2
  <1> HIDE DEF re, t
  <1>8. PoolTyped(n) /\ Served(n, {s}) /\ n.segs[s] = re
    <2>1. generation > 0 /\ re.rev \in Revisions
      BY <1>1, <1>3, <1>6 DEF PoolTyped, LiveTyped
    <2>2. PoolTyped(n)
      BY <1>1, <1>6, <2>1, SetTyped
    <2>3. n.segs[s] = re
      BY <1>1 DEF SetSegment, PoolOf, PoolTyped
    <2> QED
      BY <1>1, <2>2, <2>3, SetServed
  <1>9. s \in Live(n)
    BY <1>6, <1>8 DEF Live, WithDisplay
  <1> HIDE DEF n
  <1>10. \A e \in Enqueue(n, s, "QualityRetry") : Served(e, {})
    BY <1>1, <1>6, <1>8, <1>9, EnqueueServed DEF Kinds
  <1>11. PICK e : Served(e, {}) /\ Commit(e)
    BY <1>7, <1>10 DEF RequestQualityRetry, Requested, n, re, sp, seg, t
  <1>12. generation' = generation /\ running' = running
    BY DEF RequestQualityRetry, Unticked
  <1> QED
    BY <1>11, <1>12, CommitServed

LEMMA DispatchServed ==
  ASSUME CoreInv, Served(Pool, {}), Dispatch
  PROVE  Served(Pool, {})'
  <1> DEFINE t == Ticked
  <1>1. PoolTyped(t) /\ Served(t, {})
    BY TickedServed
  <1>2. PICK j \in t.queue : Commit(Unqueue(t, {j})) /\ running' = running \cup {j.id}
    BY DEF Dispatch, Foremost, Eligible
  <1>3. generation' = generation
    BY DEF Dispatch
  <1>4. j.id \notin t.cancelled
    <2>1. Core(t, {}, highWater) /\ t.cancelled \subseteq running /\ running \subseteq sent
      BY <1>1, PoolTypedNow, TickCore DEF CoreInv, PoolTyped
    <2> QED
      BY <2>1 DEF Core
  <1> HIDE DEF t
  <1>5. segs' = t.segs /\ queue' = t.queue \ {j} /\ cancelled' = t.cancelled
    BY <1>2 DEF Commit, Unqueue, PoolOf
  <1>6. \A s \in Live(t) : HasWork(Pool, s)' /\ HasText(Pool, s)'
    <2> SUFFICES ASSUME NEW s \in Live(t) PROVE HasWork(Pool, s)' /\ HasText(Pool, s)'
      OBVIOUS
    <2>1. HasWork(t, s) /\ HasText(t, s)
      BY <1>1 DEF Served
    <2>2. CurrentJob(Pool, s)' = CurrentJob(t, s)
      BY <1>3, <1>5 DEF CurrentJob, Pool, PoolOf
    <2> QED
      BY <2>1, <2>2, <1>2, <1>4, <1>5 DEF HasWork, HasText, Pool, PoolOf
  <1>7. Live(Pool)' = Live(t)
    BY <1>5 DEF Live, WithDisplay, Pool, PoolOf
  <1> QED
    BY <1>1, <1>5, <1>6, <1>7 DEF Served, Pool, PoolOf

(* The request that ends was not the one a segment without an answer still has. *)
LEMMA ReleaseServed ==
  ASSUME NEW p, Served(p, {}), NEW id \in running,
         \A s \in Live(p) : CurrentJob(p, s) = id => p.segs[s].processed,
         Commit(PoolOf(p.segs, p.queue, p.cancelled \ {id})),
         running' = running \ {id}, generation' = generation
  PROVE  Served(Pool, {})'
  <1>1. segs' = p.segs /\ queue' = p.queue /\ cancelled' = p.cancelled \ {id}
    BY DEF Commit, PoolOf
  <1>2. Live(Pool)' = Live(p)
    BY <1>1 DEF Live, WithDisplay, Pool, PoolOf
  <1>3. \A s \in Live(p) : HasWork(Pool, s)' /\ HasText(Pool, s)'
    <2> SUFFICES ASSUME NEW s \in Live(p) PROVE HasWork(Pool, s)' /\ HasText(Pool, s)'
      OBVIOUS
    <2>1. HasWork(p, s) /\ HasText(p, s)
      BY DEF Served
    <2>2. CurrentJob(Pool, s)' = CurrentJob(p, s)
      BY <1>1 DEF CurrentJob, Pool, PoolOf
    <2> QED
      BY <2>1, <2>2, <1>1 DEF HasWork, HasText, Pool, PoolOf
  <1> QED
    BY <1>1, <1>2, <1>3 DEF Served, Pool, PoolOf

LEMMA CompleteServed ==
  ASSUME CoreInv, Served(Pool, {}), NEW id \in running, NEW ok \in BOOLEAN, Complete(id, ok)
  PROVE  Served(Pool, {})'
  <1> DEFINE t == Ticked
             s == id.seg
             a == [t.segs[s] EXCEPT !.processed = TRUE]
             b == [t.segs[s] EXCEPT !.processed = TRUE, !.text = [rev |-> id.rev, att |-> id.att]]
             n(seg) == SetSegment(t, s, seg)
  <1>1. PoolTyped(t) /\ Served(t, {}) /\ id \in JobIds /\ s \in SegIds
    BY TickedServed DEF CoreInv, TypeInv, TypeOK, JobIds
  <1>2. running' = running \ {id} /\ generation' = generation
    BY DEF Complete, Released
  <1>3. CASE ~Taken(t, id)
    <2>1. Commit(PoolOf(t.segs, t.queue, t.cancelled \ {id}))
      BY <1>3 DEF Complete
    <2>2. \A x \in Live(t) : CurrentJob(t, x) = id => t.segs[x].processed
      <3> SUFFICES ASSUME NEW x \in Live(t), CurrentJob(t, x) = id PROVE t.segs[x].processed
        OBVIOUS
      <3>1. id.gen = generation /\ id.seg = x
        BY DEF CurrentJob
      <3> QED
        BY <3>1, <1>3 DEF Taken
    <2> HIDE DEF t
    <2> QED
      BY <1>1, <1>2, <2>1, <2>2, ReleaseServed
  <1>4. CASE Taken(t, id)
    <2>1. s \in Live(t) /\ id = CurrentJob(t, s) /\ t.segs[s] \in Segments
      BY <1>1, <1>4 DEF Taken, PoolTyped
    <2>2. /\ a.processed /\ a.display = t.segs[s].display /\ a.rev = t.segs[s].rev
          /\ a.att = t.segs[s].att /\ a.text = t.segs[s].text
      BY <2>1 DEF Segments
    <2>3. b.processed /\ b.text = [rev |-> id.rev, att |-> id.att]
      BY <2>1 DEF Segments
    <2>4. b.text # NoText
      BY <1>1, <2>3, IdsAssumption DEF JobIds, NoText
    <2>5. PICK m : /\ Commit(PoolOf(m.segs, m.queue, m.cancelled \ {id}))
                   /\ \/ m = n(b)
                      \/ m = RetireSegments(n(a), {s})
                      \/ m = n(a) /\ t.segs[s].text # NoText
      BY <1>4 DEF Complete, Answered
    <2> HIDE DEF t, a, b
    <2>6. \A seg : /\ Served(n(seg), {s}) /\ n(seg).segs[s] = seg
                   /\ n(seg).queue = t.queue
      BY <1>1, SetServed DEF SetSegment, PoolOf, PoolTyped
    <2>7. \A j \in t.queue : IsRetry(j) => j.id.att # 1
      BY <1>1 DEF Served
    <2> HIDE DEF n
    <2>8. ASSUME NEW seg, seg.processed, seg.text # NoText PROVE Served(n(seg), {})
      <3>1. HasWork(n(seg), s) /\ HasText(n(seg), s)
        BY <2>6, <2>8 DEF HasWork, HasText
      <3> QED
        BY <2>6, <2>7, <3>1, SettleServed
    <2>9. Served(RetireSegments(n(a), {s}), {})
      <3> DEFINE q == RetireSegments(n(a), {s})
      <3>1. Served(q, {s})
        BY <2>6, RetireServed
      <3>2. s \notin Live(q) /\ q.queue \subseteq t.queue
        BY <2>6, RetiredAway
      <3> HIDE DEF q
      <3>3. Served(q, {})
        BY <2>7, <3>1, <3>2, SettleServed
      <3> QED
        BY <3>3 DEF q
    <2>10. Served(m, {})
      BY <2>2, <2>3, <2>4, <2>5, <2>8, <2>9
    <2>11. \A x \in Live(m) : CurrentJob(m, x) = id => m.segs[x].processed
      <3>1. \A x : CurrentJob(m, x) = id => x = s
        BY DEF CurrentJob
      <3>2. s \in Live(m) => m.segs[s].processed
        BY <2>2, <2>3, <2>5, <2>6, RetiredAway
      <3> QED
        BY <3>1, <3>2
    <2> QED
      BY <1>2, <2>5, <2>10, <2>11, ReleaseServed
  <1> QED
    BY <1>3, <1>4

LEMMA VisibleServed ==
  ASSUME CoreInv, Served(Pool, {}), NEW s \in SegIds, MarkVisible(s)
  PROVE  Served(Pool, {})'
  <1> DEFINE t == Ticked
             seg == [t.segs[s] EXCEPT !.display = "Visible"]
             n == SetSegment(t, s, seg)
  <1>1. PoolTyped(t) /\ Served(t, {}) /\ t.segs[s] \in Segments
    BY TickedServed DEF PoolTyped
  <1>2. s \in Live(t) /\ t.segs[s].text # NoText /\ Commit(n)
    BY DEF MarkVisible, MayShow, MarkedVisible
  <1>3. /\ seg.rev = t.segs[s].rev /\ seg.att = t.segs[s].att
        /\ seg.processed = t.segs[s].processed /\ seg.text = t.segs[s].text
    BY <1>1 DEF Segments
  <1> HIDE DEF t, seg
  <1>4. Served(n, {s}) /\ n.segs[s] = seg /\ n.queue = t.queue /\ n.cancelled = t.cancelled
    BY <1>1, SetServed DEF SetSegment, PoolOf, PoolTyped
  <1> HIDE DEF n
  <1>5. HasWork(n, s) /\ HasText(n, s)
    <2>1. CurrentJob(n, s) = CurrentJob(t, s)
      BY <1>3, <1>4 DEF CurrentJob
    <2>2. HasWork(t, s)
      BY <1>1, <1>2 DEF Served
    <2> QED
      BY <1>2, <1>3, <1>4, <2>1, <2>2 DEF HasWork, HasText
  <1>6. Served(n, {})
    BY <1>1, <1>4, <1>5, SettleServed DEF Served
  <1>7. generation' = generation /\ running' = running
    BY DEF MarkVisible, Unticked
  <1> QED
    BY <1>2, <1>6, <1>7, CommitServed

LEMMA SettingServed ==
  ASSUME CoreInv, Served(Pool, {}), NEW on \in BOOLEAN, SetQualityRetry(on)
  PROVE  Served(Pool, {})'
  <1> DEFINE t == Ticked
             Off(x) == [x EXCEPT !.consumed = @ \/ x.suspected \/ x.pending, !.pending = FALSE]
             off == [s \in SegIds |-> Off(t.segs[s])]
             p == PoolOf(off, t.queue, t.cancelled)
             d == DropRetries(p, Retries(t.queue))
             q == CancelIds(d, {id \in running : IsRetryId(id)})
  <1>1. PoolTyped(t) /\ Served(t, {})
    BY TickedServed
  <1>2. \A x \in Segments : /\ Off(x) \in Segments /\ Off(x).display = x.display
                            /\ Off(x).rev = x.rev /\ Off(x).att = x.att
                            /\ Off(x).processed = x.processed /\ Off(x).text = x.text
    <2>1. \A x \in Segments : (x.consumed \/ x.suspected \/ x.pending) \in BOOLEAN
      BY DEF Segments
    <2>2. \A x \in Segments, c \in BOOLEAN :
             LET y == [x EXCEPT !.consumed = c, !.pending = FALSE]
             IN  /\ y \in Segments /\ y.display = x.display /\ y.rev = x.rev
                 /\ y.att = x.att /\ y.processed = x.processed /\ y.text = x.text
      BY DEF Segments
    <2> QED
      BY <2>1, <2>2
  <1>3. \A s \in SegIds : p.segs[s] \in Segments
    BY <1>1, <1>2 DEF PoolTyped, PoolOf
  <1>4. SameCaptions(t, p) /\ p.queue = t.queue /\ p.cancelled = t.cancelled
    BY <1>1, <1>2 DEF SameCaptions, PoolTyped, PoolOf
  <1>5. PICK e : Commit(e) /\ (e = t \/ e = q)
    BY DEF SetQualityRetry, WithoutRetries
  <1> HIDE DEF t, Off, off, p
  <1>6. SameCaptions(t, q) /\ LosesOnly(t, q, {})
    <2>1. SameCaptions(p, d) /\ d.queue = t.queue \ Retries(t.queue) /\ d.cancelled = t.cancelled
      BY <1>3, <1>4, SpentType DEF SameCaptions, DropRetries, PoolOf
    <2> HIDE DEF d
    <2> QED
      BY <1>4, <2>1 DEF SameCaptions, LosesOnly, CancelIds, PoolOf, Retries, IsRetryId
  <1> HIDE DEF q
  <1>7. Served(e, {})
    BY <1>1, <1>5, <1>6, SameServed
  <1>8. generation' = generation /\ running' = running
    BY DEF SetQualityRetry
  <1> QED
    BY <1>5, <1>7, <1>8, CommitServed

LEMMA PageServed ==
  ASSUME CoreInv, Served(Pool, {}), NEW s \in SegIds, NEW page \in Pages \cup {0},
         NEW left \in Lifetimes \cup {NoDeadline}, NoteDisplayPage(s, page, left)
  PROVE  Served(Pool, {})'
  <1> DEFINE seg == Pool.segs[s]
             reserved == seg.consumed /\ seg.att = 2
             noted == [seg EXCEPT !.page = IF reserved THEN @ ELSE page,
                                  !.left = IF reserved THEN Earlier(@, left)
                                           ELSE IF left # NoDeadline THEN left ELSE @]
             n == SetSegment(Pool, s, noted)
  <1>1. PoolTyped(Pool) /\ seg \in Segments /\ s \in Live(Pool) /\ left \in Nat \cup {NoDeadline}
    BY PoolTypedNow, IdsAssumption DEF CoreInv, NoteDisplayPage, PoolTyped
  <1>2. /\ noted \in Segments /\ noted.display = seg.display /\ noted.rev = seg.rev
        /\ noted.att = seg.att /\ noted.processed = seg.processed /\ noted.text = seg.text
    <2>1. Earlier(seg.left, left) \in Nat \cup {NoDeadline}
      BY <1>1 DEF Earlier, Segments
    <2>2. \A a \in Pages \cup {0}, b \in Nat \cup {NoDeadline} :
             LET y == [seg EXCEPT !.page = a, !.left = b]
             IN  /\ y \in Segments /\ y.display = seg.display /\ y.rev = seg.rev
                 /\ y.att = seg.att /\ y.processed = seg.processed /\ y.text = seg.text
      BY <1>1 DEF Segments
    <2>3. (IF reserved THEN seg.page ELSE page) \in Pages \cup {0}
      BY <1>1 DEF Segments
    <2>4. (IF reserved THEN Earlier(seg.left, left)
           ELSE IF left # NoDeadline THEN left ELSE seg.left) \in Nat \cup {NoDeadline}
      BY <1>1, <2>1 DEF Segments
    <2> QED
      BY <2>2, <2>3, <2>4
  <1>3. PICK p : /\ Commit(p)
                 /\ \E J : /\ \A j \in J : IsRetry(j)
                           /\ p = DropRetries(Pool, J) \/ p = DropRetries(n, J)
    <2> DEFINE gone == Retries(QueuedFor(Pool.queue, {s}))
               late == {j \in Retries(n.queue) :
                           j.id.seg \notin Live(n) \/ n.segs[j.id.seg].left = 0}
    <2>1. Commit(DropRetries(Pool, gone)) \/ Commit(DropRetries(n, late))
      BY DEF NoteDisplayPage, Noted, ExpireRetries
    <2>2. (\A j \in gone : IsRetry(j)) /\ (\A j \in late : IsRetry(j))
      BY DEF Retries
    <2> HIDE DEF gone, late, n
    <2> QED
      BY <2>1, <2>2
  <1> HIDE DEF noted
  <1>4. PoolTyped(n) /\ Served(n, {})
    <2>1. generation > 0 /\ noted.rev \in Revisions /\ noted.att \in {1, 2}
      BY <1>1, <1>2 DEF PoolTyped, LiveTyped
    <2> QED
      BY <1>1, <1>2, <2>1, SetTyped, SetSameServed
  <1> HIDE DEF n
  <1>5. Served(p, {})
    BY <1>1, <1>3, <1>4, DropServed
  <1>6. generation' = generation /\ running' = running
    BY DEF NoteDisplayPage, Unticked
  <1> QED
    BY <1>3, <1>5, <1>6, CommitServed

(* RegisterDuplicate, SetQualityJudgement and Advance leave what Served reads. *)
LEMMA QuietServed ==
  ASSUME CoreInv, Served(Pool, {}),
         \/ \E s \in SegIds, o \in Orders : RegisterDuplicate(s, o)
         \/ \E s \in SegIds, suspected \in Verdicts, eligible \in BOOLEAN :
               SetQualityJudgement(s, suspected, eligible)
         \/ Advance
  PROVE  Served(Pool, {})'
  <1>1. PoolTyped(Pool) /\ PoolTyped(Ticked) /\ Served(Ticked, {})
    BY TickedServed
  <1>2. ASSUME NEW s \in SegIds, NEW o \in Orders, RegisterDuplicate(s, o)
        PROVE  Served(Pool, {})'
    <2> DEFINE seg == [Ticked.segs[s] EXCEPT !.order = o]
    <2>1. Ticked.segs[s] \in Segments
      BY <1>1 DEF PoolTyped
    <2>2. /\ seg.display = Ticked.segs[s].display /\ seg.rev = Ticked.segs[s].rev
          /\ seg.att = Ticked.segs[s].att /\ seg.processed = Ticked.segs[s].processed
          /\ seg.text = Ticked.segs[s].text
      BY <2>1 DEF Segments
    <2>3. Commit(SetSegment(Ticked, s, seg)) /\ generation' = generation /\ running' = running
      BY <1>2 DEF RegisterDuplicate, Unticked
    <2> HIDE DEF seg
    <2> QED
      BY <1>1, <2>2, <2>3, SetSameServed, CommitServed
  <1>3. ASSUME NEW s \in SegIds, NEW suspected \in Verdicts, NEW eligible \in BOOLEAN,
               SetQualityJudgement(s, suspected, eligible)
        PROVE  Served(Pool, {})'
    <2> DEFINE seg == Judged(Pool.segs[s], suspected, eligible)
    <2>1. Pool.segs[s] \in Segments
      BY <1>1 DEF PoolTyped
    <2>2. /\ seg.display = Pool.segs[s].display /\ seg.rev = Pool.segs[s].rev
          /\ seg.att = Pool.segs[s].att /\ seg.processed = Pool.segs[s].processed
          /\ seg.text = Pool.segs[s].text
      BY <2>1 DEF Judged, Segments
    <2>3. Commit(SetSegment(Pool, s, seg)) /\ generation' = generation /\ running' = running
      BY <1>3 DEF SetQualityJudgement, Unticked, Commit, SetSegment, Pool, PoolOf
    <2> HIDE DEF seg
    <2> QED
      BY <1>1, <2>2, <2>3, SetSameServed, CommitServed
  <1>4. CASE Advance
    <2> DEFINE n == PoolOf(Aged(Pool), queue, cancelled)
    <2>1. Commit(n) /\ generation' = generation /\ running' = running
      BY <1>4 DEF Advance, Unticked, Commit, PoolOf
    <2>2. SameCaptions(Pool, n)
      BY <1>1 DEF SameCaptions, Aged, Segments, Pool, PoolOf, PoolTyped
    <2>3. LosesOnly(Pool, n, {})
      BY DEF LosesOnly, Pool, PoolOf
    <2> HIDE DEF n
    <2> QED
      BY <2>1, <2>2, <2>3, SameServed, CommitServed
  <1> QED
    BY <1>2, <1>3, <1>4

(* The calls that only retire or drop retries. *)
LEMMA RetiringServed ==
  ASSUME CoreInv, Served(Pool, {}),
         \/ \E s \in SegIds, r \in Revisions :
               RegisterUnusableText(s, r) \/ RegisterOverflow(s, r)
         \/ Tick \/ DispatchExpiresRetry
         \/ \E s \in SegIds : Retire(s)
  PROVE  Served(Pool, {})'
  <1>1. PoolTyped(Pool) /\ PoolTyped(Ticked) /\ Served(Ticked, {})
    BY TickedServed
  <1>2. \A S : Served(RetireSegments(Ticked, S), {}) /\ Served(RetireSegments(Pool, S), {})
    BY <1>1, RetireServed
  <1>3. \A J \in SUBSET Retries(Ticked.queue) : Served(DropRetries(Ticked, J), {})
    BY <1>1, DropServed DEF Retries
  <1>4. generation' = generation /\ running' = running
    BY DEF RegisterUnusableText, RegisterOverflow, Tick, DispatchExpiresRetry, Retire, Unticked
  <1>5. PICK e : Served(e, {}) /\ Commit(e)
    <2>1. CASE DispatchExpiresRetry
      <3>1. PICK J \in SUBSET Retries(Ticked.queue) : Commit(DropRetries(Ticked, J))
        BY <2>1 DEF DispatchExpiresRetry
      <3> QED
        BY <1>3, <3>1
    <2>2. CASE ~DispatchExpiresRetry
      BY <1>1, <1>2, <2>2 DEF RegisterUnusableText, RegisterOverflow, Tick, Retire
    <2> QED
      BY <2>1, <2>2
  <1> QED
    BY <1>4, <1>5, CommitServed

LEMMA ForgetServed ==
  ASSUME CoreInv, Served(Pool, {}), NEW s \in SegIds, ForgetRetired(s)
  PROVE  Served(Pool, {})'
  <1> DEFINE n == PoolOf([segs EXCEPT ![s] = Absent], queue, cancelled)
  <1>1. Commit(n) /\ generation' = generation /\ running' = running
    BY DEF ForgetRetired, Unticked, Commit, PoolOf
  <1>2. \A x \in SegIds : n.segs[x] = IF x = s THEN Absent ELSE Pool.segs[x]
    BY DEF CoreInv, TypeInv, TypeOK, Pool, PoolOf
  <1>3. n.queue = Pool.queue /\ n.cancelled = Pool.cancelled
    BY DEF Pool, PoolOf
  <1> HIDE DEF n
  <1>4. Live(n) \subseteq Live(Pool) /\ \A x \in Live(n) : n.segs[x] = Pool.segs[x]
    BY <1>2, AbsentType DEF Live, WithDisplay
  <1>5. Served(n, {})
    BY <1>3, <1>4 DEF Served, HasWork, HasText, CurrentJob
  <1> QED
    BY <1>1, <1>5, CommitServed

(* Every call leaves each live segment with work under way or a text to show, also the
   calls that drop, replace or expire jobs (enqueue, complete, enforce_limits, tick). *)
THEOREM StepServed == CoreInv /\ Served(Pool, {}) /\ [Next]_vars => Served(Pool, {})'
  <1> SUFFICES ASSUME CoreInv, Served(Pool, {}), [Next]_vars PROVE Served(Pool, {})'
    OBVIOUS
  <1>1. ASSUME NEW g \in 1..MaxGeneration, ResetGeneration(g) PROVE Served(Pool, {})'
    <2>1. queue' = {} /\ \A s \in SegIds : segs'[s].display = "Absent"
      BY <1>1, AbsentType DEF ResetGeneration
    <2>2. Pool'.queue = {} /\ Live(Pool)' = {}
      BY <2>1 DEF Pool, PoolOf, Live, WithDisplay
    <2> QED
      BY <2>2 DEF Served
  <1>2. ASSUME NEW s \in SegIds, NEW r \in Revisions, NEW o \in Orders,
               NEW replaces \in SUBSET SegIds, RegisterRevision(s, r, o, replaces)
        PROVE  Served(Pool, {})'
    BY <1>2, RegisterServed
  <1>3. ASSUME NEW s \in SegIds, NEW page \in Pages \cup {0},
               NEW left \in Lifetimes \cup {NoDeadline},
               RequestQualityRetry(s, page, left) \/ NoteDisplayPage(s, page, left)
        PROVE  Served(Pool, {})'
    BY <1>3, RetryServed, PageServed
  <1>4. CASE Dispatch
    BY <1>4, DispatchServed
  <1>5. ASSUME NEW id \in running, NEW ok \in BOOLEAN, Complete(id, ok) PROVE Served(Pool, {})'
    BY <1>5, CompleteServed
  <1>6. ASSUME NEW s \in SegIds, MarkVisible(s) \/ ForgetRetired(s) PROVE Served(Pool, {})'
    BY <1>6, VisibleServed, ForgetServed
  <1>7. ASSUME NEW on \in BOOLEAN, SetQualityRetry(on) PROVE Served(Pool, {})'
    BY <1>7, SettingServed
  <1>8. CASE \/ \E s \in SegIds, o \in Orders : RegisterDuplicate(s, o)
             \/ \E s \in SegIds, suspected \in Verdicts, eligible \in BOOLEAN :
                   SetQualityJudgement(s, suspected, eligible)
             \/ Advance
    BY <1>8, QuietServed
  <1>9. CASE \/ \E s \in SegIds, r \in Revisions :
                   RegisterUnusableText(s, r) \/ RegisterOverflow(s, r)
             \/ Tick \/ DispatchExpiresRetry
             \/ \E s \in SegIds : Retire(s)
    BY <1>9, RetiringServed
  <1>10. CASE UNCHANGED vars
    BY <1>10 DEF vars, Served, HasWork, HasText, Pool, PoolOf, Live, WithDisplay, CurrentJob
  <1> QED
    BY <1>1, <1>2, <1>3, <1>4, <1>5, <1>6, <1>7, <1>8, <1>9, <1>10 DEF Next

(* No live segment is forgotten: a revision without an answer has its job queued or
   on the wire, and an answered or visible segment has a text to show (enqueue,
   complete, mark_visible, tick, enforce_limits). *)
THEOREM NoSegmentIsStranded == Spec => []NoSegmentStranded
  <1>1. Init => Served(Pool, {})
    <2> SUFFICES ASSUME Init PROVE Served(Pool, {})
      OBVIOUS
    <2>1. queue = {} /\ \A s \in SegIds : segs[s].display = "Absent"
      BY AbsentType DEF Init
    <2>2. Pool.queue = {} /\ Live(Pool) = {}
      BY <2>1 DEF Pool, PoolOf, Live, WithDisplay
    <2> QED
      BY <2>2 DEF Served
  <1>2. Served(Pool, {}) => NoSegmentStranded
    BY DEF Served, HasWork, HasText, NoSegmentStranded, Pool, PoolOf
  <1> QED
    BY CoreCorrect, StepServed, <1>1, <1>2, PTL DEF Spec


-----------------------------------------------------------------------------
(* The inductive invariant behind TextNeverGoesBack: the text of a live segment is of an *)
(* older job than its current one, or it is the answer to that.                          *)

TextBefore(seg) ==
    \/ seg.text.rev < seg.rev
    \/ seg.text.rev = seg.rev /\ seg.text.att < seg.att

TextOk(seg) ==
    \/ TextBefore(seg)
    \/ seg.processed /\ seg.text = [rev |-> seg.rev, att |-> seg.att]

TextsOk(p) == \A s \in Live(p) : TextOk(p.segs[s])

TextMovesOn(old, new) ==
    \/ new = old
    \/ new.rev > old.rev
    \/ new.rev = old.rev /\ new.att > old.att

\* From p to q no segment begins to live, gets a text or becomes one with another job.
Carries(p, q) ==
    \A s \in Live(q) :
       /\ s \in Live(p)
       /\ q.segs[s].text = p.segs[s].text
       /\ q.segs[s].rev = p.segs[s].rev /\ q.segs[s].att = p.segs[s].att
       /\ q.segs[s].processed = p.segs[s].processed \/ TextBefore(p.segs[s])

\* From p to q texts move on, and only ids never used before begin to live.
Goes(p, q) ==
    \A s \in Live(q) :
       /\ TextOk(q.segs[s])
       /\ s \in Live(p) => TextMovesOn(p.segs[s].text, q.segs[s].text)
       /\ s \in Live(p) \/ s > highWater

StepInv == CoreInv /\ TextsOk(Pool)

LEMMA TextNumbers ==
  ASSUME NEW seg \in Segments
  PROVE  /\ seg.text.rev \in Nat /\ seg.text.att \in Nat
         /\ seg.rev \in Nat /\ seg.att \in Nat
  <1>1. seg.text \in [rev : Revisions \cup {0}, att : {0, 1, 2}]
    BY DEF Segments
  <1>2. seg.text.rev \in Revisions \cup {0} /\ seg.text.att \in {0, 1, 2}
    BY <1>1
  <1>3. Revisions \cup {0} \subseteq Nat /\ {0, 1, 2} \subseteq Nat
    BY IdsAssumption
  <1> QED
    BY <1>2, <1>3, SegmentNumbers

LEMMA CarriesOn ==
  ASSUME NEW p, NEW q, NEW r, Carries(p, q), Carries(q, r)
  PROVE  Carries(p, r)
  <1> SUFFICES ASSUME NEW s \in Live(r)
               PROVE  /\ s \in Live(p) /\ r.segs[s].text = p.segs[s].text
                      /\ r.segs[s].rev = p.segs[s].rev /\ r.segs[s].att = p.segs[s].att
                      /\ r.segs[s].processed = p.segs[s].processed \/ TextBefore(p.segs[s])
    BY DEF Carries
  <1>1. /\ s \in Live(q) /\ r.segs[s].text = q.segs[s].text
        /\ r.segs[s].rev = q.segs[s].rev /\ r.segs[s].att = q.segs[s].att
        /\ r.segs[s].processed = q.segs[s].processed \/ TextBefore(q.segs[s])
    BY DEF Carries
  <1>2. /\ s \in Live(p) /\ q.segs[s].text = p.segs[s].text
        /\ q.segs[s].rev = p.segs[s].rev /\ q.segs[s].att = p.segs[s].att
        /\ q.segs[s].processed = p.segs[s].processed \/ TextBefore(p.segs[s])
    BY <1>1 DEF Carries
  <1> QED
    BY <1>1, <1>2 DEF TextBefore

LEMMA CarriesTexts ==
  ASSUME NEW p, NEW q, TextsOk(p), Carries(p, q)
  PROVE  TextsOk(q) /\ Goes(p, q)
  BY DEF Carries, TextsOk, TextOk, TextBefore, Goes, TextMovesOn

LEMMA GoesOn ==
  ASSUME NEW p, NEW q, NEW r, Goes(p, q), Carries(q, r)
  PROVE  Goes(p, r)
  BY DEF Carries, TextOk, TextBefore, Goes

LEMMA SameCarries ==
  ASSUME NEW p, NEW q, SameCaptions(p, q)
  PROVE  Carries(p, q)
  <1>1. Live(q) = Live(p) /\ \A s \in Live(q) : s \in SegIds
    BY DEF SameCaptions, Live, WithDisplay
  <1> QED
    BY <1>1 DEF SameCaptions, Carries

LEMMA DropCarries ==
  ASSUME NEW p, PoolTyped(p), NEW J
  PROVE  Carries(p, DropRetries(p, J))
  <1>1. SameCaptions(p, DropRetries(p, J))
    BY SpentType DEF SameCaptions, DropRetries, PoolOf, PoolTyped
  <1> QED
    BY <1>1, SameCarries

LEMMA RetireCarries ==
  ASSUME NEW p, NEW S
  PROVE  Carries(p, RetireSegments(p, S))
  <1> DEFINE r == RetireSegments(p, S)
             R == S \cap Live(p)
  <1>1. /\ \A s \in SegIds : r.segs[s] = IF s \in R THEN Tombstone ELSE p.segs[s]
        /\ r.queue = p.queue \ QueuedFor(p.queue, R)
        /\ r.cancelled = p.cancelled \cup {id \in running : id.gen = generation /\ id.seg \in R}
        /\ Live(r) = Live(p) \ S
        /\ WithDisplay(r, {"Visible"}) = WithDisplay(p, {"Visible"}) \ S
    BY RetireFields
  <1> HIDE DEF r
  <1>2. \A s \in Live(r) : s \in Live(p) /\ r.segs[s] = p.segs[s]
    BY <1>1 DEF Live, WithDisplay
  <1>3. Carries(p, r)
    BY <1>2 DEF Carries
  <1> QED
    BY <1>3 DEF r

LEMMA SetCarries ==
  ASSUME NEW p, PoolTyped(p), NEW s \in SegIds, NEW seg,
         seg.display \in {"Waiting", "Visible"} => s \in Live(p),
         seg.text = p.segs[s].text, seg.rev = p.segs[s].rev, seg.att = p.segs[s].att,
         seg.processed = p.segs[s].processed \/ TextBefore(p.segs[s])
  PROVE  Carries(p, SetSegment(p, s, seg))
  <1> DEFINE n == SetSegment(p, s, seg)
  <1>1. n.segs[s] = seg /\ \A x \in SegIds \ {s} : n.segs[x] = p.segs[x]
    BY DEF SetSegment, PoolOf, PoolTyped
  <1> HIDE DEF n
  <1>2. Carries(p, n)
    BY <1>1 DEF Carries, Live, WithDisplay
  <1> QED
    BY <1>2 DEF n

LEMMA SetGoes ==
  ASSUME NEW p, PoolTyped(p), TextsOk(p), NEW s \in SegIds, NEW seg, TextOk(seg),
         \/ s \in Live(p) /\ TextMovesOn(p.segs[s].text, seg.text)
         \/ s \notin Live(p) /\ s > highWater
  PROVE  Goes(p, SetSegment(p, s, seg)) /\ SetSegment(p, s, seg).segs[s] = seg
  <1> DEFINE n == SetSegment(p, s, seg)
  <1>1. n.segs[s] = seg /\ \A x \in SegIds \ {s} : n.segs[x] = p.segs[x]
    BY DEF SetSegment, PoolOf, PoolTyped
  <1> HIDE DEF n
  <1>2. \A x \in Live(n) \ {s} : x \in Live(p) /\ n.segs[x] = p.segs[x]
    BY <1>1 DEF Live, WithDisplay
  <1>3. Goes(p, n)
    BY <1>1, <1>2 DEF Goes, TextsOk, TextMovesOn
  <1> QED
    BY <1>1, <1>3 DEF n

LEMMA TickCarries ==
  ASSUME PoolTyped(Pool)
  PROVE  Carries(Pool, Ticked)
  <1> DEFINE r == RetireSegments(Pool, {s \in Waiting(Pool) : Pool.segs[s].age >= StaleAge})
             J == {j \in Retries(r.queue) : j.id.seg \notin Live(r) \/ r.segs[j.id.seg].left = 0}
  <1>1. PoolTyped(r) /\ Carries(Pool, r)
    BY RetireTyped, RetireCarries
  <1>2. Ticked = DropRetries(r, J)
    BY DEF Ticked, TickedPool, ExpireRetries
  <1> HIDE DEF r, J
  <1> QED
    BY <1>1, <1>2, DropCarries, CarriesOn

LEMMA EnforceCarries ==
  ASSUME NEW p, PoolTyped(p), NEW e \in EnforceLimits(p)
  PROVE  Carries(p, e)
  <1> DEFINE d == IF Cardinality(p.queue) > MaxQueued THEN DropRetries(p, Retries(p.queue)) ELSE p
  <1>1. Carries(p, d)
    <2>1. Carries(p, p)
      BY DEF Carries
    <2> QED BY <2>1, DropCarries
  <1>2. \E P : e = RetireSegments(d, P)
    BY DEF EnforceLimits
  <1> HIDE DEF d
  <1> QED
    BY <1>1, <1>2, RetireCarries, CarriesOn

\* A new job is enqueued for a segment whose text is of an older one.
LEMMA EnqueueCarries ==
  ASSUME NEW p, PoolTyped(p), NEW s \in Live(p), TextBefore(p.segs[s]), NEW kind \in Kinds,
         generation \in 0..MaxGeneration, NEW e \in Enqueue(p, s, kind)
  PROVE  Carries(p, e)
  <1> DEFINE old == QueuedFor(p.queue, {s})
             f == IF kind = "QualityRetry" THEN p ELSE DropRetries(p, Retries(old))
             c == CancelRunning(Unqueue(f, old), {s})
             job == [id |-> CurrentJob(p, s), kind |-> kind]
             seg == [c.segs[s] EXCEPT !.processed = FALSE]
             n == SetSegment(Push(c, job), s, seg)
  <1>1. PoolTyped(f) /\ SameCaptions(p, f)
    <2>1. SameCaptions(p, p) /\ SameCaptions(p, DropRetries(p, Retries(old)))
      BY SpentType DEF SameCaptions, DropRetries, PoolOf, PoolTyped
    <2> QED BY <2>1, DropTyped
  <1>2. c.segs = f.segs
    BY DEF CancelRunning, CancelIds, Unqueue, PoolOf
  <1>3. PoolTyped(c)
    BY <1>1, UnqueueTyped, CancelTyped DEF CancelRunning
  <1> HIDE DEF f, c
  <1>4. SameCaptions(p, c)
    BY <1>1, <1>2 DEF SameCaptions
  <1>5. s \in SegIds /\ c.segs[s] \in Segments
    BY <1>3 DEF Live, WithDisplay, PoolTyped
  <1>6. /\ seg \in Segments /\ seg.display = c.segs[s].display
        /\ seg.rev = c.segs[s].rev /\ seg.att = c.segs[s].att /\ seg.text = c.segs[s].text
    BY <1>5 DEF Segments
  <1>7. s \in Live(c) /\ TextBefore(c.segs[s])
    BY <1>4, <1>5 DEF SameCaptions, Live, WithDisplay, TextBefore
  <1> HIDE DEF seg
  <1>8. PoolTyped(Push(c, job)) /\ Push(c, job).segs = c.segs
    <2>1. job \in Jobs
      BY CurrentJobType DEF Jobs
    <2> QED BY <1>3, <2>1, PushTyped DEF Push, PoolOf
  <1> HIDE DEF job
  <1> DEFINE m == Push(c, job)
  <1>9. PoolTyped(m) /\ m.segs = c.segs /\ s \in Live(m)
    BY <1>7, <1>8 DEF Live, WithDisplay
  <1>a. e \in EnforceLimits(n)
    BY DEF Enqueue, seg, job, c, f
  <1>b. n = SetSegment(m, s, seg)
    OBVIOUS
  <1> HIDE DEF m, n
  <1>10. Carries(m, n) /\ PoolTyped(n)
    <2>1. generation > 0 /\ seg.rev \in Revisions /\ seg.att \in {1, 2}
      BY <1>3, <1>6, <1>7 DEF PoolTyped, LiveTyped
    <2>2. PoolTyped(n)
      BY <1>b, <1>5, <1>6, <1>9, <2>1, SetTyped
    <2>3. Carries(m, n)
      BY <1>b, <1>5, <1>6, <1>7, <1>9, SetCarries
    <2> QED BY <2>2, <2>3
  <1>11. Carries(p, m)
    <2>1. SameCaptions(p, m)
      BY <1>4, <1>9 DEF SameCaptions
    <2> QED BY <2>1, SameCarries
  <1>12. Carries(n, e)
    BY <1>a, <1>10, EnforceCarries
  <1> QED
    BY <1>10, <1>11, <1>12, CarriesOn

-----------------------------------------------------------------------------
(* The steps. *)

\* What a step does to the pool it begins with.
StepGood == Goes(Pool, Pool')

LEMMA CommitGood ==
  ASSUME NEW e, Goes(Pool, e), Commit(e)
  PROVE  StepGood
  BY DEF StepGood, Goes, Commit, Pool, PoolOf, Live, WithDisplay

LEMMA TickedCarries ==
  ASSUME StepInv
  PROVE  /\ PoolTyped(Pool) /\ PoolTyped(Ticked) /\ Carries(Pool, Ticked)
         /\ TextsOk(Pool) /\ TextsOk(Ticked) /\ Core(Ticked, {}, highWater)
         /\ generation \in 0..MaxGeneration
  <1>1. PoolTyped(Pool) /\ PoolTyped(Ticked) /\ Core(Ticked, {}, highWater)
    BY PoolTypedNow, TickTyped, TickCore DEF StepInv, CoreInv
  <1>2. Carries(Pool, Ticked)
    BY <1>1, TickCarries
  <1> QED
    BY <1>1, <1>2, CarriesTexts DEF StepInv, CoreInv, TypeInv, TypeOK

\* What follows the tick of a call.
LEMMA AfterTick ==
  ASSUME StepInv, NEW e, Goes(Ticked, e), Commit(e)
  PROVE  StepGood
  <1>1. Goes(Pool, e)
    <2> SUFFICES ASSUME NEW s \in Live(e)
                 PROVE  /\ TextOk(e.segs[s])
                        /\ s \in Live(Pool) => TextMovesOn(Pool.segs[s].text, e.segs[s].text)
                        /\ s \in Live(Pool) \/ s > highWater
      BY DEF Goes
    <2>1. /\ TextOk(e.segs[s])
          /\ s \in Live(Ticked) => TextMovesOn(Ticked.segs[s].text, e.segs[s].text)
          /\ s \in Live(Ticked) \/ s > highWater
      BY DEF Goes
    <2>2. s \in Live(Ticked) => s \in Live(Pool) /\ Ticked.segs[s].text = Pool.segs[s].text
      BY TickedCarries DEF Carries
    <2>3. s \in Live(Pool) => ~(s > highWater)
      <3>1. ASSUME s \in Live(Pool) PROVE s <= highWater /\ s \in Nat /\ highWater \in Nat
        <4>1. s \in SegIds /\ Pool.segs[s].display # "Absent"
          BY <3>1 DEF Live, WithDisplay
        <4>2. s <= highWater /\ highWater \in SegIds \cup {0}
          BY <4>1 DEF StepInv, CoreInv, Core, TypeInv, TypeOK
        <4>3. SegIds \cup {0} \subseteq Nat
          BY IdsAssumption
        <4> QED BY <4>1, <4>2, <4>3
      <3> QED BY <3>1
    <2> QED BY <2>1, <2>2, <2>3
  <1> QED
    BY <1>1, CommitGood

LEMMA CarriedGood ==
  ASSUME StepInv, NEW e, Carries(Pool, e) \/ Carries(Ticked, e), Commit(e)
  PROVE  StepGood
  <1>1. Goes(Pool, e) \/ Goes(Ticked, e)
    BY TickedCarries, CarriesTexts
  <1> QED
    BY <1>1, CommitGood, AfterTick

LEMMA RegisterGood ==
  ASSUME StepInv, NEW s \in SegIds, NEW r \in Revisions, NEW o \in Orders,
         NEW replaces \in SUBSET SegIds, RegisterRevision(s, r, o, replaces)
  PROVE  StepGood
  <1> DEFINE t == Ticked
             fresh == t.segs[s].display = "Absent"
             base == IF fresh THEN NewSegment ELSE t.segs[s]
             seg == Revised(base, r, o)
             n == SetSegment(t, s, seg)
             p == RetireSegments(n, replaces \ {s})
             kind == IF fresh THEN "Initial" ELSE "SourceUpdate"
  <1>1. PoolTyped(t) /\ TextsOk(t) /\ generation \in 0..MaxGeneration
    BY TickedCarries
  <1>2. generation > 0 /\ (s \in Live(t) \/ (fresh /\ s > highWater))
    BY DEF RegisterRevision, Acceptable
  <1>a. ~fresh => r > t.segs[s].rev /\ s \in Live(t)
    BY DEF RegisterRevision, Acceptable
  <1>b. fresh => s \notin Live(t) /\ s > highWater
    BY <1>2 DEF Live, WithDisplay
  <1>3. NewSegment \in Segments /\ NewSegment.display = "Waiting" /\ NewSegment.text = NoText
    BY AbsentType DEF NewSegment, Segments, Displays, Absent
  <1>4. base \in Segments /\ base.display \in {"Waiting", "Visible"}
    BY <1>1, <1>2, <1>3 DEF PoolTyped, Live, WithDisplay
  <1>5. /\ seg \in Segments /\ seg.display = base.display /\ seg.rev = r /\ seg.att = 1
        /\ seg.text = base.text
    BY <1>4 DEF Revised, Segments
  <1>6. PoolTyped(n)
    BY <1>1, <1>2, <1>5, SetTyped
  <1>7. PICK e \in Enqueue(p, s, kind) : Commit(e)
    BY DEF RegisterRevision, Registered
  <1>8. TextBefore(seg)
    <2>1. r \in Nat /\ r > 0
      BY IdsAssumption
    <2>2. CASE fresh
      BY <1>3, <1>5, <2>1, <2>2 DEF TextBefore, NoText
    <2>3. CASE ~fresh
      <3>1. /\ TextOk(t.segs[s]) /\ t.segs[s] \in Segments /\ r > t.segs[s].rev
            /\ base = t.segs[s]
        BY <1>1, <1>a, <2>3 DEF TextsOk, PoolTyped
      <3>2. t.segs[s].text.rev \in Nat /\ t.segs[s].rev \in Nat
            /\ t.segs[s].text.rev <= t.segs[s].rev
        BY <3>1, TextNumbers DEF TextOk, TextBefore
      <3>3. seg.text.rev < r
        BY <1>5, <2>1, <3>1, <3>2
      <3> QED BY <1>5, <3>3 DEF TextBefore
    <2> QED BY <2>2, <2>3
  <1>9. s \in Live(t) => seg.text = t.segs[s].text
    BY <1>5, <1>b
  <1> HIDE DEF t, base, seg, fresh
  <1>10. Goes(t, n) /\ n.segs[s] = seg
    <2>1. TextOk(seg)
      BY <1>8 DEF TextOk
    <2>2. \/ s \in Live(t) /\ TextMovesOn(t.segs[s].text, seg.text)
          \/ s \notin Live(t) /\ s > highWater
      BY <1>2, <1>9, <1>b DEF TextMovesOn
    <2> QED BY <1>1, <2>1, <2>2, SetGoes
  <1> HIDE DEF n
  <1>11. PoolTyped(p) /\ Carries(n, p)
    BY <1>6, RetireTyped, RetireCarries
  <1>12. p.segs[s] = seg /\ s \in Live(p)
    <2>1. p.segs[s] = n.segs[s]
      BY <1>6 DEF RetireSegments, CancelRunning, CancelIds, PoolOf, PoolTyped
    <2> QED
      BY <2>1, <1>4, <1>5, <1>10 DEF Live, WithDisplay
  <1> HIDE DEF p
  <1>13. kind \in Kinds
    BY DEF Kinds
  <1> HIDE DEF kind
  <1>14. Carries(p, e)
    BY <1>1, <1>7, <1>8, <1>11, <1>12, <1>13, EnqueueCarries
  <1>15. Goes(t, e)
    BY <1>10, <1>11, <1>14, GoesOn
  <1> QED
    BY <1>7, <1>15, AfterTick DEF t

LEMMA RetryGood ==
  ASSUME StepInv, NEW s \in SegIds, NEW page \in Pages \cup {0},
         NEW left \in Lifetimes \cup {NoDeadline}, RequestQualityRetry(s, page, left)
  PROVE  StepGood
  <1> DEFINE t == Ticked
             seg == [t.segs[s] EXCEPT !.page = IF page # 0 THEN page ELSE @,
                                      !.left = IF left # NoDeadline THEN left ELSE @]
             sp == Spent(seg)
             re == [sp EXCEPT !.att = 2]
             n == SetSegment(t, s, re)
  <1>1. PoolTyped(Pool) /\ PoolTyped(t) /\ TextsOk(t) /\ generation \in 0..MaxGeneration
    BY TickedCarries
  <1>2. segs[s].display = "Visible" /\ segs[s].att = 1
    BY DEF RequestQualityRetry, MayRetry
  <1>3. /\ s \in Live(t) /\ t.segs[s].display = "Visible" /\ t.segs[s] \in Segments
        /\ t.segs[s].att = 1
    <2>1. s \in Live(t) /\ t.segs[s].display = "Visible" /\ t.segs[s] \in Segments
      BY <1>1, <1>2, TickKeepsVisible DEF PoolTyped
    <2>2. t.segs[s].att = Pool.segs[s].att /\ Pool.segs = segs
      BY <2>1, TickedCarries DEF Carries, Pool, PoolOf
    <2> QED BY <1>2, <2>1, <2>2
  <1>4. /\ seg \in Segments /\ seg.display = t.segs[s].display /\ seg.rev = t.segs[s].rev
        /\ seg.att = t.segs[s].att /\ seg.processed = t.segs[s].processed
        /\ seg.text = t.segs[s].text
    <2>1. left \in Nat \cup {NoDeadline} /\ page \in Pages \cup {0}
      BY IdsAssumption
    <2> QED
      BY <1>3, <2>1 DEF Segments
  <1> HIDE DEF seg
  <1>5. /\ sp \in Segments /\ sp.display = t.segs[s].display /\ sp.rev = t.segs[s].rev
        /\ sp.att = t.segs[s].att /\ sp.processed = t.segs[s].processed
        /\ sp.text = t.segs[s].text
    BY <1>4, SpentType
  <1> HIDE DEF sp
  <1>6. /\ re \in Segments /\ re.display = "Visible" /\ re.rev = t.segs[s].rev
        /\ re.att = 2 /\ re.text = t.segs[s].text
    BY <1>3, <1>5 DEF Segments
  <1>7. Carries(t, SetSegment(t, s, sp)) /\ Carries(t, SetSegment(t, s, Spent(t.segs[s])))
    <2>1. Carries(t, SetSegment(t, s, sp))
      BY <1>1, <1>3, <1>5, SetCarries
    <2>2. Carries(t, SetSegment(t, s, Spent(t.segs[s])))
      BY <1>1, <1>3, SpentType, SetCarries
    <2> QED
      BY <2>1, <2>2
  <1>8. TextBefore(re)
    <2>1. TextOk(t.segs[s])
      BY <1>1, <1>3 DEF TextsOk
    <2>2. t.segs[s].text.rev \in Nat /\ t.segs[s].rev \in Nat /\ t.segs[s].text.att \in Nat
      BY <1>3, TextNumbers
    <2> QED BY <1>3, <1>6, <2>1, <2>2 DEF TextOk, TextBefore
  <1> HIDE DEF re, t
  <1>9. PoolTyped(n) /\ Goes(t, n) /\ n.segs[s] = re
    <2>1. generation > 0 /\ re.rev \in Revisions
      BY <1>1, <1>3, <1>6 DEF PoolTyped, LiveTyped
    <2>2. PoolTyped(n)
      BY <1>1, <1>6, <2>1, SetTyped
    <2>3. TextOk(re) /\ TextMovesOn(t.segs[s].text, re.text)
      BY <1>6, <1>8 DEF TextOk, TextMovesOn
    <2> QED
      BY <1>1, <1>3, <2>2, <2>3, SetGoes
  <1>10. s \in Live(n)
    BY <1>6, <1>9 DEF Live, WithDisplay
  <1> HIDE DEF n
  <1>11. \A e \in Enqueue(n, s, "QualityRetry") : Goes(t, e)
    <2> SUFFICES ASSUME NEW e \in Enqueue(n, s, "QualityRetry") PROVE Goes(t, e)
      OBVIOUS
    <2>1. Carries(n, e)
      BY <1>1, <1>8, <1>9, <1>10, EnqueueCarries DEF Kinds
    <2> QED BY <1>9, <2>1, GoesOn
  <1>12. PICK e : Goes(t, e) /\ Commit(e)
    <2>1. Goes(t, SetSegment(t, s, sp)) /\ Goes(t, SetSegment(t, s, Spent(t.segs[s])))
      BY <1>1, <1>7, CarriesTexts
    <2> QED
      BY <1>11, <2>1 DEF RequestQualityRetry, Requested, n, re, sp, seg, t
  <1> QED
    BY <1>12, AfterTick DEF t

LEMMA CompleteGood ==
  ASSUME StepInv, NEW id \in running, NEW ok \in BOOLEAN, Complete(id, ok)
  PROVE  StepGood
  <1> DEFINE t == Ticked
             s == id.seg
             a == [t.segs[s] EXCEPT !.processed = TRUE]
             b == [t.segs[s] EXCEPT !.processed = TRUE, !.text = [rev |-> id.rev, att |-> id.att]]
             n(seg) == SetSegment(t, s, seg)
  <1>1. PoolTyped(t) /\ TextsOk(t) /\ id \in JobIds /\ s \in SegIds
    BY TickedCarries DEF StepInv, CoreInv, TypeInv, TypeOK, JobIds
  <1>2. PICK m : /\ Commit(PoolOf(m.segs, m.queue, m.cancelled \ {id}))
                 /\ \/ ~Taken(t, id) /\ m = t
                    \/ Taken(t, id) /\ m \in {n(b), RetireSegments(n(a), {s}), n(a)}
    BY DEF Complete, Answered
  <1>3. Goes(t, m)
    <2>1. CASE m = t
      <3>1. Carries(t, t)
        BY DEF Carries
      <3> QED BY <1>1, <2>1, <3>1, CarriesTexts
    <2>2. CASE Taken(t, id) /\ m \in {n(b), RetireSegments(n(a), {s}), n(a)}
      <3>1. /\ s \in Live(t) /\ t.segs[s] \in Segments /\ ~t.segs[s].processed
            /\ id.rev = t.segs[s].rev /\ id.att = t.segs[s].att
        BY <1>1, <2>2 DEF Taken, PoolTyped, CurrentJob
      <3>2. /\ a.display = t.segs[s].display /\ a.rev = t.segs[s].rev
            /\ a.att = t.segs[s].att /\ a.text = t.segs[s].text
        BY <3>1 DEF Segments
      <3>3. /\ b.processed /\ b.text = [rev |-> t.segs[s].rev, att |-> t.segs[s].att]
            /\ b.rev = t.segs[s].rev /\ b.att = t.segs[s].att
        BY <3>1 DEF Segments
      <3>4. TextBefore(t.segs[s])
        BY <1>1, <3>1 DEF TextsOk, TextOk
      <3>5. TextOk(b) /\ TextMovesOn(t.segs[s].text, b.text)
        <4>1. t.segs[s].text.rev \in Nat /\ t.segs[s].rev \in Nat /\ t.segs[s].text.att \in Nat
              /\ t.segs[s].att \in Nat
          BY <3>1, TextNumbers
        <4>2. b.text.rev = t.segs[s].rev /\ b.text.att = t.segs[s].att
          BY <3>3
        <4> QED BY <3>3, <3>4, <4>1, <4>2 DEF TextOk, TextBefore, TextMovesOn
      <3> HIDE DEF a, b, t
      <3>6. Goes(t, n(b))
        BY <1>1, <3>1, <3>5, SetGoes
      <3>7. Carries(t, n(a))
        BY <1>1, <3>1, <3>2, <3>4, SetCarries
      <3> HIDE DEF n
      <3>8. Carries(t, RetireSegments(n(a), {s}))
        BY <3>7, RetireCarries, CarriesOn
      <3> QED BY <1>1, <2>2, <3>6, <3>7, <3>8, CarriesTexts
    <2> QED BY <1>2, <2>1, <2>2
  <1> HIDE DEF n, t, a, b
  <1> DEFINE e == PoolOf(m.segs, m.queue, m.cancelled \ {id})
  <1>4. Goes(t, e) /\ Commit(e)
    BY <1>2, <1>3 DEF Goes, Live, WithDisplay, PoolOf
  <1> HIDE DEF e
  <1> QED
    BY <1>4, AfterTick DEF t

LEMMA VisibleGood ==
  ASSUME StepInv, NEW s \in SegIds, MarkVisible(s)
  PROVE  StepGood
  <1> DEFINE t == Ticked
             seg == [t.segs[s] EXCEPT !.display = "Visible"]
             n == SetSegment(t, s, seg)
  <1>1. PoolTyped(t) /\ t.segs[s] \in Segments
    BY TickedCarries DEF PoolTyped
  <1>2. s \in Live(t) /\ Commit(n)
    BY DEF MarkVisible, MayShow, MarkedVisible
  <1>3. /\ seg.rev = t.segs[s].rev /\ seg.att = t.segs[s].att
        /\ seg.processed = t.segs[s].processed /\ seg.text = t.segs[s].text
    BY <1>1 DEF Segments
  <1> HIDE DEF t, seg
  <1>4. Carries(t, n)
    BY <1>1, <1>2, <1>3, SetCarries
  <1> HIDE DEF n
  <1> QED
    BY <1>2, <1>4, CarriedGood DEF t

LEMMA SettingGood ==
  ASSUME StepInv, NEW on \in BOOLEAN, SetQualityRetry(on)
  PROVE  StepGood
  <1> DEFINE t == Ticked
             Off(x) == [x EXCEPT !.consumed = @ \/ x.suspected \/ x.pending, !.pending = FALSE]
             off == [s \in SegIds |-> Off(t.segs[s])]
             p == PoolOf(off, t.queue, t.cancelled)
             d == DropRetries(p, Retries(t.queue))
             q == CancelIds(d, {id \in running : IsRetryId(id)})
  <1>1. PoolTyped(t)
    BY TickedCarries
  <1>2. \A x \in Segments : /\ Off(x) \in Segments /\ Off(x).display = x.display
                            /\ Off(x).rev = x.rev /\ Off(x).att = x.att
                            /\ Off(x).processed = x.processed /\ Off(x).text = x.text
    <2>1. \A x \in Segments : (x.consumed \/ x.suspected \/ x.pending) \in BOOLEAN
      BY DEF Segments
    <2>2. \A x \in Segments, c \in BOOLEAN :
             LET y == [x EXCEPT !.consumed = c, !.pending = FALSE]
             IN  /\ y \in Segments /\ y.display = x.display /\ y.rev = x.rev
                 /\ y.att = x.att /\ y.processed = x.processed /\ y.text = x.text
      BY DEF Segments
    <2> QED
      BY <2>1, <2>2
  <1>3. \A s \in SegIds : p.segs[s] \in Segments
    BY <1>1, <1>2 DEF PoolTyped, PoolOf
  <1>4. SameCaptions(t, p)
    BY <1>1, <1>2 DEF SameCaptions, PoolTyped, PoolOf
  <1>5. PICK e : Commit(e) /\ (e = t \/ e = q)
    BY DEF SetQualityRetry, WithoutRetries
  <1> HIDE DEF t, Off, off, p
  <1>6. SameCaptions(t, q)
    <2>1. SameCaptions(p, d)
      BY <1>3, SpentType DEF SameCaptions, DropRetries, PoolOf
    <2> HIDE DEF d
    <2> QED
      BY <1>4, <2>1 DEF SameCaptions, CancelIds, PoolOf
  <1> HIDE DEF q
  <1>7. Carries(t, e)
    BY <1>5, <1>6, SameCarries DEF Carries
  <1> QED
    BY <1>5, <1>7, CarriedGood DEF t

LEMMA PageGood ==
  ASSUME StepInv, NEW s \in SegIds, NEW page \in Pages \cup {0},
         NEW left \in Lifetimes \cup {NoDeadline}, NoteDisplayPage(s, page, left)
  PROVE  StepGood
  <1> DEFINE seg == Pool.segs[s]
             reserved == seg.consumed /\ seg.att = 2
             noted == [seg EXCEPT !.page = IF reserved THEN @ ELSE page,
                                  !.left = IF reserved THEN Earlier(@, left)
                                           ELSE IF left # NoDeadline THEN left ELSE @]
             n == SetSegment(Pool, s, noted)
  <1>1. PoolTyped(Pool) /\ seg \in Segments /\ s \in Live(Pool) /\ left \in Nat \cup {NoDeadline}
    BY TickedCarries, IdsAssumption DEF NoteDisplayPage, PoolTyped
  <1>2. /\ noted \in Segments /\ noted.display = seg.display /\ noted.rev = seg.rev
        /\ noted.att = seg.att /\ noted.processed = seg.processed /\ noted.text = seg.text
    <2>1. Earlier(seg.left, left) \in Nat \cup {NoDeadline}
      BY <1>1 DEF Earlier, Segments
    <2>2. \A a \in Pages \cup {0}, b \in Nat \cup {NoDeadline} :
             LET y == [seg EXCEPT !.page = a, !.left = b]
             IN  /\ y \in Segments /\ y.display = seg.display /\ y.rev = seg.rev
                 /\ y.att = seg.att /\ y.processed = seg.processed /\ y.text = seg.text
      BY <1>1 DEF Segments
    <2>3. (IF reserved THEN seg.page ELSE page) \in Pages \cup {0}
      BY <1>1 DEF Segments
    <2>4. (IF reserved THEN Earlier(seg.left, left)
           ELSE IF left # NoDeadline THEN left ELSE seg.left) \in Nat \cup {NoDeadline}
      BY <1>1, <2>1 DEF Segments
    <2> QED
      BY <2>2, <2>3, <2>4
  <1>3. PICK p : /\ Commit(p)
                 /\ \E J : p = DropRetries(Pool, J) \/ p = DropRetries(n, J)
    BY DEF NoteDisplayPage, Noted, ExpireRetries
  <1> HIDE DEF noted
  <1>4. PoolTyped(n) /\ Carries(Pool, n)
    <2>1. generation > 0 /\ noted.rev \in Revisions /\ noted.att \in {1, 2}
      BY <1>1, <1>2 DEF PoolTyped, LiveTyped
    <2> QED
      BY <1>1, <1>2, <2>1, SetTyped, SetCarries
  <1> HIDE DEF n
  <1>5. Carries(Pool, p)
    BY <1>1, <1>3, <1>4, DropCarries, CarriesOn
  <1> QED
    BY <1>3, <1>5, CarriedGood

(* RegisterDuplicate, SetQualityJudgement and Advance leave texts and jobs alone. *)
LEMMA QuietGood ==
  ASSUME StepInv,
         \/ \E s \in SegIds, o \in Orders : RegisterDuplicate(s, o)
         \/ \E s \in SegIds, suspected \in Verdicts, eligible \in BOOLEAN :
               SetQualityJudgement(s, suspected, eligible)
         \/ Advance
  PROVE  StepGood
  <1>1. PoolTyped(Pool) /\ PoolTyped(Ticked)
    BY TickedCarries
  <1>2. ASSUME NEW s \in SegIds, NEW o \in Orders, RegisterDuplicate(s, o)
        PROVE  StepGood
    <2> DEFINE seg == [Ticked.segs[s] EXCEPT !.order = o]
    <2>1. Ticked.segs[s] \in Segments
      BY <1>1 DEF PoolTyped
    <2>2. /\ seg.rev = Ticked.segs[s].rev /\ seg.att = Ticked.segs[s].att
          /\ seg.processed = Ticked.segs[s].processed /\ seg.text = Ticked.segs[s].text
      BY <2>1 DEF Segments
    <2>3. Commit(SetSegment(Ticked, s, seg)) /\ s \in Live(Ticked)
      BY <1>2 DEF RegisterDuplicate
    <2> HIDE DEF seg
    <2>4. Carries(Ticked, SetSegment(Ticked, s, seg))
      BY <1>1, <2>2, <2>3, SetCarries
    <2> QED
      BY <2>3, <2>4, CarriedGood
  <1>3. ASSUME NEW s \in SegIds, NEW suspected \in Verdicts, NEW eligible \in BOOLEAN,
               SetQualityJudgement(s, suspected, eligible)
        PROVE  StepGood
    <2> DEFINE seg == Judged(Pool.segs[s], suspected, eligible)
    <2>1. Pool.segs[s] \in Segments
      BY <1>1 DEF PoolTyped
    <2>2. /\ seg.rev = Pool.segs[s].rev /\ seg.att = Pool.segs[s].att
          /\ seg.processed = Pool.segs[s].processed /\ seg.text = Pool.segs[s].text
      BY <2>1 DEF Judged, Segments
    <2>3. Commit(SetSegment(Pool, s, seg)) /\ s \in Live(Pool)
      BY <1>3 DEF SetQualityJudgement, Commit, SetSegment, Pool, PoolOf
    <2> HIDE DEF seg
    <2>4. Carries(Pool, SetSegment(Pool, s, seg))
      BY <1>1, <2>2, <2>3, SetCarries
    <2> QED
      BY <2>3, <2>4, CarriedGood
  <1>4. CASE Advance
    <2> DEFINE n == PoolOf(Aged(Pool), queue, cancelled)
    <2>1. Commit(n)
      BY <1>4 DEF Advance, Commit, PoolOf
    <2>2. SameCaptions(Pool, n)
      BY <1>1 DEF SameCaptions, Aged, Segments, Pool, PoolOf, PoolTyped
    <2> HIDE DEF n
    <2> QED
      BY <2>1, <2>2, SameCarries, CarriedGood
  <1> QED
    BY <1>2, <1>3, <1>4

(* The calls that only retire, forget, send or drop. *)
LEMMA RetiringGood ==
  ASSUME StepInv,
         \/ \E s \in SegIds, r \in Revisions :
               RegisterUnusableText(s, r) \/ RegisterOverflow(s, r)
         \/ Tick \/ Dispatch \/ DispatchExpiresRetry
         \/ \E s \in SegIds : Retire(s) \/ ForgetRetired(s)
  PROVE  StepGood
  <1>1. PoolTyped(Pool) /\ PoolTyped(Ticked) /\ Carries(Ticked, Ticked)
    BY TickedCarries DEF Carries
  <1>2. CASE Dispatch
    <2>1. PICK j \in Ticked.queue : Commit(Unqueue(Ticked, {j}))
      BY <1>2 DEF Dispatch, Foremost, Eligible
    <2>2. Carries(Ticked, Unqueue(Ticked, {j}))
      BY DEF Carries, Unqueue, PoolOf, Live, WithDisplay
    <2> QED BY <2>1, <2>2, CarriedGood
  <1>3. CASE DispatchExpiresRetry
    <2>1. \E J : Commit(DropRetries(Ticked, J))
      BY <1>3 DEF DispatchExpiresRetry
    <2> QED BY <1>1, <2>1, DropCarries, CarriedGood
  <1>4. ASSUME NEW s \in SegIds, ForgetRetired(s) PROVE StepGood
    <2> DEFINE n == PoolOf([segs EXCEPT ![s] = Absent], queue, cancelled)
    <2>1. Commit(n)
      BY <1>4 DEF ForgetRetired, Commit, PoolOf
    <2>2. \A x \in SegIds : n.segs[x] = IF x = s THEN Absent ELSE Pool.segs[x]
      BY <1>1 DEF PoolTyped, Pool, PoolOf
    <2> HIDE DEF n
    <2>3. Carries(Pool, n)
      BY <2>2, AbsentType DEF Carries, Live, WithDisplay
    <2> QED BY <2>1, <2>3, CarriedGood
  <1>5. CASE \/ \E s \in SegIds, r \in Revisions :
                   RegisterUnusableText(s, r) \/ RegisterOverflow(s, r)
             \/ Tick \/ \E s \in SegIds : Retire(s)
    <2>1. PICK e : /\ Commit(e)
                   /\ \/ e = Ticked
                      \/ \E S : e = RetireSegments(Ticked, S) \/ e = RetireSegments(Pool, S)
      BY <1>5 DEF RegisterUnusableText, RegisterOverflow, Tick, Retire
    <2> QED BY <1>1, <2>1, RetireCarries, CarriedGood
  <1> QED
    BY <1>2, <1>3, <1>4, <1>5

LEMMA StepGoes ==
  ASSUME StepInv, [Next]_vars
  PROVE  StepGood
  <1>1. ASSUME NEW g \in 1..MaxGeneration, ResetGeneration(g) PROVE StepGood
    <2>1. \A s \in SegIds : segs'[s].display = "Absent"
      BY <1>1, AbsentType DEF ResetGeneration
    <2>2. Live(Pool') = {}
      BY <2>1 DEF Pool, PoolOf, Live, WithDisplay
    <2> QED
      BY <2>2 DEF StepGood, Goes
  <1>2. ASSUME NEW s \in SegIds, NEW r \in Revisions, NEW o \in Orders,
               NEW replaces \in SUBSET SegIds, RegisterRevision(s, r, o, replaces)
        PROVE  StepGood
    BY <1>2, RegisterGood
  <1>3. ASSUME NEW s \in SegIds, NEW page \in Pages \cup {0},
               NEW left \in Lifetimes \cup {NoDeadline},
               RequestQualityRetry(s, page, left) \/ NoteDisplayPage(s, page, left)
        PROVE  StepGood
    BY <1>3, RetryGood, PageGood
  <1>4. ASSUME NEW id \in running, NEW ok \in BOOLEAN, Complete(id, ok) PROVE StepGood
    BY <1>4, CompleteGood
  <1>5. ASSUME NEW s \in SegIds, MarkVisible(s) PROVE StepGood
    BY <1>5, VisibleGood
  <1>6. ASSUME NEW on \in BOOLEAN, SetQualityRetry(on) PROVE StepGood
    BY <1>6, SettingGood
  <1>7. CASE \/ \E s \in SegIds, o \in Orders : RegisterDuplicate(s, o)
             \/ \E s \in SegIds, suspected \in Verdicts, eligible \in BOOLEAN :
                   SetQualityJudgement(s, suspected, eligible)
             \/ Advance
    BY <1>7, QuietGood
  <1>8. CASE \/ \E s \in SegIds, r \in Revisions :
                   RegisterUnusableText(s, r) \/ RegisterOverflow(s, r)
             \/ Tick \/ Dispatch \/ DispatchExpiresRetry
             \/ \E s \in SegIds : Retire(s) \/ ForgetRetired(s)
    BY <1>8, RetiringGood
  <1>9. CASE UNCHANGED vars
    <2>1. Commit(Pool) /\ Carries(Pool, Pool)
      BY <1>9 DEF vars, Commit, Pool, PoolOf, Carries
    <2> QED BY <2>1, CarriedGood
  <1> QED
    BY <1>1, <1>2, <1>3, <1>4, <1>5, <1>6, <1>7, <1>8, <1>9 DEF Next

-----------------------------------------------------------------------------
(* The theorems. *)

(* The text of a live segment is the answer to its current job, or to an older one while
   the current job has no answer: every call keeps it so. *)
THEOREM TextsAreOfTheirJobs == Spec => []StepInv
  <1>1. Init => StepInv
    <2> SUFFICES ASSUME Init PROVE StepInv
      OBVIOUS
    <2>1. \A s \in SegIds : segs[s].display = "Absent"
      BY AbsentType DEF Init
    <2>2. Live(Pool) = {}
      BY <2>1 DEF Pool, PoolOf, Live, WithDisplay
    <2> QED
      BY <2>2, InitCore DEF StepInv, TextsOk
  <1>2. StepInv /\ [Next]_vars => StepInv'
    <2> SUFFICES ASSUME StepInv, [Next]_vars PROVE StepInv'
      OBVIOUS
    <2>1. CoreInv'
      BY StepCore DEF StepInv
    <2>2. TextsOk(Pool')
      BY StepGoes DEF StepGood, Goes, TextsOk
    <2>3. TextsOk(Pool)'
      BY <2>2 DEF TextsOk
    <2> QED BY <2>1, <2>3 DEF StepInv
  <1> QED
    BY <1>1, <1>2, PTL DEF Spec

(* While a segment lives its text moves only to the translation of a later revision or
   attempt (complete). *)
THEOREM TextsNeverGoBack == Spec => TextNeverGoesBack
  <1> DEFINE Onward ==
        \A s \in SegIds :
          s \in Live(Pool) /\ s \in Live(Pool)' /\ segs'[s].text # segs[s].text =>
              \/ segs'[s].text.rev > segs[s].text.rev
              \/ segs'[s].text.rev = segs[s].text.rev /\ segs'[s].text.att > segs[s].text.att
  <1>1. StepInv /\ [Next]_vars => [Onward]_vars
    <2> SUFFICES ASSUME StepInv, [Next]_vars PROVE Onward
      OBVIOUS
    <2>1. Pool.segs = segs /\ Pool'.segs = segs' /\ Live(Pool)' = Live(Pool')
      BY DEF Pool, PoolOf, Live, WithDisplay
    <2> QED
      BY <2>1, StepGoes DEF StepGood, Goes, TextMovesOn
  <1> QED
    BY TextsAreOfTheirJobs, <1>1, PTL DEF Spec, TextNeverGoesBack

(* Within a generation an id that was retired, forgotten or skipped never names a live
   segment again (retire_segment, the ReusedId check of register_segment). *)
THEOREM RetiredStaysRetired == Spec => RetiredForGood
  <1> DEFINE Gone ==
        \A s \in SegIds :
          /\ generation' = generation
          /\ s <= highWater /\ s \notin Live(Pool)
          => s \notin Live(Pool)'
  <1>1. StepInv /\ [Next]_vars => [Gone]_vars
    <2> SUFFICES ASSUME StepInv, [Next]_vars,
                        NEW s \in SegIds, s <= highWater, s \notin Live(Pool)
                 PROVE  s \notin Live(Pool)'
      OBVIOUS
    <2>1. Live(Pool)' = Live(Pool')
      BY DEF Live, WithDisplay
    <2>2. ~(s > highWater)
      <3>1. highWater \in SegIds \cup {0} /\ SegIds \cup {0} \subseteq Nat
        BY IdsAssumption DEF StepInv, CoreInv, TypeInv, TypeOK
      <3> QED BY <3>1
    <2> QED
      BY <2>1, <2>2, StepGoes DEF StepGood, Goes
  <1> QED
    BY TextsAreOfTheirJobs, <1>1, PTL DEF Spec, RetiredForGood

(* What the tick takes from the queue besides retries belonged to segments it retired. *)
LEMMA TickDropsRetries ==
  ASSUME PoolTyped(Pool), NEW j \in General(queue), j \notin Ticked.queue
  PROVE  j.id.seg \notin Live(Ticked)
  <1> DEFINE W == {s \in Waiting(Pool) : Pool.segs[s].age >= StaleAge}
             R == W \cap Live(Pool)
             r == RetireSegments(Pool, W)
             J == {k \in Retries(r.queue) : k.id.seg \notin Live(r) \/ r.segs[k.id.seg].left = 0}
  <1>1. /\ \A s \in SegIds : r.segs[s] = IF s \in R THEN Tombstone ELSE Pool.segs[s]
        /\ r.queue = Pool.queue \ QueuedFor(Pool.queue, R)
        /\ r.cancelled = Pool.cancelled \cup {id \in running : id.gen = generation /\ id.seg \in R}
        /\ Live(r) = Live(Pool) \ W
        /\ WithDisplay(r, {"Visible"}) = WithDisplay(Pool, {"Visible"}) \ W
    BY RetireFields
  <1>2. Ticked = DropRetries(r, J) /\ PoolTyped(r)
    BY RetireTyped DEF Ticked, TickedPool, ExpireRetries
  <1>3. \A k \in J : IsRetry(k)
    BY DEF Retries
  <1> HIDE DEF r, J, W
  <1>4. Ticked.queue = r.queue \ J /\ Live(Ticked) = Live(r)
    BY <1>2, DropShape, LiveOf DEF SameShape
  <1>5. j \in Pool.queue /\ ~IsRetry(j)
    BY DEF General, Pool, PoolOf
  <1>6. j.id.seg \in R
    BY <1>1, <1>3, <1>4, <1>5 DEF QueuedFor
  <1> QED
    BY <1>1, <1>4, <1>6

(* A retry is started only for the visible segment, with time left to show it and with no
   ordinary translation queued (dispatch). *)
THEOREM RetriesAlwaysYield == Spec => RetriesYield
  <1> DEFINE Yields ==
        \A id \in running' \ running :
          IsRetryId(id) =>
              /\ General(queue) \subseteq QueuedFor(queue, {s \in SegIds : s \notin Live(Pool)'})
              /\ segs'[id.seg].display = "Visible"
              /\ RemainingOk(segs'[id.seg])
  <1>1. StepInv /\ [Next]_vars => [Yields]_vars
    <2> SUFFICES ASSUME StepInv, Next, NEW id \in running' \ running, IsRetryId(id)
                 PROVE  /\ General(queue) \subseteq
                             QueuedFor(queue, {s \in SegIds : s \notin Live(Pool)'})
                        /\ segs'[id.seg].display = "Visible"
                        /\ RemainingOk(segs'[id.seg])
      OBVIOUS
    <2>1. Dispatch
      <3>1. ~(\E x \in running, ok \in BOOLEAN : Complete(x, ok))
        BY DEF Complete, Released
      <3> QED BY <3>1, OnlyTheseMoveSlots
    <2>2. PICK j \in Eligible(Ticked) :
             Commit(Unqueue(Ticked, {j})) /\ running' = running \cup {j.id}
      BY <2>1 DEF Dispatch, Foremost
    <2>3. j.id = id /\ j \in Ticked.queue
      BY <2>2 DEF Eligible
    <2>4. PoolTyped(Pool) /\ Core(Ticked, {}, highWater)
      BY TickedCarries
    <2>5. IsRetry(j)
      BY <2>3, <2>4 DEF Core, JobOk
    <2>6. RetryMayStart(Ticked) /\ RetryWorthwhile(Ticked, j)
      BY <2>2, <2>5 DEF Eligible
    <2>7. segs' = Ticked.segs /\ Live(Pool)' = Live(Ticked)
      BY <2>2 DEF Commit, Unqueue, Pool, PoolOf, Live, WithDisplay
    <2>8. ASSUME NEW k \in General(queue)
          PROVE  k \in QueuedFor(queue, {s \in SegIds : s \notin Live(Pool)'})
      <3>1. k \in queue /\ k.id.seg \in SegIds /\ ~IsRetry(k)
        BY <2>8 DEF General, StepInv, CoreInv, TypeInv, TypeOK, Jobs, JobIds
      <3>2. k \notin Ticked.queue
        BY <2>6, <3>1 DEF RetryMayStart, General
      <3>3. k.id.seg \notin Live(Ticked)
        BY <2>4, <2>8, <3>2, TickDropsRetries
      <3> QED
        BY <2>7, <3>1, <3>3 DEF QueuedFor
    <2> QED
      BY <2>3, <2>6, <2>7, <2>8 DEF RetryWorthwhile
  <1> QED
    BY TextsAreOfTheirJobs, <1>1, PTL DEF Spec, RetriesYield

=============================================================================
