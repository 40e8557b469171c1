--------------------- MODULE TranslationSchedulerProofs ---------------------
(* Proofs about TranslationScheduler for every value of its constants: its      *)
(* types, and its safety.                                                       *)
EXTENDS TranslationScheduler, FiniteSetTheorems, TLAPS

(* Every live segment has a revision and an attempt, so its current job is a job id. *)
LiveTyped(p) ==
    \A s \in Live(p) :
        generation > 0 /\ p.segs[s].rev \in Revisions /\ p.segs[s].att \in {1, 2}

PoolTyped(p) ==
    /\ p.segs \in [SegIds -> Segments]
    /\ p.queue \subseteq Jobs
    /\ p.cancelled \subseteq running
    /\ LiveTyped(p)

(* TypeOK is not inductive: a job is built from the revision of a live segment. *)
TypeInv == TypeOK /\ LiveTyped(Pool)

-----------------------------------------------------------------------------
(* Types of the helpers. *)

LEMMA TextType == NoText \in [rev : Revisions \cup {0}, att : {0, 1, 2}]
  BY DEF NoText

LEMMA AbsentType == Absent \in Segments /\ Absent.display = "Absent"
  <1>1. 0 \in 0..StaleAge
    BY LimitsAssumption
  <1>2. NoDeadline \in Nat \cup {NoDeadline}
    OBVIOUS
  <1>3. "Absent" \in Displays
    BY DEF Displays
  <1> QED
    BY TextType, <1>1, <1>2, <1>3 DEF Segments, Absent

LEMMA TombstoneType == Tombstone \in Segments /\ Tombstone.display = "Retired"
  <1>1. "Retired" \in Displays
    BY DEF Displays
  <1> QED
    BY AbsentType, <1>1 DEF Segments, Tombstone

LEMMA SpentType ==
  ASSUME NEW seg \in Segments
  PROVE  /\ Spent(seg) \in Segments
         /\ Spent(seg).display = seg.display
         /\ Spent(seg).rev = seg.rev
         /\ Spent(seg).att = seg.att
         /\ Spent(seg).processed = seg.processed
         /\ Spent(seg).text = seg.text
  BY DEF Spent, Segments

LEMMA CancelTyped ==
  ASSUME NEW p, PoolTyped(p), NEW ids \in SUBSET running
  PROVE  PoolTyped(CancelIds(p, ids))
  BY DEF PoolTyped, LiveTyped, CancelIds, Live, WithDisplay, PoolOf

LEMMA UnqueueTyped ==
  ASSUME NEW p, PoolTyped(p), NEW J
  PROVE  PoolTyped(Unqueue(p, J))
  BY DEF PoolTyped, LiveTyped, Unqueue, Live, WithDisplay, PoolOf

LEMMA PushTyped ==
  ASSUME NEW p, PoolTyped(p), NEW j \in Jobs
  PROVE  PoolTyped(Push(p, j))
  BY DEF PoolTyped, LiveTyped, Push, Live, WithDisplay, PoolOf

(* Replacing the record of one segment. *)
LEMMA SetTyped ==
  ASSUME NEW p, PoolTyped(p), NEW s \in SegIds, NEW seg \in Segments,
         seg.display \in {"Waiting", "Visible"} =>
            generation > 0 /\ seg.rev \in Revisions /\ seg.att \in {1, 2}
  PROVE  PoolTyped(SetSegment(p, s, seg))
  BY DEF PoolTyped, LiveTyped, SetSegment, Live, WithDisplay, PoolOf

LEMMA DropTyped ==
  ASSUME NEW p, PoolTyped(p), NEW J
  PROVE  PoolTyped(DropRetries(p, J)) /\ Live(DropRetries(p, J)) = Live(p)
  <1> DEFINE q == DropRetries(p, J)
             S == [s \in SegIds |-> IF s \in Live(p) /\ QueuedFor(J, {s}) # {}
                                    THEN Spent(p.segs[s]) ELSE p.segs[s]]
  <1>1. q = PoolOf(S, p.queue \ J, p.cancelled)
    BY DEF DropRetries
  <1>2. \A s \in SegIds : /\ q.segs[s] \in Segments
                          /\ q.segs[s].display = p.segs[s].display
                          /\ q.segs[s].rev = p.segs[s].rev
                          /\ q.segs[s].att = p.segs[s].att
    BY <1>1, SpentType DEF PoolTyped, PoolOf
  <1>3. Live(q) = Live(p)
    BY <1>2 DEF Live, WithDisplay
  <1>4. /\ q.segs = S
        /\ q.queue = p.queue \ J
        /\ q.cancelled = p.cancelled
    BY <1>1 DEF PoolOf
  <1>5. q.segs \in [SegIds -> Segments]
    BY <1>2, <1>4
  <1>6. LiveTyped(q)
    BY <1>2, <1>3 DEF PoolTyped, LiveTyped, Live, WithDisplay
  <1> QED
    BY <1>3, <1>4, <1>5, <1>6 DEF PoolTyped

LEMMA RetireTyped ==
  ASSUME NEW p, PoolTyped(p), NEW S
  PROVE  PoolTyped(RetireSegments(p, S))
  <1> DEFINE R == S \cap Live(p)
             T == [s \in SegIds |-> IF s \in R THEN Tombstone ELSE p.segs[s]]
             kept == PoolOf(T, p.queue \ QueuedFor(p.queue, R), p.cancelled)
  <1>1. T \in [SegIds -> Segments]
    BY TombstoneType DEF PoolTyped
  <1>2. \A s \in Live(kept) : s \in Live(p) /\ kept.segs[s] = p.segs[s]
    BY TombstoneType DEF Live, WithDisplay, PoolOf
  <1>3. PoolTyped(kept)
    BY <1>1, <1>2 DEF PoolTyped, LiveTyped, PoolOf
  <1> QED
    BY <1>3, CancelTyped DEF RetireSegments, CancelRunning

LEMMA TickTyped ==
  ASSUME PoolTyped(Pool)
  PROVE  PoolTyped(Ticked)
  BY RetireTyped, DropTyped DEF Ticked, TickedPool, ExpireRetries

(* The tick retires waiting segments only. *)
LEMMA TickKeepsVisible ==
  ASSUME PoolTyped(Pool), NEW s \in SegIds, segs[s].display = "Visible"
  PROVE  /\ s \in Live(Ticked)
         /\ Ticked.segs[s].display = "Visible"
  <1> DEFINE W == {x \in Waiting(Pool) : Pool.segs[x].age >= StaleAge}
             r == RetireSegments(Pool, W)
  <1>1. PoolTyped(r)
    BY RetireTyped
  <1>2. r.segs[s] = segs[s]
    BY DEF RetireSegments, CancelRunning, CancelIds, Pool, PoolOf, Waiting, WithDisplay
  <1>3. s \in Live(r)
    BY <1>2 DEF Live, WithDisplay
  <1>4. \A J : DropRetries(r, J).segs[s].display = r.segs[s].display
    BY <1>1, SpentType DEF DropRetries, PoolOf, PoolTyped
  <1> QED
    BY <1>1, <1>2, <1>3, <1>4, DropTyped DEF Ticked, TickedPool, ExpireRetries

LEMMA EnforceTyped ==
  ASSUME NEW p, PoolTyped(p), NEW e \in EnforceLimits(p)
  PROVE  PoolTyped(e)
  <1> DEFINE d == IF Cardinality(p.queue) > MaxQueued THEN DropRetries(p, Retries(p.queue)) ELSE p
  <1>1. PoolTyped(d)
    BY DropTyped
  <1>2. \E P : e = RetireSegments(d, P)
    BY DEF EnforceLimits
  <1> QED
    BY <1>1, <1>2, RetireTyped

LEMMA CurrentJobType ==
  ASSUME NEW p, PoolTyped(p), NEW s \in Live(p), generation \in 0..MaxGeneration
  PROVE  CurrentJob(p, s) \in JobIds
  BY IdsAssumption DEF PoolTyped, LiveTyped, Live, WithDisplay, CurrentJob, JobIds

LEMMA EnqueueTyped ==
  ASSUME NEW p, PoolTyped(p), NEW s \in Live(p), NEW kind \in Kinds,
         generation \in 0..MaxGeneration, NEW e \in Enqueue(p, s, kind)
  PROVE  PoolTyped(e)
  <1> DEFINE old == QueuedFor(p.queue, {s})
             f == IF kind = "QualityRetry" THEN p ELSE DropRetries(p, Retries(old))
             d == Unqueue(f, old)
             c == CancelRunning(d, {s})
             job == [id |-> CurrentJob(p, s), kind |-> kind]
             q == Push(c, job)
             seg == [c.segs[s] EXCEPT !.processed = FALSE]
             n == SetSegment(q, s, seg)
  <1>1. PoolTyped(f) /\ Live(f) = Live(p)
    BY DropTyped
  <1>2. PoolTyped(c)
    BY <1>1, UnqueueTyped, CancelTyped DEF CancelRunning
  <1>3. job \in Jobs
    BY CurrentJobType DEF Jobs
  <1>4. PoolTyped(q)
    BY <1>2, <1>3, PushTyped
  <1>5. s \in SegIds /\ s \in Live(c) /\ c.segs[s] \in Segments
    BY <1>1, <1>2 DEF CancelRunning, CancelIds, Unqueue, Live, WithDisplay, PoolTyped, PoolOf
  <1>6. /\ seg \in Segments
        /\ seg.rev = c.segs[s].rev /\ seg.att = c.segs[s].att
    BY <1>5 DEF Segments
  <1>7. generation > 0 /\ seg.rev \in Revisions /\ seg.att \in {1, 2}
    BY <1>2, <1>5, <1>6 DEF PoolTyped, LiveTyped
  <1>8. PoolTyped(n)
    BY <1>4, <1>5, <1>6, <1>7, SetTyped
  <1> QED
    BY <1>8, EnforceTyped DEF Enqueue

-----------------------------------------------------------------------------
(* Type correctness. *)

LEMMA PoolTypedNow == TypeInv => PoolTyped(Pool)
  BY DEF TypeInv, TypeOK, PoolTyped, Pool, PoolOf

(* A step that commits a well-typed pool keeps the invariant. *)
LEMMA CommitTyped ==
  ASSUME NEW p, PoolTyped(p), Commit(p), generation' = generation
  PROVE  /\ segs' \in [SegIds -> Segments]
         /\ queue' \subseteq Jobs
         /\ cancelled' \subseteq running
         /\ LiveTyped(Pool)'
  BY DEF PoolTyped, Commit, LiveTyped, Pool, PoolOf, Live, WithDisplay

THEOREM InitTypes == Init => TypeInv
  <1> SUFFICES ASSUME Init PROVE TypeInv
    OBVIOUS
  <1>0. segs \in [SegIds -> Segments]
    BY AbsentType DEF Init
  <1>a. generation \in 0..MaxGeneration /\ highWater \in SegIds \cup {0}
    BY IdsAssumption DEF Init
  <1>b. lastUpdate \in BOOLEAN /\ qualityOn \in BOOLEAN
    BY DEF Init
  <1>1. TypeOK
    BY <1>0, <1>a, <1>b DEF Init, TypeOK
  <1>2. Live(Pool) = {}
    BY AbsentType DEF Init, Live, WithDisplay, Pool, PoolOf
  <1> QED
    BY <1>1, <1>2 DEF TypeInv, LiveTyped

THEOREM StepTypes == TypeInv /\ [Next]_vars => TypeInv'
  <1> SUFFICES ASSUME TypeInv, [Next]_vars PROVE TypeInv'
    OBVIOUS
  <1> DEFINE t == Ticked
  <1>t. PoolTyped(t)
    BY PoolTypedNow, TickTyped
  <1>1. ASSUME NEW g \in 1..MaxGeneration, ResetGeneration(g) PROVE TypeInv'
    <2>1. RetireSegments(Pool, SegIds).cancelled \subseteq running
      BY PoolTypedNow, RetireTyped DEF PoolTyped
    <2>2. segs' \in [SegIds -> Segments] /\ Live(Pool)' = {}
      BY <1>1, AbsentType DEF ResetGeneration, Live, WithDisplay, Pool, PoolOf
    <2>3. generation' \in 0..MaxGeneration
      BY <1>1, IdsAssumption DEF ResetGeneration
    <2>4. cancelled' \subseteq running' /\ queue' \subseteq Jobs
      BY <1>1, <2>1 DEF ResetGeneration
    <2>5. LiveTyped(Pool)'
      BY <2>2 DEF LiveTyped
    <2> QED
      BY <1>1, <2>2, <2>3, <2>4, <2>5 DEF ResetGeneration, TypeInv, TypeOK
  <1>2. ASSUME NEW s \in SegIds, NEW r \in Revisions, RegisterUnusableText(s, r) PROVE TypeInv'
    <2>1. PoolTyped(RetireSegments(t, {s}))
      BY <1>t, RetireTyped
    <2> QED
      BY <1>2, <2>1, CommitTyped DEF RegisterUnusableText, TypeInv, TypeOK
  <1>3. ASSUME NEW s \in SegIds, NEW r \in Revisions, RegisterOverflow(s, r) PROVE TypeInv'
    BY <1>3, <1>t, CommitTyped DEF RegisterOverflow, TypeInv, TypeOK
  <1>4. ASSUME NEW s \in SegIds, NEW o \in Orders, RegisterDuplicate(s, o) PROVE TypeInv'
    <2> DEFINE seg == [t.segs[s] EXCEPT !.order = o]
    <2>1. s \in Live(t) /\ t.segs[s] \in Segments
      BY <1>4, <1>t DEF RegisterDuplicate, PoolTyped
    <2>2. seg \in Segments /\ seg.rev = t.segs[s].rev /\ seg.att = t.segs[s].att
      BY <2>1 DEF Segments
    <2>3. PoolTyped(SetSegment(t, s, seg))
      BY <1>t, <2>1, <2>2, SetTyped DEF PoolTyped, LiveTyped
    <2> QED
      BY <1>4, <2>3, CommitTyped DEF RegisterDuplicate, Unticked, TypeInv, TypeOK
  <1>5. ASSUME NEW s \in SegIds, NEW r \in Revisions, NEW o \in Orders,
               NEW replaces \in SUBSET SegIds, RegisterRevision(s, r, o, replaces)
        PROVE  TypeInv'
    <2> DEFINE fresh == t.segs[s].display = "Absent"
               base == IF fresh THEN NewSegment ELSE t.segs[s]
               seg == Revised(base, r, o)
               n == SetSegment(t, s, seg)
               p == RetireSegments(n, replaces \ {s})
               kind == IF fresh THEN "Initial" ELSE "SourceUpdate"
    <2>1. NewSegment \in Segments /\ NewSegment.display = "Waiting"
      BY AbsentType DEF NewSegment, Segments, Displays
    <2>2. generation > 0 /\ (s \in Live(t) \/ fresh)
      BY <1>5 DEF RegisterRevision, Registered, Acceptable
    <2>3. base \in Segments /\ base.display \in {"Waiting", "Visible"}
      BY <1>t, <2>1, <2>2 DEF PoolTyped, Live, WithDisplay
    <2>4. seg \in Segments /\ seg.display = base.display /\ seg.rev = r /\ seg.att = 1
      BY <2>3 DEF Revised, Segments
    <2>5. PoolTyped(n)
      BY <1>t, <2>2, <2>4, SetTyped
    <2>6. n.segs[s] = seg /\ s \in Live(n)
      BY <1>t, <2>3, <2>4 DEF PoolTyped, SetSegment, PoolOf, Live, WithDisplay
    <2>7. PoolTyped(p)
      BY <2>5, RetireTyped
    <2>8. s \in Live(p)
      BY <2>6 DEF RetireSegments, CancelRunning, CancelIds, PoolOf, Live, WithDisplay
    <2>9. PICK e \in Enqueue(p, s, kind) : Commit(e)
      BY <1>5 DEF RegisterRevision, Registered
    <2>10. PoolTyped(e)
      BY <2>7, <2>8, <2>9, EnqueueTyped DEF TypeInv, TypeOK, Kinds
    <2> QED
      BY <1>5, <2>9, <2>10, CommitTyped DEF RegisterRevision, Registered, TypeInv, TypeOK
  <1>6. ASSUME NEW s \in SegIds, NEW page \in Pages \cup {0},
               NEW left \in Lifetimes \cup {NoDeadline}, RequestQualityRetry(s, page, left)
        PROVE  TypeInv'
    <2> DEFINE seg == [t.segs[s] EXCEPT !.page = IF page # 0 THEN page ELSE @,
                                        !.left = IF left # NoDeadline THEN left ELSE @]
               sp == Spent(seg)
               re == [sp EXCEPT !.att = 2]
    <2>1. s \in Live(t) /\ t.segs[s] \in Segments
      <3>1. s \in Live(Pool) /\ segs[s].display = "Visible"
        BY <1>6 DEF RequestQualityRetry, MayRetry, Requested, Pool, PoolOf, Live, WithDisplay
      <3> QED
        BY <3>1, <1>t, PoolTypedNow, TickKeepsVisible DEF PoolTyped
    <2>2. left \in Nat \cup {NoDeadline} /\ page \in Pages \cup {0}
      BY IdsAssumption
    <2>3. seg \in Segments /\ seg.display = t.segs[s].display
          /\ seg.rev = t.segs[s].rev /\ seg.att = t.segs[s].att
      BY <2>1, <2>2 DEF Segments
    <2>4. Spent(t.segs[s]) \in Segments /\ sp \in Segments
      BY <2>1, <2>3, SpentType
    <2>4a. \A x \in Segments : LET y == [x EXCEPT !.att = 2]
                                IN  y \in Segments /\ y.display = x.display /\ y.rev = x.rev /\ y.att = 2
      BY DEF Segments
    <2>4b. sp.display = t.segs[s].display /\ sp.rev = t.segs[s].rev /\ sp.att = t.segs[s].att
      <3> HIDE DEF seg
      <3> QED
        BY <2>3, SpentType
    <2>5. re \in Segments /\ re.display = t.segs[s].display /\ re.rev = t.segs[s].rev /\ re.att = 2
      BY <2>4, <2>4a, <2>4b
    <2>6. generation > 0 /\ t.segs[s].rev \in Revisions /\ t.segs[s].att \in {1, 2}
      BY <1>t, <2>1 DEF PoolTyped, LiveTyped
    <2>7. PoolTyped(SetSegment(t, s, Spent(t.segs[s]))) /\ PoolTyped(SetSegment(t, s, sp))
      <3>1. PoolTyped(SetSegment(t, s, Spent(t.segs[s])))
        BY <1>t, <2>1, <2>4, <2>6, SpentType, SetTyped
      <3> QED
        BY <3>1, <1>t, <2>4, <2>4b, <2>6, SetTyped
    <2>8. PoolTyped(SetSegment(t, s, re)) /\ s \in Live(SetSegment(t, s, re))
      <3>1. PoolTyped(SetSegment(t, s, re))
        BY <1>t, <2>5, <2>6, SetTyped
      <3> QED
        BY <3>1, <2>1, <2>5, <1>t DEF PoolTyped, SetSegment, PoolOf, Live, WithDisplay
    <2>9. \A e \in Enqueue(SetSegment(t, s, re), s, "QualityRetry") : PoolTyped(e)
      BY <2>8, EnqueueTyped DEF TypeInv, TypeOK, Kinds
    <2>10. PICK e : PoolTyped(e) /\ Commit(e)
      BY <1>6, <2>7, <2>9 DEF RequestQualityRetry, MayRetry, Requested
    <2> QED
      BY <1>6, <2>10, CommitTyped DEF RequestQualityRetry, MayRetry, Requested, Unticked, TypeInv, TypeOK
  <1>7. CASE Dispatch
    <2>1. PICK j \in Eligible(t) :
            /\ Commit(Unqueue(t, {j}))
            /\ running' = running \cup {j.id}
            /\ sent' = sent \cup {j.id}
            /\ lastUpdate' = (j.kind = "SourceUpdate")
      BY <1>7 DEF Dispatch, Foremost
    <2>2. j.id \in JobIds
      BY <2>1, <1>t DEF Eligible, PoolTyped, Jobs
    <2>3. PoolTyped(Unqueue(t, {j}))
      BY <1>t, UnqueueTyped
    <2>4. generation' = generation
      BY <1>7 DEF Dispatch, Foremost
    <2>5. /\ segs' \in [SegIds -> Segments] /\ queue' \subseteq Jobs
          /\ cancelled' \subseteq running /\ LiveTyped(Pool)'
      BY <2>1, <2>3, <2>4, CommitTyped
    <2>6. lastUpdate' \in BOOLEAN
      BY <2>1
    <2> QED
      BY <1>7, <2>1, <2>2, <2>5, <2>6 DEF Dispatch, Foremost, TypeInv, TypeOK
  <1>8. CASE DispatchExpiresRetry
    BY <1>8, <1>t, DropTyped, CommitTyped DEF DispatchExpiresRetry, Unticked, TypeInv, TypeOK
  <1>9. ASSUME NEW id \in running, NEW ok \in BOOLEAN, Complete(id, ok) PROVE TypeInv'
    <2> DEFINE s == id.seg
               a == [t.segs[s] EXCEPT !.processed = TRUE]
               b == [t.segs[s] EXCEPT !.processed = TRUE, !.text = [rev |-> id.rev, att |-> id.att]]
               taken == Taken(t, id)
               result == IF ~taken THEN t ELSE Answered(t, id, ok)
    <2>1. id \in JobIds
      BY DEF TypeInv, TypeOK
    <2>2. s \in SegIds /\ [rev |-> id.rev, att |-> id.att] \in [rev : Revisions \cup {0}, att : {0, 1, 2}]
      BY <2>1 DEF JobIds
    <2>3. t.segs[s] \in Segments
      BY <1>t, <2>2 DEF PoolTyped
    <2>4. /\ a \in Segments /\ a.rev = t.segs[s].rev /\ a.att = t.segs[s].att
          /\ a.display = t.segs[s].display
      BY <2>3 DEF Segments
    <2>5. /\ b \in Segments /\ b.rev = t.segs[s].rev /\ b.att = t.segs[s].att
          /\ b.display = t.segs[s].display
      BY <2>2, <2>3 DEF Segments
    <2>6. s \in Live(t) => generation > 0 /\ t.segs[s].rev \in Revisions /\ t.segs[s].att \in {1, 2}
      BY <1>t DEF PoolTyped, LiveTyped
    <2>7. taken => PoolTyped(SetSegment(t, s, a)) /\ PoolTyped(SetSegment(t, s, b))
      BY <1>t, <2>2, <2>4, <2>5, <2>6, SetTyped DEF Taken
    <2>8. PoolTyped(result)
      BY <1>t, <2>7, RetireTyped DEF Answered
    <2> HIDE DEF result
    <2>9. Commit(PoolOf(result.segs, result.queue, result.cancelled \ {id}))
      BY <1>9 DEF Complete, result
    <2>10. /\ segs' = result.segs /\ queue' = result.queue
           /\ cancelled' = result.cancelled \ {id}
      BY <2>9 DEF Commit, PoolOf
    <2>11. running' = running \ {id} /\ generation' = generation
      BY <1>9 DEF Complete, Released
    <2>12. cancelled' \subseteq running'
      BY <2>8, <2>10, <2>11 DEF PoolTyped
    <2>13. LiveTyped(Pool)'
      BY <2>8, <2>10, <2>11 DEF PoolTyped, LiveTyped, Pool, PoolOf, Live, WithDisplay
    <2> QED
      BY <1>9, <2>8, <2>10, <2>11, <2>12, <2>13 DEF Complete, PoolTyped, TypeInv, TypeOK
  <1>10. ASSUME NEW s \in SegIds, MarkVisible(s) PROVE TypeInv'
    <2> DEFINE seg == [t.segs[s] EXCEPT !.display = "Visible"]
    <2>1. s \in Live(t) /\ t.segs[s] \in Segments
      BY <1>10, <1>t DEF MarkVisible, MayShow, MarkedVisible, PoolTyped
    <2>2. seg \in Segments /\ seg.rev = t.segs[s].rev /\ seg.att = t.segs[s].att
      BY <2>1 DEF Segments, Displays
    <2>3. PoolTyped(SetSegment(t, s, seg))
      BY <1>t, <2>1, <2>2, SetTyped DEF PoolTyped, LiveTyped
    <2> QED
      BY <1>10, <2>3, CommitTyped DEF MarkVisible, MayShow, MarkedVisible, Unticked, TypeInv, TypeOK
  <1>11. ASSUME NEW s \in SegIds, Retire(s) PROVE TypeInv'
    BY <1>11, PoolTypedNow, RetireTyped, CommitTyped DEF Retire, Unticked, TypeInv, TypeOK
  <1>12. ASSUME NEW s \in SegIds, ForgetRetired(s) PROVE TypeInv'
    <2>1. segs' \in [SegIds -> Segments]
      BY <1>12, AbsentType DEF ForgetRetired, TypeInv, TypeOK
    <2>2. LiveTyped(Pool)'
      BY <1>12, AbsentType DEF ForgetRetired, Unticked, TypeInv, TypeOK, LiveTyped, Pool, PoolOf,
                              Live, WithDisplay
    <2> QED
      BY <1>12, <2>1, <2>2 DEF ForgetRetired, Unticked, TypeInv, TypeOK
  <1>13. ASSUME NEW on \in BOOLEAN, SetQualityRetry(on) PROVE TypeInv'
    <2> DEFINE Off(x) == [x EXCEPT !.consumed = @ \/ x.suspected \/ x.pending, !.pending = FALSE]
               off == [s \in SegIds |-> Off(t.segs[s])]
               p == PoolOf(off, t.queue, t.cancelled)
               dropped == DropRetries(p, Retries(t.queue))
    <2>1. \A x \in Segments : /\ Off(x) \in Segments /\ Off(x).display = x.display
                              /\ Off(x).rev = x.rev /\ Off(x).att = x.att
      <3>1. \A x \in Segments : (x.consumed \/ x.suspected \/ x.pending) \in BOOLEAN
        BY DEF Segments
      <3>2. \A x \in Segments, c \in BOOLEAN :
               LET y == [x EXCEPT !.consumed = c, !.pending = FALSE]
               IN  y \in Segments /\ y.display = x.display /\ y.rev = x.rev /\ y.att = x.att
        BY DEF Segments
      <3> QED
        BY <3>1, <3>2
    <2>2. off \in [SegIds -> Segments]
      BY <1>t, <2>1 DEF PoolTyped
    <2>3. LiveTyped(p)
      BY <1>t, <2>1 DEF PoolTyped, LiveTyped, PoolOf, Live, WithDisplay
    <2>4. PoolTyped(p)
      BY <1>t, <2>2, <2>3 DEF PoolTyped, PoolOf
    <2>5. PoolTyped(CancelIds(dropped, {id \in running : IsRetryId(id)}))
      BY <2>4, DropTyped, CancelTyped
    <2>6. PICK e : PoolTyped(e) /\ Commit(e)
      BY <1>13, <1>t, <2>5 DEF SetQualityRetry, WithoutRetries
    <2> QED
      BY <1>13, <2>6, CommitTyped DEF SetQualityRetry, WithoutRetries, TypeInv, TypeOK
  <1>14. ASSUME NEW s \in SegIds, NEW suspected \in Verdicts, NEW eligible \in BOOLEAN,
                SetQualityJudgement(s, suspected, eligible)
         PROVE  TypeInv'
    <2> DEFINE seg == [segs[s] EXCEPT !.suspected = suspected,
                                      !.pending = eligible /\ suspected /\ ~segs[s].consumed]
    <2>1. segs[s] \in Segments /\ suspected \in BOOLEAN
      BY IdsAssumption DEF TypeInv, TypeOK
    <2>2. (eligible /\ suspected /\ ~segs[s].consumed) \in BOOLEAN
      BY <2>1 DEF Segments
    <2>3. seg \in Segments /\ seg.display = segs[s].display
          /\ seg.rev = segs[s].rev /\ seg.att = segs[s].att
      BY <2>1, <2>2 DEF Segments
    <2>4. segs' = [segs EXCEPT ![s] = seg]
      BY <1>14 DEF SetQualityJudgement, Judged
    <2>5. segs' \in [SegIds -> Segments]
      BY <2>3, <2>4 DEF TypeInv, TypeOK
    <2>6. LiveTyped(Pool)'
      BY <1>14, <2>3, <2>4 DEF SetQualityJudgement, Judged, Unticked, TypeInv, TypeOK, LiveTyped, Pool,
                               PoolOf, Live, WithDisplay
    <2> QED
      BY <1>14, <2>5, <2>6 DEF SetQualityJudgement, Judged, Unticked, TypeInv, TypeOK
  <1>15. ASSUME NEW s \in SegIds, NEW page \in Pages \cup {0},
                NEW left \in Lifetimes \cup {NoDeadline}, NoteDisplayPage(s, page, left)
         PROVE  TypeInv'
    <2> DEFINE seg == Pool.segs[s]
               reserved == seg.consumed /\ seg.att = 2
               noted == [seg EXCEPT !.page = IF reserved THEN @ ELSE page,
                                    !.left = IF reserved THEN Earlier(@, left)
                                             ELSE IF left # NoDeadline THEN left ELSE @]
    <2>1. seg \in Segments /\ s \in Live(Pool) /\ left \in Nat \cup {NoDeadline}
      BY <1>15, IdsAssumption DEF NoteDisplayPage, TypeInv, TypeOK, Pool, PoolOf
    <2>2. Earlier(seg.left, left) \in Nat \cup {NoDeadline}
      BY <2>1 DEF Earlier, Segments
    <2>3. noted \in Segments /\ noted.display = seg.display
          /\ noted.rev = seg.rev /\ noted.att = seg.att
      <3>1. \A a \in Pages \cup {0}, b \in Nat \cup {NoDeadline} :
               LET y == [seg EXCEPT !.page = a, !.left = b]
               IN  y \in Segments /\ y.display = seg.display /\ y.rev = seg.rev /\ y.att = seg.att
        BY <2>1 DEF Segments
      <3>2. (IF reserved THEN seg.page ELSE page) \in Pages \cup {0}
        BY <2>1 DEF Segments
      <3>3. (IF reserved THEN Earlier(seg.left, left)
             ELSE IF left # NoDeadline THEN left ELSE seg.left) \in Nat \cup {NoDeadline}
        BY <2>1, <2>2 DEF Segments
      <3> QED
        BY <3>1, <3>2, <3>3
    <2>4. PoolTyped(SetSegment(Pool, s, noted))
      BY <2>1, <2>3, PoolTypedNow, SetTyped DEF TypeInv, LiveTyped, Pool, PoolOf
    <2>5. PICK e : PoolTyped(e) /\ Commit(e)
      BY <1>15, <2>4, PoolTypedNow, DropTyped DEF NoteDisplayPage, Noted, ExpireRetries
    <2> QED
      BY <1>15, <2>5, CommitTyped DEF NoteDisplayPage, Noted, Unticked, TypeInv, TypeOK
  <1>16. CASE Tick
    BY <1>16, <1>t, CommitTyped DEF Tick, Unticked, TypeInv, TypeOK
  <1>17. CASE Advance
    <2> DEFINE Older1(x) == [x EXCEPT !.age = IF @ < StaleAge THEN @ + 1 ELSE @,
                                      !.left = IF @ > 0 THEN @ - 1 ELSE @]
    <2>1. \A x \in Segments : /\ Older1(x) \in Segments /\ Older1(x).display = x.display
                              /\ Older1(x).rev = x.rev /\ Older1(x).att = x.att
      <3> SUFFICES ASSUME NEW x \in Segments
                   PROVE  /\ Older1(x) \in Segments /\ Older1(x).display = x.display
                          /\ Older1(x).rev = x.rev /\ Older1(x).att = x.att
        OBVIOUS
      <3>1. x.age \in 0..StaleAge /\ x.left \in Nat \cup {NoDeadline}
        BY DEF Segments
      <3>2. (IF x.age < StaleAge THEN x.age + 1 ELSE x.age) \in 0..StaleAge
        BY <3>1, LimitsAssumption
      <3>3. (IF x.left > 0 THEN x.left - 1 ELSE x.left) \in Nat \cup {NoDeadline}
        BY <3>1 DEF NoDeadline
      <3> QED
        BY <3>2, <3>3 DEF Segments
    <2>2. \A s \in SegIds : /\ segs'[s] \in Segments /\ segs'[s].display = segs[s].display
                            /\ segs'[s].rev = segs[s].rev /\ segs'[s].att = segs[s].att
      BY <1>17, <2>1 DEF Advance, Aged, Pool, PoolOf, TypeInv, TypeOK
    <2>3. segs' \in [SegIds -> Segments]
      BY <1>17, <2>2 DEF Advance, Aged, Pool, PoolOf
    <2>4. LiveTyped(Pool)'
      BY <1>17, <2>2 DEF Advance, Aged, Unticked, TypeInv, LiveTyped, Pool, PoolOf, Live, WithDisplay
    <2> QED
      BY <1>17, <2>3, <2>4 DEF Advance, Aged, Unticked, TypeInv, TypeOK
  <1>18. CASE UNCHANGED vars
    BY <1>18 DEF vars, TypeInv, TypeOK, LiveTyped, Pool, PoolOf, Live, WithDisplay
  <1> QED
    BY <1>1, <1>2, <1>3, <1>4, <1>5, <1>6, <1>7, <1>8, <1>9, <1>10, <1>11, <1>12, <1>13, <1>14,
       <1>15, <1>16, <1>17, <1>18 DEF Next

(* The state of the reducer is always well formed, in particular no cancel mark
   outlives its transport slot. *)
THEOREM TypeCorrect == Spec => []TypeOK
  <1>1. TypeInv => TypeOK
    BY DEF TypeInv
  <1> QED
    BY InitTypes, StepTypes, <1>1, PTL DEF Spec

-----------------------------------------------------------------------------
(* The inductive invariant behind JobsAreCurrent, OneRetryQueued and            *)
(* DispatchedOnce.  Core(p, X, h) speaks of a pool p in the middle of a call:   *)
(* the jobs of the segments X may be out of date (a new revision was stored and *)
(* its job is not queued yet), and h is the high water the call leaves behind.  *)

JobOk(p, j) ==
    /\ j.id.seg \in Live(p)
    /\ j.id = CurrentJob(p, j.id.seg)
    /\ ~p.segs[j.id.seg].processed
    /\ IsRetry(j) <=> IsRetryId(j.id)
    /\ IsRetry(j) => p.segs[j.id.seg].display = "Visible"

WireOk(p, id) ==
    /\ id.seg \in Live(p)
    /\ id = CurrentJob(p, id.seg)
    /\ ~p.segs[id.seg].processed

(* Whatever was sent is of an older generation, or of an allocated segment and no
   newer than the segment's current job. *)
SentOk(p, id, h) ==
    \/ id.gen < generation
    \/ /\ id.gen = generation
       /\ id.seg <= h
       /\ id.seg \in Live(p) =>
            \/ id.rev < p.segs[id.seg].rev
            \/ id.rev = p.segs[id.seg].rev /\ id.att <= p.segs[id.seg].att

Core(p, X, h) ==
    /\ \A j \in p.queue : j.id.seg \notin X => JobOk(p, j)
    /\ \A j \in p.queue : j.id \notin sent
    /\ \A j, k \in p.queue : j.id.seg = k.id.seg => j = k
    /\ \A id \in running \ p.cancelled :
          ~(id.gen = generation /\ id.seg \in X) => WireOk(p, id)
    /\ \A s, t \in WithDisplay(p, {"Visible"}) : s = t
    /\ \A s \in SegIds : p.segs[s].display # "Absent" => s <= h
    /\ \A id \in sent : SentOk(p, id, h)

CoreInv ==
    /\ TypeInv
    /\ running \subseteq sent
    /\ Core(Pool, {}, highWater)

LEMMA CancelCore ==
  ASSUME NEW p, NEW X, NEW h, Core(p, X, h), NEW ids
  PROVE  Core(CancelIds(p, ids), X, h)
  BY DEF Core, CancelIds, PoolOf, JobOk, WireOk, SentOk, Live, WithDisplay, CurrentJob

LEMMA UnqueueCore ==
  ASSUME NEW p, NEW X, NEW h, Core(p, X, h), NEW J
  PROVE  Core(Unqueue(p, J), X, h)
  BY DEF Core, Unqueue, PoolOf, JobOk, WireOk, SentOk, Live, WithDisplay, CurrentJob

LEMMA SegmentNumbers ==
  ASSUME NEW seg \in Segments
  PROVE  seg.rev \in Nat /\ seg.att \in Nat
  <1>1. seg.rev \in Revisions \cup {0} /\ seg.att \in {0, 1, 2}
    BY DEF Segments
  <1>2. Revisions \cup {0} \subseteq Nat /\ {0, 1, 2} \subseteq Nat
    BY IdsAssumption
  <1> QED
    BY <1>1, <1>2

LEMMA JobNumbers ==
  ASSUME NEW id \in JobIds
  PROVE  id.seg \in SegIds /\ id.seg \in Nat /\ id.rev \in Nat /\ id.att \in Nat /\ id.gen \in Nat
  <1>1. id.seg \in SegIds /\ id.rev \in Revisions /\ id.att \in {1, 2} /\ id.gen \in 1..MaxGeneration
    BY DEF JobIds
  <1>2. /\ SegIds \subseteq Nat /\ Revisions \subseteq Nat
        /\ {1, 2} \subseteq Nat /\ 1..MaxGeneration \subseteq Nat
    BY IdsAssumption
  <1> QED
    BY <1>1, <1>2

LEMMA LiveOf ==
  ASSUME NEW p, NEW q, \A s \in SegIds : q.segs[s].display = p.segs[s].display
  PROVE  Live(q) = Live(p) /\ WithDisplay(q, {"Visible"}) = WithDisplay(p, {"Visible"})
  BY DEF Live, WithDisplay

LEMMA JobOf ==
  ASSUME NEW p, NEW q, NEW s, q.segs[s].rev = p.segs[s].rev, q.segs[s].att = p.segs[s].att
  PROVE  CurrentJob(q, s) = CurrentJob(p, s)
  BY DEF CurrentJob

(* Two pools whose segments agree on what Core reads. *)
SameShape(p, q) ==
    \A s \in SegIds : /\ q.segs[s].display = p.segs[s].display
                      /\ q.segs[s].rev = p.segs[s].rev
                      /\ q.segs[s].att = p.segs[s].att
                      /\ q.segs[s].processed = p.segs[s].processed

LEMMA ShapeCore ==
  ASSUME NEW p, NEW q, NEW X, NEW h, Core(p, X, h), SameShape(p, q),
         q.queue \subseteq p.queue, p.cancelled \subseteq q.cancelled
  PROVE  Core(q, X, h)
  <1>1. Live(q) = Live(p) /\ WithDisplay(q, {"Visible"}) = WithDisplay(p, {"Visible"})
    BY DEF SameShape, Live, WithDisplay
  <1>2. \A s \in Live(p) : CurrentJob(q, s) = CurrentJob(p, s)
    BY DEF SameShape, CurrentJob, Live, WithDisplay
  <1>3. \A s \in Live(p) : s \in SegIds
    BY DEF Live, WithDisplay
  <1>4. \A j \in p.queue : JobOk(p, j) => JobOk(q, j)
    BY <1>1, <1>2, <1>3 DEF JobOk, SameShape
  <1>5. \A id \in running : WireOk(p, id) => WireOk(q, id)
    BY <1>1, <1>2, <1>3 DEF WireOk, SameShape
  <1>6. \A id \in sent : SentOk(p, id, h) => SentOk(q, id, h)
    BY <1>1, <1>3 DEF SentOk, SameShape
  <1> QED
    BY <1>1, <1>4, <1>5, <1>6 DEF Core, SameShape

LEMMA DropShape ==
  ASSUME NEW p, PoolTyped(p), NEW J
  PROVE  /\ SameShape(p, DropRetries(p, J))
         /\ DropRetries(p, J).queue = p.queue \ J
         /\ DropRetries(p, J).cancelled = p.cancelled
  BY SpentType DEF SameShape, DropRetries, PoolOf, PoolTyped

LEMMA DropCore ==
  ASSUME NEW p, PoolTyped(p), NEW X, NEW h, Core(p, X, h), NEW J
  PROVE  Core(DropRetries(p, J), X, h)
  BY DropShape, ShapeCore

LEMMA RetireFields ==
  ASSUME NEW p, NEW S
  PROVE  LET r == RetireSegments(p, S)
             R == S \cap Live(p)
         IN  /\ \A s \in SegIds : r.segs[s] = IF s \in R THEN Tombstone ELSE p.segs[s]
             /\ r.queue = p.queue \ QueuedFor(p.queue, R)
             /\ r.cancelled = p.cancelled \cup {id \in running : id.gen = generation /\ id.seg \in R}
             /\ Live(r) = Live(p) \ S
             /\ WithDisplay(r, {"Visible"}) = WithDisplay(p, {"Visible"}) \ S
  <1> DEFINE r == RetireSegments(p, S)
             R == S \cap Live(p)
  <1>1. /\ r.segs = [s \in SegIds |-> IF s \in R THEN Tombstone ELSE p.segs[s]]
        /\ r.queue = p.queue \ QueuedFor(p.queue, R)
        /\ r.cancelled = p.cancelled \cup {id \in running : id.gen = generation /\ id.seg \in R}
    BY DEF RetireSegments, CancelRunning, CancelIds, PoolOf
  <1>2. Live(r) = Live(p) \ S
    BY <1>1, TombstoneType DEF Live, WithDisplay
  <1>3. WithDisplay(r, {"Visible"}) = WithDisplay(p, {"Visible"}) \ S
    BY <1>1, TombstoneType DEF Live, WithDisplay
  <1> QED
    BY <1>1, <1>2, <1>3

LEMMA RetireCore ==
  ASSUME NEW p, PoolTyped(p), NEW X, NEW h, Core(p, X, h), NEW S
  PROVE  Core(RetireSegments(p, S), X, h)
  <1> DEFINE r == RetireSegments(p, S)
             R == S \cap Live(p)
  <1>1. /\ \A s \in SegIds : r.segs[s] = IF s \in R THEN Tombstone ELSE p.segs[s]
        /\ r.queue = p.queue \ QueuedFor(p.queue, R)
        /\ r.cancelled = p.cancelled \cup {id \in running : id.gen = generation /\ id.seg \in R}
        /\ Live(r) = Live(p) \ S
        /\ WithDisplay(r, {"Visible"}) = WithDisplay(p, {"Visible"}) \ S
    BY RetireFields
  <1> HIDE DEF r
  <1>2. \A s \in Live(r) : s \in SegIds /\ s \in Live(p) /\ r.segs[s] = p.segs[s]
    BY <1>1 DEF Live, WithDisplay
  <1>3. \A s \in Live(r) : CurrentJob(r, s) = CurrentJob(p, s)
    BY <1>2 DEF CurrentJob
  <1>4. \A j \in r.queue : j \in p.queue /\ j.id.seg \notin R
    BY <1>1 DEF QueuedFor
  <1>5. \A j \in r.queue : j.id.seg \notin X => JobOk(r, j)
    <2> SUFFICES ASSUME NEW j \in r.queue, j.id.seg \notin X PROVE JobOk(r, j)
      OBVIOUS
    <2>1. JobOk(p, j)
      BY <1>4 DEF Core
    <2>2. j.id.seg \in Live(r)
      BY <2>1, <1>1, <1>4 DEF JobOk
    <2> QED
      BY <2>1, <2>2, <1>2, <1>3 DEF JobOk
  <1>6. \A id \in running \ r.cancelled : ~(id.gen = generation /\ id.seg \in X) => WireOk(r, id)
    <2> SUFFICES ASSUME NEW id \in running \ r.cancelled, ~(id.gen = generation /\ id.seg \in X)
                 PROVE  WireOk(r, id)
      OBVIOUS
    <2>1. WireOk(p, id) /\ ~(id.gen = generation /\ id.seg \in R)
      BY <1>1 DEF Core
    <2>2. id.seg \in Live(r)
      BY <2>1, <1>1 DEF WireOk, CurrentJob
    <2> QED
      BY <2>1, <2>2, <1>2, <1>3 DEF WireOk
  <1>7. \A s \in SegIds : r.segs[s].display # "Absent" => s <= h
    BY <1>1 DEF Core, Live, WithDisplay
  <1>8. \A id \in sent : SentOk(r, id, h)
    BY <1>2 DEF Core, SentOk
  <1>9. \A a, b \in WithDisplay(r, {"Visible"}) : a = b
    BY <1>1 DEF Core
  <1>10. /\ \A j \in r.queue : j.id \notin sent
         /\ \A j, k \in r.queue : j.id.seg = k.id.seg => j = k
    BY <1>4 DEF Core
  <1>11. Core(r, X, h)
    BY <1>5, <1>6, <1>7, <1>8, <1>9, <1>10 DEF Core
  <1> QED
    BY <1>11 DEF r

LEMMA TickCore ==
  ASSUME PoolTyped(Pool), NEW h, Core(Pool, {}, h)
  PROVE  Core(Ticked, {}, h)
  BY RetireTyped, RetireCore, DropCore DEF Ticked, TickedPool, ExpireRetries

LEMMA EnforceCore ==
  ASSUME NEW p, PoolTyped(p), NEW X, NEW h, Core(p, X, h), NEW e \in EnforceLimits(p)
  PROVE  Core(e, X, h)
  <1> DEFINE d == IF Cardinality(p.queue) > MaxQueued THEN DropRetries(p, Retries(p.queue)) ELSE p
  <1>1. PoolTyped(d) /\ Core(d, X, h)
    BY DropTyped, DropCore
  <1>2. \E P : e = RetireSegments(d, P)
    BY DEF EnforceLimits
  <1> QED
    BY <1>1, <1>2, RetireCore

(* Enqueue brings the one segment that was out of date up to date. *)
LEMMA EnqueueCore ==
  ASSUME NEW p, PoolTyped(p), NEW s \in Live(p), NEW h, Core(p, {s}, h),
         CurrentJob(p, s) \notin sent,
         NEW kind \in Kinds,
         kind = "QualityRetry" <=> p.segs[s].att > 1,
         kind = "QualityRetry" => p.segs[s].display = "Visible",
         generation \in 0..MaxGeneration,
         NEW e \in Enqueue(p, s, kind)
  PROVE  Core(e, {}, h)
  <1> DEFINE old == QueuedFor(p.queue, {s})
             f == IF kind = "QualityRetry" THEN p ELSE DropRetries(p, Retries(old))
             d == Unqueue(f, old)
             c == CancelRunning(d, {s})
             job == [id |-> CurrentJob(p, s), kind |-> kind]
             q == Push(c, job)
             seg == [c.segs[s] EXCEPT !.processed = FALSE]
             n == SetSegment(q, s, seg)
  <1>1. PoolTyped(f) /\ Core(f, {s}, h) /\ SameShape(p, f)
        /\ f.queue \subseteq p.queue /\ Live(f) = Live(p)
    <2>1. PoolTyped(f) /\ Core(f, {s}, h) /\ Live(f) = Live(p)
      BY DropTyped, DropCore
    <2> QED
      BY <2>1, DropShape DEF SameShape
  <1>2. PoolTyped(c) /\ Core(c, {s}, h)
    BY <1>1, UnqueueTyped, UnqueueCore, CancelTyped, CancelCore DEF CancelRunning
  <1>3. /\ c.segs = f.segs
        /\ c.queue = f.queue \ old
        /\ c.cancelled = f.cancelled \cup {id \in running : id.gen = generation /\ id.seg \in {s}}
    BY DEF CancelRunning, CancelIds, Unqueue, PoolOf
  <1>4. s \in SegIds /\ c.segs[s] \in Segments /\ Live(c) = Live(p)
    BY <1>1, <1>2, <1>3 DEF PoolTyped, Live, WithDisplay
  <1>5. /\ seg.display = c.segs[s].display /\ seg.rev = c.segs[s].rev
        /\ seg.att = c.segs[s].att /\ seg.processed = FALSE
    BY <1>4 DEF Segments
  <1>6. /\ n.segs = [c.segs EXCEPT ![s] = seg]
        /\ n.queue = c.queue \cup {job}
        /\ n.cancelled = c.cancelled
    BY DEF SetSegment, Push, PoolOf
  <1> HIDE DEF f, d, c, q, seg, n
  <1>7. /\ \A x \in SegIds : /\ n.segs[x].display = c.segs[x].display
                             /\ n.segs[x].rev = c.segs[x].rev
                             /\ n.segs[x].att = c.segs[x].att
                             /\ x # s => n.segs[x] = c.segs[x]
        /\ n.segs[s].processed = FALSE
    BY <1>2, <1>4, <1>5, <1>6 DEF PoolTyped
  <1>8. Live(n) = Live(c) /\ WithDisplay(n, {"Visible"}) = WithDisplay(c, {"Visible"})
    BY <1>7, LiveOf
  <1>9. \A x \in SegIds : CurrentJob(n, x) = CurrentJob(c, x)
    BY <1>7, JobOf
  <1>10. CurrentJob(n, s) = CurrentJob(p, s) /\ n.segs[s].att = p.segs[s].att
         /\ n.segs[s].display = p.segs[s].display
    <2>1. /\ n.segs[s].rev = p.segs[s].rev /\ n.segs[s].att = p.segs[s].att
          /\ n.segs[s].display = p.segs[s].display
      BY <1>1, <1>3, <1>4, <1>7 DEF SameShape
    <2> QED
      BY <2>1, JobOf
  <1>11. \A j \in n.queue : j = job \/ (j \in c.queue /\ j.id.seg # s)
    BY <1>1, <1>3, <1>6 DEF QueuedFor
  <1>12. job.id = CurrentJob(p, s) /\ job.kind = kind /\ job.id.seg = s /\ job.id.att = p.segs[s].att
    BY DEF CurrentJob
  <1> HIDE DEF job
  <1>13. \A j \in n.queue : JobOk(n, j)
    <2>1. JobOk(n, job)
      BY <1>4, <1>7, <1>8, <1>10, <1>12 DEF JobOk, IsRetry, IsRetryId
    <2>2. \A j \in c.queue : j.id.seg # s => JobOk(n, j)
      <3> SUFFICES ASSUME NEW j \in c.queue, j.id.seg # s PROVE JobOk(n, j)
        OBVIOUS
      <3>1. JobOk(c, j)
        BY <1>2 DEF Core
      <3>2. j.id.seg \in SegIds
        BY <3>1 DEF JobOk, Live, WithDisplay
      <3> QED
        BY <3>1, <3>2, <1>7, <1>8, <1>9 DEF JobOk
    <2> QED
      BY <2>1, <2>2, <1>11
  <1>14. \A id \in running \ n.cancelled : WireOk(n, id)
    <2> SUFFICES ASSUME NEW id \in running \ n.cancelled PROVE WireOk(n, id)
      OBVIOUS
    <2>1. ~(id.gen = generation /\ id.seg \in {s}) /\ id \in running \ c.cancelled
      BY <1>3, <1>6
    <2>2. WireOk(c, id)
      BY <1>2, <2>1 DEF Core
    <2>3. id.seg # s /\ id.seg \in SegIds
      BY <2>1, <2>2 DEF WireOk, CurrentJob, Live, WithDisplay
    <2> QED
      BY <2>2, <2>3, <1>7, <1>8, <1>9 DEF WireOk
  <1>15. \A id \in sent : SentOk(n, id, h)
    <2>1. \A x \in Live(c) : x \in SegIds
      BY DEF Live, WithDisplay
    <2> QED
      BY <1>2, <1>7, <1>8, <2>1 DEF Core, SentOk
  <1>16. \A j \in n.queue : j.id \notin sent
    BY <1>2, <1>11, <1>12 DEF Core
  <1>17. \A j, k \in n.queue : j.id.seg = k.id.seg => j = k
    BY <1>2, <1>11, <1>12 DEF Core
  <1>18. \A a, b \in WithDisplay(n, {"Visible"}) : a = b
    BY <1>2, <1>8 DEF Core
  <1>19. \A x \in SegIds : n.segs[x].display # "Absent" => x <= h
    BY <1>2, <1>7 DEF Core
  <1>20. Core(n, {}, h)
    BY <1>13, <1>14, <1>15, <1>16, <1>17, <1>18, <1>19 DEF Core
  <1>21. PoolTyped(n)
    <2>1. job \in Jobs
      BY CurrentJobType DEF Jobs, job
    <2>2. PoolTyped(q) /\ q.segs = c.segs
      BY <1>2, <2>1, PushTyped DEF q, Push, PoolOf
    <2>3. seg \in Segments
      BY <1>4 DEF seg, Segments
    <2>4. generation > 0 /\ seg.rev \in Revisions /\ seg.att \in {1, 2}
      BY <1>2, <1>4, <1>5 DEF PoolTyped, LiveTyped
    <2> QED
      BY <2>2, <2>3, <2>4, <1>4, SetTyped DEF n
  <1> QED
    BY <1>20, <1>21, EnforceCore DEF Enqueue, n, q, seg, c, d, f, job

(* Replacing one segment's record while a call is under way. *)
LEMMA SetCore ==
  ASSUME NEW p, PoolTyped(p), NEW X, NEW h, NEW h2, Core(p, X, h),
         NEW s \in SegIds, NEW seg \in Segments,
         h \in Nat, h2 \in Nat, h <= h2, s <= h2, sent \subseteq JobIds,
         seg.display = "Visible" => WithDisplay(p, {"Visible"}) \subseteq {s},
         seg.display \in {"Waiting", "Visible"} =>
            IF s \in Live(p)
            THEN \/ seg.rev > p.segs[s].rev
                 \/ seg.rev = p.segs[s].rev /\ seg.att >= p.segs[s].att
            ELSE h < s
  PROVE  Core(SetSegment(p, s, seg), X \cup {s}, h2)
  <1> DEFINE n == SetSegment(p, s, seg)
  <1>1. n.segs = [p.segs EXCEPT ![s] = seg] /\ n.queue = p.queue /\ n.cancelled = p.cancelled
    BY DEF SetSegment, PoolOf
  <1> HIDE DEF n
  <1>2. n.segs[s] = seg /\ \A x \in SegIds \ {s} : n.segs[x] = p.segs[x]
    BY <1>1 DEF PoolTyped
  <1>3. \A x \in SegIds \ {s} : (x \in Live(n) <=> x \in Live(p)) /\ CurrentJob(n, x) = CurrentJob(p, x)
    BY <1>2 DEF Live, WithDisplay, CurrentJob
  <1>4. \A j \in n.queue : j.id.seg \notin X \cup {s} => JobOk(n, j)
    <2> SUFFICES ASSUME NEW j \in p.queue, j.id.seg \notin X \cup {s} PROVE JobOk(n, j)
      BY <1>1
    <2>1. JobOk(p, j) /\ j.id.seg \in SegIds \ {s}
      BY DEF Core, JobOk, Live, WithDisplay
    <2> QED
      BY <2>1, <1>2, <1>3 DEF JobOk
  <1>5. \A id \in running \ n.cancelled : ~(id.gen = generation /\ id.seg \in X \cup {s}) => WireOk(n, id)
    <2> SUFFICES ASSUME NEW id \in running \ p.cancelled,
                        ~(id.gen = generation /\ id.seg \in X \cup {s})
                 PROVE  WireOk(n, id)
      BY <1>1
    <2>1. WireOk(p, id)
      BY DEF Core
    <2>2. id.seg \in SegIds \ {s}
      BY <2>1 DEF WireOk, CurrentJob, Live, WithDisplay
    <2> QED
      BY <2>1, <2>2, <1>2, <1>3 DEF WireOk
  <1>6. \A a, b \in WithDisplay(n, {"Visible"}) : a = b
    <2>1. \A a \in WithDisplay(n, {"Visible"}) : a = s \/ a \in WithDisplay(p, {"Visible"})
      BY <1>2 DEF WithDisplay
    <2>2. s \in WithDisplay(n, {"Visible"}) => seg.display = "Visible"
      BY <1>2 DEF WithDisplay
    <2> QED
      BY <2>1, <2>2 DEF Core
  <1>7. \A x \in SegIds : n.segs[x].display # "Absent" => x <= h2
    <2> SUFFICES ASSUME NEW x \in SegIds, n.segs[x].display # "Absent", x # s PROVE x <= h2
      OBVIOUS
    <2>1. x <= h /\ x \in Nat
      BY <1>2, IdsAssumption DEF Core
    <2> QED
      BY <2>1
  <1>8. \A id \in sent : SentOk(n, id, h2)
    <2> SUFFICES ASSUME NEW id \in sent, ~(id.gen < generation) PROVE SentOk(n, id, h2)
      BY DEF SentOk
    <2>1. /\ id.gen = generation /\ id.seg <= h
          /\ id.seg \in Live(p) => \/ id.rev < p.segs[id.seg].rev
                                   \/ id.rev = p.segs[id.seg].rev /\ id.att <= p.segs[id.seg].att
      <3>1. SentOk(p, id, h)
        BY DEF Core
      <3> QED
        BY <3>1 DEF SentOk
    <2>2. id.seg \in SegIds /\ id.seg \in Nat /\ id.rev \in Nat /\ id.att \in Nat
      BY JobNumbers
    <2>3. id.seg <= h2
      BY <2>1, <2>2
    <2>4. CASE id.seg # s
      BY <2>1, <2>2, <2>3, <2>4, <1>2, <1>3 DEF SentOk
    <2>5. CASE id.seg = s
      <3> SUFFICES ASSUME s \in Live(n)
                   PROVE  \/ id.rev < seg.rev
                          \/ id.rev = seg.rev /\ id.att <= seg.att
        BY <2>1, <2>3, <2>5, <1>2 DEF SentOk
      <3>1. seg.display \in {"Waiting", "Visible"}
        BY <1>2 DEF Live, WithDisplay
      <3>2. ~(h < s)
        BY <2>1, <2>2, <2>5
      <3>3. /\ s \in Live(p)
            /\ \/ seg.rev > p.segs[s].rev
               \/ seg.rev = p.segs[s].rev /\ seg.att >= p.segs[s].att
        BY <3>1, <3>2
      <3>4. p.segs[s] \in Segments
        BY DEF PoolTyped
      <3>5. /\ p.segs[s].rev \in Nat /\ p.segs[s].att \in Nat
            /\ seg.rev \in Nat /\ seg.att \in Nat
        BY <3>4, SegmentNumbers
      <3> QED
        BY <2>1, <2>2, <2>5, <3>3, <3>5
    <2> QED
      BY <2>4, <2>5
  <1>9. /\ \A j \in n.queue : j.id \notin sent
        /\ \A j, k \in n.queue : j.id.seg = k.id.seg => j = k
    BY <1>1 DEF Core
  <1>10. Core(n, X \cup {s}, h2)
    BY <1>4, <1>5, <1>6, <1>7, <1>8, <1>9 DEF Core
  <1> QED
    BY <1>10 DEF n
-----------------------------------------------------------------------------
(* Steps of Next. *)

LEMMA CommitCore ==
  ASSUME NEW p, NEW h, Core(p, {}, h), Commit(p), highWater' = h,
         generation' = generation, running' = running, sent' = sent
  PROVE  Core(Pool, {}, highWater)'
  BY DEF Core, Commit, Pool, PoolOf, JobOk, WireOk, SentOk, Live, WithDisplay, CurrentJob

LEMMA SetShape ==
  ASSUME NEW p, PoolTyped(p), NEW s \in SegIds, NEW seg,
         seg.display = p.segs[s].display, seg.rev = p.segs[s].rev,
         seg.att = p.segs[s].att, seg.processed = p.segs[s].processed
  PROVE  /\ SameShape(p, SetSegment(p, s, seg))
         /\ SetSegment(p, s, seg).queue = p.queue
         /\ SetSegment(p, s, seg).cancelled = p.cancelled
  BY DEF PoolTyped, SameShape, SetSegment, PoolOf

LEMMA SetShapeCore ==
  ASSUME NEW p, PoolTyped(p), NEW h, Core(p, {}, h), NEW s \in SegIds, NEW seg,
         seg.display = p.segs[s].display, seg.rev = p.segs[s].rev,
         seg.att = p.segs[s].att, seg.processed = p.segs[s].processed
  PROVE  Core(SetSegment(p, s, seg), {}, h)
  BY SetShape, ShapeCore

(* The high water may only rise. *)
LEMMA RaiseCore ==
  ASSUME NEW p, NEW X, NEW h \in Nat, NEW h2 \in Nat, h <= h2, Core(p, X, h), sent \subseteq JobIds
  PROVE  Core(p, X, h2)
  <1>1. \A s \in SegIds : p.segs[s].display # "Absent" => s <= h2
    <2> SUFFICES ASSUME NEW s \in SegIds, p.segs[s].display # "Absent" PROVE s <= h2
      OBVIOUS
    <2>1. s <= h /\ s \in Nat
      BY IdsAssumption DEF Core
    <2> QED
      BY <2>1
  <1>2. \A id \in sent : SentOk(p, id, h2)
    <2> SUFFICES ASSUME NEW id \in sent PROVE SentOk(p, id, h2)
      OBVIOUS
    <2>1. SentOk(p, id, h)
      BY DEF Core
    <2>2. id.seg \in Nat
      BY JobNumbers
    <2> QED
      BY <2>1, <2>2 DEF SentOk
  <1> QED
    BY <1>1, <1>2 DEF Core

(* A retry is asked for in a state whose tick leaves the visible segment's job. *)
LEMMA TickKeepsJob ==
  ASSUME PoolTyped(Pool), NEW s \in SegIds, segs[s].display = "Visible"
  PROVE  Ticked.segs[s].att = segs[s].att
  <1> DEFINE W == {x \in Waiting(Pool) : Pool.segs[x].age >= StaleAge}
             r == RetireSegments(Pool, W)
  <1>1. PoolTyped(r)
    BY RetireTyped
  <1>2. r.segs[s] = segs[s]
    BY DEF RetireSegments, CancelRunning, CancelIds, Pool, PoolOf, Waiting, WithDisplay
  <1>3. \A J : SameShape(r, DropRetries(r, J))
    BY <1>1, DropShape
  <1> QED
    BY <1>2, <1>3 DEF Ticked, TickedPool, ExpireRetries, SameShape

(* The slot of an ended request is released; X holds what the answer made current. *)
LEMMA ReleaseCore ==
  ASSUME NEW p, NEW X, NEW h, Core(p, X, h), NEW id \in running,
         \A j \in p.queue : j.id.seg \notin X,
         \A k \in running \ p.cancelled : k.gen = generation /\ k.seg \in X => k = id,
         Commit(PoolOf(p.segs, p.queue, p.cancelled \ {id})),
         running' = running \ {id}, highWater' = h, generation' = generation, sent' = sent
  PROVE  Core(Pool, {}, highWater)'
  <1>1. segs' = p.segs /\ queue' = p.queue /\ cancelled' = p.cancelled \ {id}
    BY DEF Commit, PoolOf
  <1>2. Pool' = PoolOf(segs', queue', cancelled')
    BY DEF Pool
  <1>3. Live(Pool)' = Live(p) /\ WithDisplay(Pool, {"Visible"})' = WithDisplay(p, {"Visible"})
    BY <1>1 DEF Pool, PoolOf, Live, WithDisplay
  <1>4. \A j \in queue' : JobOk(Pool, j)'
    BY <1>1, <1>3 DEF Core, JobOk, Pool, PoolOf, CurrentJob
  <1>5. \A k \in running' \ cancelled' : WireOk(Pool, k)'
    <2> SUFFICES ASSUME NEW k \in running \ p.cancelled, k # id PROVE WireOk(Pool, k)'
      BY <1>1
    <2>1. WireOk(p, k)
      BY DEF Core
    <2> QED
      BY <1>1, <1>3, <2>1 DEF WireOk, Pool, PoolOf, CurrentJob
  <1>6. \A k \in sent' : SentOk(Pool, k, highWater)'
    BY <1>1, <1>3 DEF Core, SentOk, Pool, PoolOf
  <1> QED
    BY <1>1, <1>3, <1>4, <1>5, <1>6 DEF Core, Pool, PoolOf

LEMMA CompleteCore ==
  ASSUME CoreInv, NEW id \in running, NEW ok \in BOOLEAN, Complete(id, ok)
  PROVE  Core(Pool, {}, highWater)'
  <1> DEFINE t == Ticked
             s == id.seg
             a == [t.segs[s] EXCEPT !.processed = TRUE]
             b == [t.segs[s] EXCEPT !.processed = TRUE, !.text = [rev |-> id.rev, att |-> id.att]]
             n(seg) == SetSegment(t, s, seg)
             h == highWater
  <1>1. PoolTyped(t) /\ Core(t, {}, h) /\ running \subseteq sent /\ sent \subseteq JobIds
    BY PoolTypedNow, TickTyped, TickCore DEF CoreInv, TypeInv, TypeOK
  <1>2. h \in Nat /\ id \in JobIds /\ s \in SegIds
    BY <1>1, JobNumbers, IdsAssumption DEF CoreInv, TypeInv, TypeOK
  <1>3. running' = running \ {id} /\ highWater' = h /\ generation' = generation /\ sent' = sent
    BY DEF Complete, Released
  <1>4. CASE ~Taken(t, id)
    <2>1. Commit(PoolOf(t.segs, t.queue, t.cancelled \ {id}))
      BY <1>4 DEF Complete
    <2> QED
      BY <1>1, <1>3, <2>1, ReleaseCore
  <1>5. CASE Taken(t, id)
    <2>1. id.gen = generation /\ s \in Live(t) /\ id = CurrentJob(t, s)
      BY <1>5 DEF Taken
    <2>2. \A j \in t.queue : j.id.seg # s
      BY <1>1, <2>1 DEF Core, JobOk
    <2>3. \A k \in running \ t.cancelled : k.seg = s => k = id
      BY <1>1, <2>1 DEF Core, WireOk
    <2>4. t.segs[s] \in Segments
      BY <1>1, <1>2 DEF PoolTyped
    <2>5. /\ a \in Segments /\ a.display = t.segs[s].display
          /\ a.rev = t.segs[s].rev /\ a.att = t.segs[s].att
      BY <2>4 DEF Segments
    <2>6. /\ b \in Segments /\ b.display = t.segs[s].display
          /\ b.rev = t.segs[s].rev /\ b.att = t.segs[s].att
      <3>1. [rev |-> id.rev, att |-> id.att] \in [rev : Revisions \cup {0}, att : {0, 1, 2}]
        BY <1>2 DEF JobIds
      <3> QED
        BY <2>4, <3>1 DEF Segments
    <2>7. ASSUME NEW seg \in Segments, seg.display = t.segs[s].display,
                 seg.rev = t.segs[s].rev, seg.att = t.segs[s].att
          PROVE  /\ PoolTyped(n(seg)) /\ Core(n(seg), {s}, h)
                 /\ n(seg).queue = t.queue /\ n(seg).cancelled = t.cancelled
      <3>1. generation > 0 /\ seg.rev \in Revisions /\ seg.att \in {1, 2}
        BY <1>1, <2>1, <2>7 DEF PoolTyped, LiveTyped
      <3>2. PoolTyped(n(seg))
        BY <1>1, <1>2, <3>1, SetTyped
      <3>3. seg.display = "Visible" => WithDisplay(t, {"Visible"}) \subseteq {s}
        BY <1>1, <1>2, <2>7 DEF Core, WithDisplay
      <3>4. s <= h /\ h <= h /\ seg.att >= t.segs[s].att
        <4>1. t.segs[s].display # "Absent"
          BY <2>1 DEF Live, WithDisplay
        <4>2. seg.att \in Nat
          BY SegmentNumbers
        <4> QED
          BY <1>1, <1>2, <2>7, <4>1, <4>2 DEF Core
      <3>5. Core(n(seg), {} \cup {s}, h)
        BY <1>1, <1>2, <2>1, <2>7, <3>3, <3>4, SetCore
      <3>6. {} \cup {s} = {s}
        OBVIOUS
      <3> QED
        BY <3>2, <3>5, <3>6 DEF SetSegment, PoolOf
    <2> HIDE DEF n, a, b
    <2>8. PICK r : /\ Core(r, {s}, h) /\ r.queue \subseteq t.queue /\ t.cancelled \subseteq r.cancelled
                   /\ Commit(PoolOf(r.segs, r.queue, r.cancelled \ {id}))
      <3>1. Commit(PoolOf(Answered(t, id, ok).segs, Answered(t, id, ok).queue,
                          Answered(t, id, ok).cancelled \ {id}))
        BY <1>5 DEF Complete
      <3>2. \/ Answered(t, id, ok) = n(a)
            \/ Answered(t, id, ok) = n(b)
            \/ Answered(t, id, ok) = RetireSegments(n(a), {s})
        BY DEF Answered, n, a, b
      <3>3. PoolTyped(n(a)) /\ Core(n(a), {s}, h) /\ n(a).queue = t.queue /\ n(a).cancelled = t.cancelled
        BY <2>5, <2>7
      <3>4. Core(n(b), {s}, h) /\ n(b).queue = t.queue /\ n(b).cancelled = t.cancelled
        BY <2>6, <2>7
      <3>5. \A m : PoolTyped(m) /\ Core(m, {s}, h) =>
               /\ Core(RetireSegments(m, {s}), {s}, h)
               /\ RetireSegments(m, {s}).queue \subseteq m.queue
               /\ m.cancelled \subseteq RetireSegments(m, {s}).cancelled
        <4> SUFFICES ASSUME NEW m, PoolTyped(m), Core(m, {s}, h)
                     PROVE  /\ Core(RetireSegments(m, {s}), {s}, h)
                            /\ RetireSegments(m, {s}).queue \subseteq m.queue
                            /\ m.cancelled \subseteq RetireSegments(m, {s}).cancelled
          OBVIOUS
        <4>1. Core(RetireSegments(m, {s}), {s}, h)
          BY RetireCore
        <4>2. /\ RetireSegments(m, {s}).queue \subseteq m.queue
              /\ m.cancelled \subseteq RetireSegments(m, {s}).cancelled
          BY DEF RetireSegments, CancelRunning, CancelIds, PoolOf
        <4> QED
          BY <4>1, <4>2
      <3> QED
        BY <3>1, <3>2, <3>3, <3>4, <3>5
    <2>9. \A j \in r.queue : j.id.seg \notin {s}
      BY <2>2, <2>8
    <2>10. \A k \in running \ r.cancelled : k.gen = generation /\ k.seg \in {s} => k = id
      BY <2>3, <2>8
    <2> QED
      BY <1>3, <2>8, <2>9, <2>10, ReleaseCore
  <1> QED
    BY <1>4, <1>5

LEMMA DispatchCore ==
  ASSUME CoreInv, Dispatch
  PROVE  Core(Pool, {}, highWater)' /\ (running \subseteq sent)'
  <1> DEFINE t == Ticked
  <1>1. PoolTyped(t) /\ Core(t, {}, highWater) /\ running \subseteq sent /\ sent \subseteq JobIds
    BY PoolTypedNow, TickTyped, TickCore DEF CoreInv, TypeInv, TypeOK
  <1>2. PICK j \in t.queue : /\ Commit(Unqueue(t, {j}))
                             /\ running' = running \cup {j.id} /\ sent' = sent \cup {j.id}
    BY DEF Dispatch, Foremost, Eligible
  <1>3. generation' = generation /\ highWater' = highWater
    BY DEF Dispatch, Foremost
  <1> HIDE DEF t
  <1>4. segs' = t.segs /\ queue' = t.queue \ {j} /\ cancelled' = t.cancelled
    BY <1>2 DEF Commit, Unqueue, PoolOf
  <1>5. Live(Pool)' = Live(t) /\ WithDisplay(Pool, {"Visible"})' = WithDisplay(t, {"Visible"})
    BY <1>4 DEF Pool, PoolOf, Live, WithDisplay
  <1>6. \A k \in t.queue : JobOk(Pool, k)'
    BY <1>1, <1>3, <1>4, <1>5 DEF Core, JobOk, Pool, PoolOf, CurrentJob
  <1>7. \A k \in queue' : k.id \notin sent'
    <2> SUFFICES ASSUME NEW k \in t.queue, k # j PROVE k.id \notin sent \cup {j.id}
      BY <1>2, <1>4
    <2>1. k.id \notin sent /\ k.id.seg # j.id.seg
      BY <1>1 DEF Core
    <2> QED
      BY <2>1
  <1>8. \A id \in running' \ cancelled' : WireOk(Pool, id)'
    <2>1. \A id \in running \ t.cancelled : WireOk(Pool, id)'
      BY <1>1, <1>3, <1>4, <1>5 DEF Core, WireOk, Pool, PoolOf, CurrentJob
    <2>2. WireOk(Pool, j.id)'
      BY <1>6 DEF JobOk, WireOk
    <2> QED
      BY <1>2, <1>4, <2>1, <2>2
  <1>9. \A id \in sent' : SentOk(Pool, id, highWater)'
    <2>1. \A id \in sent : SentOk(Pool, id, highWater)'
      BY <1>1, <1>3, <1>4, <1>5 DEF Core, SentOk, Pool, PoolOf
    <2>2. SentOk(Pool, j.id, highWater)'
      <3>1. JobOk(t, j)
        BY <1>1 DEF Core
      <3>2. j.id.seg \in Live(t) /\ j.id = CurrentJob(t, j.id.seg)
        BY <3>1 DEF JobOk
      <3>3. /\ j.id.gen = generation /\ j.id.rev = t.segs[j.id.seg].rev
            /\ j.id.att = t.segs[j.id.seg].att
        BY <3>2 DEF CurrentJob
      <3>4. j.id.seg \in SegIds /\ t.segs[j.id.seg].display # "Absent" /\ t.segs[j.id.seg] \in Segments
        BY <1>1, <3>2 DEF Live, WithDisplay, PoolTyped
      <3>5. j.id.seg <= highWater
        BY <1>1, <3>4 DEF Core
      <3>6. j.id.att \in Nat
        BY <3>3, <3>4, SegmentNumbers
      <3> QED
        BY <1>3, <1>4, <1>5, <3>3, <3>5, <3>6 DEF SentOk, Pool, PoolOf
    <2> QED
      BY <1>2, <2>1, <2>2
  <1>10. Core(Pool, {}, highWater)'
    <2>1. \A a, b \in queue' : a.id.seg = b.id.seg => a = b
      BY <1>1, <1>4 DEF Core
    <2>2. \A s \in SegIds : segs'[s].display # "Absent" => s <= highWater'
      BY <1>1, <1>3, <1>4 DEF Core
    <2>3. \A a, b \in WithDisplay(Pool, {"Visible"})' : a = b
      BY <1>1, <1>5 DEF Core
    <2> QED
      BY <1>4, <1>6, <1>7, <1>8, <1>9, <2>1, <2>2, <2>3 DEF Core, Pool, PoolOf
  <1>11. running' \subseteq sent'
    BY <1>1, <1>2
  <1> QED
    BY <1>10, <1>11

LEMMA ResetCore ==
  ASSUME CoreInv, NEW g \in 1..MaxGeneration, ResetGeneration(g)
  PROVE  Core(Pool, {}, highWater)'
  <1>1. /\ generation' = g /\ g > generation /\ highWater' = highWater
        /\ queue' = {} /\ running' = running /\ sent' = sent
        /\ cancelled' = RetireSegments(Pool, SegIds).cancelled
    BY DEF ResetGeneration
  <1>2. \A s \in SegIds : segs'[s].display = "Absent"
    BY AbsentType DEF ResetGeneration
  <1>3. Live(Pool)' = {} /\ WithDisplay(Pool, {"Visible"})' = {}
    BY <1>2 DEF Pool, PoolOf, Live, WithDisplay
  <1>4. running \ cancelled' = {}
    <2> SUFFICES ASSUME NEW id \in running \ cancelled PROVE id \in cancelled'
      BY <1>1 DEF RetireSegments, CancelRunning, CancelIds, Pool, PoolOf
    <2>1. WireOk(Pool, id)
      BY DEF CoreInv, Core, Pool, PoolOf
    <2>2. id.gen = generation /\ id.seg \in SegIds \cap Live(Pool)
      BY <2>1 DEF WireOk, CurrentJob, Live, WithDisplay
    <2> QED
      BY <1>1, <2>2 DEF RetireSegments, CancelRunning, CancelIds, Pool, PoolOf
  <1>5. \A id \in sent : id.gen < g
    <2> SUFFICES ASSUME NEW id \in sent PROVE id.gen < g
      OBVIOUS
    <2>1. id \in JobIds /\ generation \in Nat /\ g \in Nat
      BY IdsAssumption DEF CoreInv, TypeInv, TypeOK
    <2>2. SentOk(Pool, id, highWater)
      BY DEF CoreInv, Core
    <2>3. id.gen < generation \/ id.gen = generation
      BY <2>2 DEF SentOk
    <2>4. id.gen \in Nat
      BY <2>1, JobNumbers
    <2> QED
      BY <1>1, <2>1, <2>3, <2>4
  <1>6. \A id \in sent' : SentOk(Pool, id, highWater)'
    BY <1>1, <1>5 DEF SentOk
  <1> QED
    BY <1>1, <1>2, <1>3, <1>4, <1>6 DEF Core, Pool, PoolOf

LEMMA VisibleCore ==
  ASSUME CoreInv, NEW s \in SegIds, MarkVisible(s)
  PROVE  Core(Pool, {}, highWater)'
  <1> DEFINE t == Ticked
             seg == [t.segs[s] EXCEPT !.display = "Visible"]
             n == SetSegment(t, s, seg)
  <1>1. PoolTyped(t) /\ Core(t, {}, highWater)
    BY PoolTypedNow, TickTyped, TickCore DEF CoreInv, TypeInv, TypeOK
  <1>2. s \in Live(t) /\ WithDisplay(t, {"Visible"}) \subseteq {s} /\ Commit(n)
    BY DEF MarkVisible, MayShow, MarkedVisible
  <1>3. /\ seg.display = "Visible" /\ seg.rev = t.segs[s].rev
        /\ seg.att = t.segs[s].att /\ seg.processed = t.segs[s].processed
    BY <1>1 DEF PoolTyped, Segments
  <1>4. n.segs = [t.segs EXCEPT ![s] = seg] /\ n.queue = t.queue /\ n.cancelled = t.cancelled
    BY DEF SetSegment, PoolOf
  <1> HIDE DEF seg, n, t
  <1>5. n.segs[s] = seg /\ \A x \in SegIds \ {s} : n.segs[x] = t.segs[x]
    BY <1>1, <1>4 DEF PoolTyped
  <1>6. \A x \in SegIds : /\ n.segs[x].rev = t.segs[x].rev /\ n.segs[x].att = t.segs[x].att
                          /\ n.segs[x].processed = t.segs[x].processed
    BY <1>3, <1>5
  <1>7. Live(n) = Live(t)
    BY <1>2, <1>3, <1>5 DEF Live, WithDisplay
  <1>8. \A x \in Live(n) : x \in SegIds /\ CurrentJob(n, x) = CurrentJob(t, x)
    BY <1>6, JobOf DEF Live, WithDisplay
  <1>9. \A j \in n.queue : JobOk(n, j)
    <2> SUFFICES ASSUME NEW j \in t.queue PROVE JobOk(n, j)
      BY <1>4
    <2>1. JobOk(t, j)
      BY <1>1 DEF Core
    <2>2. j.id.seg \in SegIds /\ j.id.seg \in Live(n)
      BY <2>1, <1>7, <1>8 DEF JobOk
    <2> QED
      BY <2>1, <2>2, <1>3, <1>5, <1>6, <1>7, <1>8 DEF JobOk
  <1>10. \A id \in running \ n.cancelled : WireOk(n, id)
    <2> SUFFICES ASSUME NEW id \in running \ t.cancelled PROVE WireOk(n, id)
      BY <1>4
    <2>1. WireOk(t, id)
      BY <1>1 DEF Core
    <2>2. id.seg \in SegIds /\ id.seg \in Live(n)
      BY <2>1, <1>7, <1>8 DEF WireOk
    <2> QED
      BY <2>1, <2>2, <1>6, <1>7, <1>8 DEF WireOk
  <1>11. \A id \in sent : SentOk(n, id, highWater)
    <2> SUFFICES ASSUME NEW id \in sent PROVE SentOk(n, id, highWater)
      OBVIOUS
    <2>1. SentOk(t, id, highWater)
      BY <1>1 DEF Core
    <2> QED
      BY <2>1, <1>6, <1>7, <1>8 DEF SentOk
  <1>12. \A x, y \in WithDisplay(n, {"Visible"}) : x = y
    BY <1>2, <1>5 DEF WithDisplay
  <1>13. \A x \in SegIds : n.segs[x].display # "Absent" => x <= highWater
    BY <1>1, <1>2, <1>5 DEF Core, Live, WithDisplay
  <1>14. Core(n, {}, highWater)
    BY <1>1, <1>4, <1>9, <1>10, <1>11, <1>12, <1>13 DEF Core
  <1>15. highWater' = highWater /\ generation' = generation /\ running' = running /\ sent' = sent
    BY DEF MarkVisible, MayShow, MarkedVisible, Unticked
  <1> QED
    BY <1>2, <1>14, <1>15, CommitCore

LEMMA RegisterCore ==
  ASSUME CoreInv, NEW s \in SegIds, NEW r \in Revisions, NEW o \in Orders,
         NEW replaces \in SUBSET SegIds, RegisterRevision(s, r, o, replaces)
  PROVE  Core(Pool, {}, highWater)'
  <1> DEFINE t == Ticked
             h == highWater
             fresh == t.segs[s].display = "Absent"
             base == IF fresh THEN NewSegment ELSE t.segs[s]
             seg == Revised(base, r, o)
             n == SetSegment(t, s, seg)
             p == RetireSegments(n, replaces \ {s})
             kind == IF fresh THEN "Initial" ELSE "SourceUpdate"
             h2 == IF fresh THEN s ELSE h
  <1>1. PoolTyped(t) /\ Core(t, {}, h) /\ sent \subseteq JobIds
        /\ h \in Nat /\ s \in Nat /\ generation \in 0..MaxGeneration
    BY PoolTypedNow, TickTyped, TickCore, IdsAssumption DEF CoreInv, TypeInv, TypeOK
  <1>2. /\ generation > 0
        /\ \/ s \in Live(t) /\ r >= t.segs[s].rev
           \/ t.segs[s].display = "Absent" /\ s > h
        /\ ~fresh => r > t.segs[s].rev
    BY DEF RegisterRevision, Registered, Acceptable
  <1>3. NewSegment \in Segments /\ NewSegment.display = "Waiting"
    BY AbsentType DEF NewSegment, Segments, Displays
  <1>4. /\ base \in Segments /\ base.display \in {"Waiting", "Visible"}
        /\ base.display = "Visible" => s \in WithDisplay(t, {"Visible"})
    BY <1>1, <1>2, <1>3 DEF PoolTyped, Live, WithDisplay
  <1>5. seg \in Segments /\ seg.display = base.display /\ seg.rev = r /\ seg.att = 1
    BY <1>4 DEF Revised, Segments
  <1>6. n.segs = [t.segs EXCEPT ![s] = seg] /\ PoolTyped(n)
    BY <1>1, <1>2, <1>5, SetTyped DEF SetSegment, PoolOf
  <1>7. fresh <=> s \notin Live(t)
    BY <1>2 DEF Live, WithDisplay
  <1> HIDE DEF t, base, seg, n
  <1>8. h2 \in Nat /\ h <= h2 /\ s <= h2
    <2>1. ~fresh => s <= h
      BY <1>1 DEF Core
    <2> QED
      BY <1>1, <1>2, <1>7, <2>1
  <1>9. Core(n, {s}, h2)
    <2>1. seg.display = "Visible" => WithDisplay(t, {"Visible"}) \subseteq {s}
      BY <1>1, <1>4, <1>5 DEF Core
    <2>2. IF s \in Live(t) THEN seg.rev > t.segs[s].rev ELSE h < s
      BY <1>1, <1>2, <1>5, <1>7
    <2>3. Core(SetSegment(t, s, seg), {} \cup {s}, h2)
      BY <1>1, <1>5, <1>8, <2>1, <2>2, SetCore
    <2>4. {} \cup {s} = {s}
      OBVIOUS
    <2> QED
      BY <2>3, <2>4 DEF n
  <1>10. PoolTyped(p) /\ Core(p, {s}, h2)
    BY <1>6, <1>9, RetireTyped, RetireCore
  <1>11. n.segs[s] = seg /\ s \in Live(n)
    BY <1>1, <1>4, <1>5, <1>6 DEF PoolTyped, Live, WithDisplay
  <1>12. p.segs[s] = seg /\ s \in Live(p)
    <2>1. p.segs[s] = n.segs[s]
      BY DEF RetireSegments, CancelRunning, CancelIds, PoolOf
    <2> QED
      BY <2>1, <1>11 DEF Live, WithDisplay
  <1>13. CurrentJob(p, s) \notin sent
    <2> SUFFICES ASSUME NEW id \in sent, id.gen = generation, id.seg = s, id.rev = r, id.att = 1
                 PROVE  FALSE
      BY <1>5, <1>12 DEF CurrentJob
    <2>1. SentOk(t, id, h)
      BY <1>1 DEF Core
    <2>2. id.gen \in Nat /\ id.seg \in Nat /\ id.rev \in Nat
      BY <1>1, JobNumbers
    <2>3. CASE fresh
      BY <1>1, <1>2, <1>7, <2>1, <2>2, <2>3 DEF SentOk
    <2>4. CASE ~fresh
      <3>1. t.segs[s].rev \in Nat
        BY <1>1, SegmentNumbers DEF PoolTyped
      <3> QED
        BY <1>2, <1>7, <2>1, <2>2, <2>4, <3>1 DEF SentOk
    <2> QED
      BY <2>3, <2>4
  <1>14. kind \in Kinds /\ kind # "QualityRetry" /\ ~(p.segs[s].att > 1)
    BY <1>5, <1>12 DEF Kinds
  <1>15. PICK e \in Enqueue(p, s, kind) : Commit(e)
    BY DEF RegisterRevision, Registered, p, n, seg, base, t
  <1>16. highWater' = h2 /\ generation' = generation /\ running' = running /\ sent' = sent
    BY DEF RegisterRevision, Registered, t
  <1> HIDE DEF p, kind, h2, fresh
  <1>17. Core(e, {}, h2)
    BY <1>1, <1>10, <1>12, <1>13, <1>14, <1>15, EnqueueCore
  <1> QED
    BY <1>15, <1>16, <1>17, CommitCore

LEMMA RetryCore ==
  ASSUME CoreInv, NEW s \in SegIds, NEW page \in Pages \cup {0},
         NEW left \in Lifetimes \cup {NoDeadline}, RequestQualityRetry(s, page, left)
  PROVE  Core(Pool, {}, highWater)'
  <1> DEFINE t == Ticked
             h == highWater
             seg == [t.segs[s] EXCEPT !.page = IF page # 0 THEN page ELSE @,
                                      !.left = IF left # NoDeadline THEN left ELSE @]
             sp == Spent(seg)
             re == [sp EXCEPT !.att = 2]
             n == SetSegment(t, s, re)
  <1>1. PoolTyped(Pool) /\ PoolTyped(t) /\ Core(t, {}, h) /\ sent \subseteq JobIds
        /\ h \in Nat /\ s \in Nat /\ generation \in 0..MaxGeneration
    BY PoolTypedNow, TickTyped, TickCore, IdsAssumption DEF CoreInv, TypeInv, TypeOK
  <1>2. segs[s].display = "Visible" /\ segs[s].att = 1
    BY DEF RequestQualityRetry, MayRetry, Requested
  <1>3. /\ s \in Live(t) /\ t.segs[s].display = "Visible" /\ t.segs[s].att = 1
        /\ t.segs[s] \in Segments
    BY <1>1, <1>2, TickKeepsVisible, TickKeepsJob DEF PoolTyped
  <1>4. /\ seg \in Segments /\ seg.display = t.segs[s].display /\ seg.rev = t.segs[s].rev
        /\ seg.att = t.segs[s].att /\ seg.processed = t.segs[s].processed
    <2>1. left \in Nat \cup {NoDeadline} /\ page \in Pages \cup {0}
      BY IdsAssumption
    <2> QED
      BY <1>3, <2>1 DEF Segments
  <1> HIDE DEF seg
  <1>5. /\ sp \in Segments /\ sp.display = t.segs[s].display /\ sp.rev = t.segs[s].rev
        /\ sp.att = t.segs[s].att /\ sp.processed = t.segs[s].processed
    BY <1>4, SpentType
  <1> HIDE DEF sp
  <1>6. /\ re \in Segments /\ re.display = "Visible" /\ re.rev = t.segs[s].rev
        /\ re.att = 2
    BY <1>3, <1>5 DEF Segments
  <1>7. Core(SetSegment(t, s, sp), {}, h) /\ Core(SetSegment(t, s, Spent(t.segs[s])), {}, h)
    <2>1. Core(SetSegment(t, s, sp), {}, h)
      BY <1>1, <1>5, SetShapeCore
    <2>2. /\ Spent(t.segs[s]).display = t.segs[s].display /\ Spent(t.segs[s]).rev = t.segs[s].rev
          /\ Spent(t.segs[s]).att = t.segs[s].att /\ Spent(t.segs[s]).processed = t.segs[s].processed
      BY <1>3, SpentType
    <2> QED
      BY <1>1, <2>1, <2>2, SetShapeCore
  <1> HIDE DEF re, t
  <1>8. PoolTyped(n) /\ Core(n, {s}, h) /\ n.segs[s] = re
    <2>1. generation > 0 /\ re.rev \in Revisions
      BY <1>1, <1>3, <1>6 DEF PoolTyped, LiveTyped
    <2>2. PoolTyped(n)
      BY <1>1, <1>6, <2>1, SetTyped
    <2>3. s <= h /\ WithDisplay(t, {"Visible"}) \subseteq {s}
      <3>1. s <= h
        BY <1>1, <1>3 DEF Core
      <3>2. s \in WithDisplay(t, {"Visible"})
        BY <1>3 DEF WithDisplay
      <3> QED
        BY <1>1, <3>1, <3>2 DEF Core
    <2>4. Core(n, {} \cup {s}, h)
      <3>1. re.rev = t.segs[s].rev /\ re.att >= t.segs[s].att /\ h <= h
        BY <1>1, <1>3, <1>6
      <3>2. Core(SetSegment(t, s, re), {} \cup {s}, h)
        BY <1>1, <1>3, <1>6, <2>3, <3>1, SetCore
      <3> QED
        BY <3>2 DEF n
    <2>5. {} \cup {s} = {s}
      OBVIOUS
    <2> QED
      BY <2>2, <2>4, <2>5, <1>1 DEF SetSegment, PoolOf, PoolTyped
  <1>9. s \in Live(n)
    BY <1>6, <1>8 DEF Live, WithDisplay
  <1>10. CurrentJob(n, s) \notin sent
    <2> SUFFICES ASSUME NEW id \in sent, id.gen = generation, id.seg = s,
                        id.rev = t.segs[s].rev, id.att = 2
                 PROVE  FALSE
      BY <1>6, <1>8 DEF CurrentJob
    <2>1. SentOk(t, id, h)
      BY <1>1 DEF Core
    <2>2. id.gen \in Nat /\ id.rev \in Nat
      BY <1>1, JobNumbers
    <2> QED
      BY <1>3, <2>1, <2>2 DEF SentOk
  <1> HIDE DEF n
  <1>11. \A e \in Enqueue(n, s, "QualityRetry") : Core(e, {}, h)
    <2>1. "QualityRetry" \in Kinds /\ n.segs[s].att > 1 /\ n.segs[s].display = "Visible"
      BY <1>6, <1>8 DEF Kinds
    <2> QED
      BY <1>1, <1>8, <1>9, <1>10, <2>1, EnqueueCore
  <1>12. PICK e : Core(e, {}, h) /\ Commit(e)
    BY <1>7, <1>11 DEF RequestQualityRetry, MayRetry, Requested, n, re, sp, seg, t
  <1>13. highWater' = h /\ generation' = generation /\ running' = running /\ sent' = sent
    BY DEF RequestQualityRetry, MayRetry, Requested, Unticked
  <1> QED
    BY <1>12, <1>13, CommitCore

LEMMA SettingCore ==
  ASSUME CoreInv, NEW on \in BOOLEAN, SetQualityRetry(on)
  PROVE  Core(Pool, {}, highWater)'
  <1> DEFINE t == Ticked
             Off(x) == [x EXCEPT !.consumed = @ \/ x.suspected \/ x.pending, !.pending = FALSE]
             off == [s \in SegIds |-> Off(t.segs[s])]
             p == PoolOf(off, t.queue, t.cancelled)
             q == CancelIds(DropRetries(p, Retries(t.queue)), {id \in running : IsRetryId(id)})
  <1>1. PoolTyped(t) /\ Core(t, {}, highWater)
    BY PoolTypedNow, TickTyped, TickCore DEF CoreInv, TypeInv, TypeOK
  <1>2. \A x \in Segments : /\ Off(x) \in Segments /\ Off(x).display = x.display
                            /\ Off(x).rev = x.rev /\ Off(x).att = x.att
                            /\ Off(x).processed = x.processed
    <2>1. \A x \in Segments : (x.consumed \/ x.suspected \/ x.pending) \in BOOLEAN
      BY DEF Segments
    <2>2. \A x \in Segments, c \in BOOLEAN :
             LET y == [x EXCEPT !.consumed = c, !.pending = FALSE]
             IN  /\ y \in Segments /\ y.display = x.display
                 /\ y.rev = x.rev /\ y.att = x.att /\ y.processed = x.processed
      BY DEF Segments
    <2> QED
      BY <2>1, <2>2
  <1>3. off \in [SegIds -> Segments] /\ \A s \in SegIds : off[s] = Off(t.segs[s])
    BY <1>1, <1>2 DEF PoolTyped
  <1> HIDE DEF Off, off
  <1>4. SameShape(t, p) /\ p.queue = t.queue /\ p.cancelled = t.cancelled
    BY <1>1, <1>2, <1>3 DEF SameShape, PoolTyped, PoolOf
  <1>5. PoolTyped(p)
    <2>1. LiveTyped(p)
      BY <1>1, <1>4, LiveOf DEF PoolTyped, LiveTyped, SameShape, Live, WithDisplay
    <2> QED
      BY <1>1, <1>3, <2>1 DEF PoolTyped, PoolOf
  <1>6. Core(p, {}, highWater)
    BY <1>1, <1>4, ShapeCore
  <1>7. Core(q, {}, highWater)
    BY <1>5, <1>6, DropCore, CancelCore
  <1>8. PICK e : Core(e, {}, highWater) /\ Commit(e)
    BY <1>1, <1>7 DEF SetQualityRetry, WithoutRetries, off, Off
  <1>9. highWater' = highWater /\ generation' = generation /\ running' = running /\ sent' = sent
    BY DEF SetQualityRetry, WithoutRetries
  <1> QED
    BY <1>8, <1>9, CommitCore

LEMMA PageCore ==
  ASSUME CoreInv, NEW s \in SegIds, NEW page \in Pages \cup {0},
         NEW left \in Lifetimes \cup {NoDeadline}, NoteDisplayPage(s, page, left)
  PROVE  Core(Pool, {}, highWater)'
  <1> DEFINE seg == Pool.segs[s]
             reserved == seg.consumed /\ seg.att = 2
             noted == [seg EXCEPT !.page = IF reserved THEN @ ELSE page,
                                  !.left = IF reserved THEN Earlier(@, left)
                                           ELSE IF left # NoDeadline THEN left ELSE @]
             n == SetSegment(Pool, s, noted)
  <1>1. PoolTyped(Pool) /\ Core(Pool, {}, highWater)
    BY PoolTypedNow DEF CoreInv
  <1>2. seg \in Segments /\ s \in Live(Pool) /\ left \in Nat \cup {NoDeadline}
    BY IdsAssumption DEF NoteDisplayPage, CoreInv, TypeInv, TypeOK, Pool, PoolOf
  <1>3. noted \in Segments
    <2>1. Earlier(seg.left, left) \in Nat \cup {NoDeadline}
      BY <1>2 DEF Earlier, Segments
    <2>2. \A a \in Pages \cup {0}, b \in Nat \cup {NoDeadline} :
             [seg EXCEPT !.page = a, !.left = b] \in Segments
      BY <1>2 DEF Segments
    <2>3. (IF reserved THEN seg.page ELSE page) \in Pages \cup {0}
      BY <1>2 DEF Segments
    <2>4. (IF reserved THEN Earlier(seg.left, left)
           ELSE IF left # NoDeadline THEN left ELSE seg.left) \in Nat \cup {NoDeadline}
      BY <1>2, <2>1 DEF Segments
    <2> QED
      BY <2>2, <2>3, <2>4
  <1>4. /\ noted.display = seg.display /\ noted.rev = seg.rev
        /\ noted.att = seg.att /\ noted.processed = seg.processed
    BY <1>2 DEF Segments
  <1>5. seg = Pool.segs[s]
    OBVIOUS
  <1> HIDE DEF noted, seg
  <1>6. Core(n, {}, highWater)
    BY <1>1, <1>4, <1>5, SetShapeCore
  <1>7. PoolTyped(n)
    <2>1. generation > 0 /\ noted.rev \in Revisions /\ noted.att \in {1, 2}
      BY <1>1, <1>2, <1>4, <1>5 DEF PoolTyped, LiveTyped
    <2> QED
      BY <1>1, <1>3, <2>1, SetTyped
  <1>8. PICK e : Core(e, {}, highWater) /\ Commit(e)
    <2>1. \A J : Core(DropRetries(Pool, J), {}, highWater) /\ Core(DropRetries(n, J), {}, highWater)
      BY <1>1, <1>6, <1>7, DropCore
    <2> QED
      BY <2>1 DEF NoteDisplayPage, Noted, ExpireRetries, n, noted, seg
  <1>9. highWater' = highWater /\ generation' = generation /\ running' = running /\ sent' = sent
    BY DEF NoteDisplayPage, Noted, Unticked
  <1> QED
    BY <1>8, <1>9, CommitCore

LEMMA JudgementCore ==
  ASSUME CoreInv, NEW s \in SegIds, NEW suspected \in Verdicts, NEW eligible \in BOOLEAN,
         SetQualityJudgement(s, suspected, eligible)
  PROVE  Core(Pool, {}, highWater)'
  <1> DEFINE seg == [segs[s] EXCEPT !.suspected = suspected,
                                    !.pending = eligible /\ suspected /\ ~segs[s].consumed]
             n == SetSegment(Pool, s, seg)
  <1>1. PoolTyped(Pool) /\ Core(Pool, {}, highWater) /\ segs[s] \in Segments
    BY PoolTypedNow DEF CoreInv, TypeInv, TypeOK
  <1>2. /\ seg.display = Pool.segs[s].display /\ seg.rev = Pool.segs[s].rev
        /\ seg.att = Pool.segs[s].att /\ seg.processed = Pool.segs[s].processed
    BY <1>1 DEF Segments, Pool, PoolOf
  <1>3. Commit(n)
    BY DEF SetQualityJudgement, Judged, Commit, SetSegment, Pool, PoolOf
  <1> HIDE DEF seg
  <1>4. Core(n, {}, highWater)
    BY <1>1, <1>2, SetShapeCore
  <1>5. highWater' = highWater /\ generation' = generation /\ running' = running /\ sent' = sent
    BY DEF SetQualityJudgement, Judged, Unticked
  <1> QED
    BY <1>3, <1>4, <1>5, CommitCore

LEMMA AdvanceCore ==
  ASSUME CoreInv, Advance
  PROVE  Core(Pool, {}, highWater)'
  <1> DEFINE Tock(x) == [x EXCEPT !.age = IF @ < StaleAge THEN @ + 1 ELSE @,
                                  !.left = IF @ > 0 THEN @ - 1 ELSE @]
             S == [s \in SegIds |-> IF s \notin Live(Pool) THEN segs[s] ELSE Tock(segs[s])]
             n == PoolOf(S, queue, cancelled)
  <1>1. Core(Pool, {}, highWater) /\ segs \in [SegIds -> Segments]
    BY DEF CoreInv, TypeInv, TypeOK
  <1>2. \A x \in Segments : /\ Tock(x).display = x.display /\ Tock(x).rev = x.rev
                            /\ Tock(x).att = x.att /\ Tock(x).processed = x.processed
    BY DEF Segments
  <1>3. Commit(n)
    BY DEF Advance, Aged, Commit, Pool, PoolOf, Live, WithDisplay
  <1> HIDE DEF Tock
  <1>4. SameShape(Pool, n) /\ n.queue = Pool.queue /\ n.cancelled = Pool.cancelled
    BY <1>1, <1>2 DEF SameShape, Pool, PoolOf
  <1>5. Core(n, {}, highWater)
    BY <1>1, <1>4, ShapeCore
  <1>6. highWater' = highWater /\ generation' = generation /\ running' = running /\ sent' = sent
    BY DEF Advance, Aged, Unticked
  <1> QED
    BY <1>3, <1>5, <1>6, CommitCore

LEMMA ForgetCore ==
  ASSUME CoreInv, NEW s \in SegIds, ForgetRetired(s)
  PROVE  Core(Pool, {}, highWater)'
  <1>1. Core(Pool, {}, highWater) /\ segs \in [SegIds -> Segments]
    BY DEF CoreInv, TypeInv, TypeOK
  <1>2. /\ segs[s].display = "Retired" /\ segs'[s].display = "Absent"
        /\ \A x \in SegIds \ {s} : segs'[x] = segs[x]
        /\ queue' = queue /\ cancelled' = cancelled /\ running' = running /\ sent' = sent
        /\ highWater' = highWater /\ generation' = generation
    BY <1>1, AbsentType DEF ForgetRetired, Unticked
  <1>3. Live(Pool)' = Live(Pool) /\ WithDisplay(Pool, {"Visible"})' = WithDisplay(Pool, {"Visible"})
    BY <1>2 DEF Live, WithDisplay, Pool, PoolOf
  <1>4. \A x \in Live(Pool) : segs'[x] = segs[x] /\ CurrentJob(Pool, x)' = CurrentJob(Pool, x)
    BY <1>2 DEF Live, WithDisplay, Pool, PoolOf, CurrentJob
  <1>5. \A j \in queue' : JobOk(Pool, j)'
    <2> SUFFICES ASSUME NEW j \in queue PROVE JobOk(Pool, j)'
      BY <1>2
    <2>1. JobOk(Pool, j)
      BY <1>1 DEF Core, Pool, PoolOf
    <2> QED
      BY <2>1, <1>3, <1>4 DEF JobOk, Pool, PoolOf
  <1>6. \A id \in running' \ cancelled' : WireOk(Pool, id)'
    <2> SUFFICES ASSUME NEW id \in running \ cancelled PROVE WireOk(Pool, id)'
      BY <1>2
    <2>1. WireOk(Pool, id)
      BY <1>1 DEF Core, Pool, PoolOf
    <2> QED
      BY <2>1, <1>3, <1>4 DEF WireOk, Pool, PoolOf
  <1>7. \A id \in sent' : SentOk(Pool, id, highWater)'
    <2> SUFFICES ASSUME NEW id \in sent PROVE SentOk(Pool, id, highWater)'
      BY <1>2
    <2>1. SentOk(Pool, id, highWater)
      BY <1>1 DEF Core
    <2> QED
      BY <2>1, <1>2, <1>3, <1>4 DEF SentOk, Pool, PoolOf
  <1>8. /\ \A j \in queue' : j.id \notin sent'
        /\ \A j, k \in queue' : j.id.seg = k.id.seg => j = k
        /\ \A a, b \in WithDisplay(Pool, {"Visible"})' : a = b
        /\ \A x \in SegIds : segs'[x].display # "Absent" => x <= highWater'
    BY <1>1, <1>2, <1>3 DEF Core, Pool, PoolOf
  <1> QED
    BY <1>5, <1>6, <1>7, <1>8 DEF Core, Pool, PoolOf

(* An id skipped for its text or for want of room still counts as allocated. *)
LEMMA SkippedCore ==
  ASSUME CoreInv, NEW s \in SegIds, NEW r \in Revisions,
         RegisterUnusableText(s, r) \/ RegisterOverflow(s, r)
  PROVE  Core(Pool, {}, highWater)'
  <1> DEFINE t == Ticked
             h == highWater
  <1>1. PoolTyped(t) /\ Core(t, {}, h) /\ sent \subseteq JobIds /\ h \in Nat /\ s \in Nat
    BY PoolTypedNow, TickTyped, TickCore, IdsAssumption DEF CoreInv, TypeInv, TypeOK
  <1>2. Acceptable(t, s, r)
    BY DEF RegisterUnusableText, RegisterOverflow
  <1>3. highWater' \in Nat /\ h <= highWater'
    <2>1. CASE highWater' = h
      BY <1>1, <2>1
    <2>2. CASE highWater' = s /\ s \notin Live(t)
      BY <1>1, <1>2, <2>2 DEF Acceptable
    <2>3. RegisterOverflow(s, r) => highWater' = s /\ s \notin Live(t)
      BY DEF RegisterOverflow, Live, WithDisplay
    <2>4. RegisterUnusableText(s, r) => highWater' = h \/ (highWater' = s /\ s \notin Live(t))
      BY DEF RegisterUnusableText
    <2> QED
      BY <2>1, <2>2, <2>3, <2>4
  <1>4. PICK e : Core(e, {}, h) /\ Commit(e)
    <2>1. Core(RetireSegments(t, {s}), {}, h)
      BY <1>1, RetireCore
    <2> QED
      BY <1>1, <2>1 DEF RegisterUnusableText, RegisterOverflow
  <1> HIDE DEF t
  <1>5. \A h2 \in Nat : h <= h2 => Core(e, {}, h2)
    BY <1>1, <1>4, RaiseCore
  <1>6. generation' = generation /\ running' = running /\ sent' = sent
    BY DEF RegisterUnusableText, RegisterOverflow
  <1> QED
    BY <1>3, <1>4, <1>5, <1>6, CommitCore

LEMMA DuplicateCore ==
  ASSUME CoreInv, NEW s \in SegIds, NEW o \in Orders, RegisterDuplicate(s, o)
  PROVE  Core(Pool, {}, highWater)'
  <1> DEFINE t == Ticked
             seg == [t.segs[s] EXCEPT !.order = o]
  <1>1. PoolTyped(t) /\ Core(t, {}, highWater)
    BY PoolTypedNow, TickTyped, TickCore DEF CoreInv, TypeInv, TypeOK
  <1>2. /\ seg.display = t.segs[s].display /\ seg.rev = t.segs[s].rev
        /\ seg.att = t.segs[s].att /\ seg.processed = t.segs[s].processed
    BY <1>1 DEF PoolTyped, Segments
  <1>3. Commit(SetSegment(t, s, seg))
    BY DEF RegisterDuplicate
  <1> HIDE DEF t, seg
  <1>4. Core(SetSegment(t, s, seg), {}, highWater)
    BY <1>1, <1>2, SetShapeCore
  <1>5. highWater' = highWater /\ generation' = generation /\ running' = running /\ sent' = sent
    BY DEF RegisterDuplicate, Unticked
  <1> QED
    BY <1>3, <1>4, <1>5, CommitCore

(* Retire, Tick, and a retry that no longer pays. *)
LEMMA RetiringCore ==
  ASSUME CoreInv, Tick \/ DispatchExpiresRetry \/ (\E s \in SegIds : Retire(s))
  PROVE  Core(Pool, {}, highWater)'
  <1>1. PoolTyped(Pool) /\ Core(Pool, {}, highWater)
    BY PoolTypedNow DEF CoreInv
  <1>2. PoolTyped(Ticked) /\ Core(Ticked, {}, highWater)
    BY <1>1, TickTyped, TickCore
  <1>3. PICK e : Core(e, {}, highWater) /\ Commit(e)
    BY <1>1, <1>2, RetireCore, DropCore DEF Tick, DispatchExpiresRetry, Retire
  <1>4. highWater' = highWater /\ generation' = generation /\ running' = running /\ sent' = sent
    BY DEF Tick, DispatchExpiresRetry, Retire, Unticked
  <1> QED
    BY <1>3, <1>4, CommitCore

-----------------------------------------------------------------------------
THEOREM InitCore == Init => CoreInv
  <1> SUFFICES ASSUME Init PROVE CoreInv
    OBVIOUS
  <1>1. TypeInv
    BY InitTypes
  <1>2. queue = {} /\ running = {} /\ sent = {} /\ \A s \in SegIds : segs[s].display = "Absent"
    BY AbsentType DEF Init
  <1>3. WithDisplay(Pool, {"Visible"}) = {}
    BY <1>2 DEF WithDisplay, Pool, PoolOf
  <1> QED
    BY <1>1, <1>2, <1>3 DEF CoreInv, Core, Pool, PoolOf

THEOREM StepCore == CoreInv /\ [Next]_vars => CoreInv'
  <1> SUFFICES ASSUME CoreInv, [Next]_vars PROVE CoreInv'
    OBVIOUS
  <1> USE DEF CoreInv
  <1>1. TypeInv'
    BY StepTypes
  <1>2. CASE Dispatch
    BY <1>1, <1>2, DispatchCore
  <1>3. ASSUME NEW id \in running, NEW ok \in BOOLEAN, Complete(id, ok) PROVE CoreInv'
    <2>1. Core(Pool, {}, highWater)'
      BY <1>3, CompleteCore
    <2>2. running' \subseteq sent'
      BY <1>3 DEF Complete, Released
    <2> QED
      BY <1>1, <2>1, <2>2
  <1>4. ASSUME Core(Pool, {}, highWater)', running' = running, sent' = sent PROVE CoreInv'
    BY <1>1, <1>4
  <1>5. ASSUME NEW g \in 1..MaxGeneration, ResetGeneration(g) PROVE CoreInv'
    BY <1>4, <1>5, ResetCore DEF ResetGeneration
  <1>6. ASSUME NEW s \in SegIds, NEW r \in Revisions,
               RegisterUnusableText(s, r) \/ RegisterOverflow(s, r)
        PROVE  CoreInv'
    BY <1>4, <1>6, SkippedCore DEF RegisterUnusableText, RegisterOverflow
  <1>7. ASSUME NEW s \in SegIds, NEW o \in Orders, RegisterDuplicate(s, o) PROVE CoreInv'
    BY <1>4, <1>7, DuplicateCore DEF RegisterDuplicate, Unticked
  <1>8. ASSUME NEW s \in SegIds, NEW r \in Revisions, NEW o \in Orders,
               NEW replaces \in SUBSET SegIds, RegisterRevision(s, r, o, replaces)
        PROVE  CoreInv'
    BY <1>4, <1>8, RegisterCore DEF RegisterRevision, Registered
  <1>9. ASSUME NEW s \in SegIds, NEW page \in Pages \cup {0},
               NEW left \in Lifetimes \cup {NoDeadline},
               RequestQualityRetry(s, page, left) \/ NoteDisplayPage(s, page, left)
        PROVE  CoreInv'
    BY <1>4, <1>9, RetryCore, PageCore DEF RequestQualityRetry, MayRetry, Requested, NoteDisplayPage, Noted, Unticked
  <1>10. CASE Tick \/ DispatchExpiresRetry \/ (\E s \in SegIds : Retire(s))
    BY <1>4, <1>10, RetiringCore DEF Tick, DispatchExpiresRetry, Retire, Unticked
  <1>11. ASSUME NEW s \in SegIds, MarkVisible(s) PROVE CoreInv'
    BY <1>4, <1>11, VisibleCore DEF MarkVisible, MayShow, MarkedVisible, Unticked
  <1>12. ASSUME NEW s \in SegIds, ForgetRetired(s) PROVE CoreInv'
    BY <1>4, <1>12, ForgetCore DEF ForgetRetired, Unticked
  <1>13. ASSUME NEW on \in BOOLEAN, SetQualityRetry(on) PROVE CoreInv'
    BY <1>4, <1>13, SettingCore DEF SetQualityRetry, WithoutRetries
  <1>14. ASSUME NEW s \in SegIds, NEW suspected \in Verdicts, NEW eligible \in BOOLEAN,
                SetQualityJudgement(s, suspected, eligible)
         PROVE  CoreInv'
    BY <1>4, <1>14, JudgementCore DEF SetQualityJudgement, Judged, Unticked
  <1>15. CASE Advance
    BY <1>4, <1>15, AdvanceCore DEF Advance, Aged, Unticked
  <1>16. CASE UNCHANGED vars
    BY <1>1, <1>16 DEF vars, Core, JobOk, WireOk, SentOk, Pool, PoolOf, Live, WithDisplay, CurrentJob
  <1> QED
    BY <1>2, <1>3, <1>5, <1>6, <1>7, <1>8, <1>9, <1>10, <1>11, <1>12, <1>13, <1>14, <1>15, <1>16
       DEF Next

(* The inductive invariant: every queued or uncancelled request is for the current
   job of a live segment, no queued job was sent before, and nothing that was sent
   is newer than its segment. *)
THEOREM CoreCorrect == Spec => []CoreInv
  BY InitCore, StepCore, PTL DEF Spec

(* No request is spent on a superseded revision: what is queued, or on the wire and
   not asked to cancel, is the unanswered current job of a live segment (enqueue,
   retire_segment, reset_generation). *)
THEOREM JobsStayCurrent == Spec => []JobsAreCurrent
  <1>1. CoreInv => JobsAreCurrent
    <2> SUFFICES ASSUME CoreInv PROVE JobsAreCurrent
      OBVIOUS
    <2>1. \A j \in queue : JobOk(Pool, j)
      BY DEF CoreInv, Core, Pool, PoolOf
    <2>2. \A id \in running \ cancelled : WireOk(Pool, id)
      BY DEF CoreInv, Core, Pool, PoolOf
    <2>3. \A j \in queue : j.id \notin running
      BY DEF CoreInv, Core, Pool, PoolOf
    <2> QED
      BY <2>1, <2>2, <2>3 DEF JobsAreCurrent, JobOk, WireOk, Pool, PoolOf
  <1> QED
    BY CoreCorrect, <1>1, PTL

(* Whatever kQualityMaxRetryQueued allows, at most one retry is queued, that of the
   one visible segment (request_quality_retry, mark_visible, retire_segment). *)
THEOREM OneRetryIsQueued == Spec => []OneRetryQueued
  <1>1. CoreInv => OneRetryQueued
    <2> SUFFICES ASSUME CoreInv PROVE OneRetryQueued
      OBVIOUS
    <2>1. \A s, t \in WithDisplay(Pool, {"Visible"}) : s = t
      BY DEF CoreInv, Core
    <2>2. \A j, k \in queue : j.id.seg = k.id.seg => j = k
      BY DEF CoreInv, Core, Pool, PoolOf
    <2>3. \A j \in Retries(queue) : j \in queue /\ JobOk(Pool, j) /\ IsRetry(j)
      BY DEF CoreInv, Core, Pool, PoolOf, Retries
    <2>4. \A j \in Retries(queue) : /\ segs[j.id.seg].display = "Visible"
                                    /\ j.id.seg \in WithDisplay(Pool, {"Visible"})
      BY <2>3 DEF JobOk, Live, WithDisplay, Pool, PoolOf
    <2> QED
      BY <2>1, <2>2, <2>3, <2>4 DEF OneRetryQueued
  <1> QED
    BY CoreCorrect, <1>1, PTL

(* Only dispatch and complete take or release a transport slot. *)
LEMMA OnlyTheseMoveSlots ==
  ASSUME Next, ~Dispatch, ~(\E id \in running, ok \in BOOLEAN : Complete(id, ok))
  PROVE  running' = running
  <1>1. \A g : ResetGeneration(g) => running' = running
    BY DEF ResetGeneration
  <1>2. \A s, r : RegisterUnusableText(s, r) \/ RegisterOverflow(s, r) => running' = running
    BY DEF RegisterUnusableText, RegisterOverflow
  <1>3. \A s, o : RegisterDuplicate(s, o) => running' = running
    BY DEF RegisterDuplicate, Unticked
  <1>4. \A s, r, o, replaces : RegisterRevision(s, r, o, replaces) => running' = running
    BY DEF RegisterRevision, Registered
  <1>5. \A s, page, left : RequestQualityRetry(s, page, left) => running' = running
    BY DEF RequestQualityRetry, MayRetry, Requested, Unticked
  <1>6. \A s, page, left : NoteDisplayPage(s, page, left) => running' = running
    BY DEF NoteDisplayPage, Noted, Unticked
  <1>7. \A s : MarkVisible(s) \/ Retire(s) \/ ForgetRetired(s) => running' = running
    BY DEF MarkVisible, MayShow, MarkedVisible, Retire, ForgetRetired, Unticked
  <1>8. \A on : SetQualityRetry(on) => running' = running
    BY DEF SetQualityRetry, WithoutRetries
  <1>9. \A s, suspected, eligible : SetQualityJudgement(s, suspected, eligible) => running' = running
    BY DEF SetQualityJudgement, Judged, Unticked
  <1>10. DispatchExpiresRetry \/ Tick \/ Advance => running' = running
    BY DEF DispatchExpiresRetry, Tick, Advance, Aged, Unticked
  <1> QED
    BY <1>1, <1>2, <1>3, <1>4, <1>5, <1>6, <1>7, <1>8, <1>9, <1>10 DEF Next

(* The transport never gets a job id twice, across revisions, resets and the reuse of
   metadata (dispatch). *)
THEOREM SentOnce == Spec => DispatchedOnce
  <1> DEFINE Once == \A id \in JobIds : id \in sent => ~(id \notin running /\ id \in running')
  <1>1. CoreInv /\ [Next]_vars => [Once]_vars
    <2> SUFFICES ASSUME CoreInv, Next PROVE Once
      OBVIOUS
    <2>1. CASE Dispatch
      <3>1. \A j \in Ticked.queue : j.id \notin sent
        <4>1. Core(Ticked, {}, highWater)
          BY PoolTypedNow, TickCore DEF CoreInv
        <4> QED
          BY <4>1 DEF Core
      <3>2. PICK j \in Ticked.queue : running' = running \cup {j.id}
        BY <2>1 DEF Dispatch, Foremost, Eligible
      <3>3. j.id \notin sent
        BY <3>1
      <3> QED
        BY <3>2, <3>3
    <2>2. CASE \E id \in running, ok \in BOOLEAN : Complete(id, ok)
      BY <2>2 DEF Complete, Released
    <2>3. CASE ~Dispatch /\ ~(\E id \in running, ok \in BOOLEAN : Complete(id, ok))
      <3>1. running' = running
        BY <2>3, OnlyTheseMoveSlots
      <3> QED
        BY <3>1
    <2> QED
      BY <2>1, <2>2, <2>3
  <1> QED
    BY CoreCorrect, <1>1, PTL DEF Spec, DispatchedOnce

(* The pool is never oversubscribed, and retries never take more than their share of
   it: cancelled requests and those of older generations hold their slots until they
   end, and each releases its own (dispatch, complete). *)
SlotsInv ==
    /\ IsFiniteSet(running)
    /\ SlotsBounded

THEOREM SlotsStayBounded == Spec => []SlotsBounded
  <1> DEFINE R == {id \in running : IsRetryId(id)}
  <1>1. Init => SlotsInv
    <2> SUFFICES ASSUME Init PROVE SlotsInv
      OBVIOUS
    <2>1. running = {} /\ R = {}
      BY DEF Init
    <2> QED
      BY <2>1, FS_EmptySet, LimitsAssumption DEF SlotsInv, SlotsBounded
  <1>2. CoreInv /\ SlotsInv /\ [Next]_vars => SlotsInv'
    <2> SUFFICES ASSUME CoreInv, SlotsInv, [Next]_vars PROVE SlotsInv'
      OBVIOUS
    <2>1. IsFiniteSet(running) /\ IsFiniteSet(R) /\ Cardinality(running) \in Nat /\ Cardinality(R) \in Nat
      BY FS_Subset, FS_CardinalityType DEF SlotsInv
    <2>2. CASE Dispatch
      <3>1. PICK j \in Eligible(Ticked) : running' = running \cup {j.id}
        BY <2>2 DEF Dispatch, Foremost
      <3>2. Cardinality(running) < MaxInFlight
        BY <2>2 DEF Dispatch, Foremost
      <3>3. IsFiniteSet(running') /\ Cardinality(running') <= MaxInFlight
        BY <2>1, <3>1, <3>2, FS_AddElement, LimitsAssumption
      <3>4. IsRetry(j) <=> IsRetryId(j.id)
        <4>1. Core(Ticked, {}, highWater) /\ j \in Ticked.queue
          BY PoolTypedNow, TickCore DEF CoreInv, Eligible
        <4> QED
          BY <4>1 DEF Core, JobOk
      <3>5. Cardinality(R') <= MaxRetryInFlight
        <4>1. CASE IsRetryId(j.id)
          <5>1. Cardinality(R) < MaxRetryInFlight
            BY <3>4, <4>1 DEF Eligible, RetryMayStart
          <5>2. R' = R \cup {j.id}
            BY <3>1, <4>1
          <5> QED
            BY <2>1, <5>1, <5>2, FS_AddElement, LimitsAssumption
        <4>2. CASE ~IsRetryId(j.id)
          <5>1. R' = R
            BY <3>1, <4>2
          <5> QED
            BY <5>1 DEF SlotsInv, SlotsBounded
        <4> QED
          BY <4>1, <4>2
      <3> QED
        BY <3>3, <3>5 DEF SlotsInv, SlotsBounded
    <2>3. CASE \E id \in running, ok \in BOOLEAN : Complete(id, ok)
      <3>1. running' \subseteq running /\ R' \subseteq R
        BY <2>3 DEF Complete, Released
      <3>2. /\ IsFiniteSet(running')
            /\ Cardinality(running') \in Nat /\ Cardinality(R') \in Nat
            /\ Cardinality(running') <= Cardinality(running)
            /\ Cardinality(R') <= Cardinality(R)
        BY <2>1, <3>1, FS_Subset, FS_CardinalityType
      <3> QED
        BY <2>1, <3>2, LimitsAssumption DEF SlotsInv, SlotsBounded
    <2>4. CASE running' = running
      BY <2>4 DEF SlotsInv, SlotsBounded
    <2> QED
      BY <2>2, <2>3, <2>4, OnlyTheseMoveSlots DEF vars
  <1> QED
    BY CoreCorrect, <1>1, <1>2, PTL DEF Spec, SlotsInv

=============================================================================
