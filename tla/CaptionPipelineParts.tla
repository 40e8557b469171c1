-------------------------- MODULE CaptionPipelineParts --------------------------
(* What CaptionPipeline asks of its parts: the operations of scheduler and      *)
(* composer it puts together, for every value of the constants.                 *)
EXTENDS CaptionPipeline, FiniteSetTheorems, WellFoundedInduction, TLAPS

-----------------------------------------------------------------------------
(* The scheduler's part, in the middle of a call. *)

Pools == [segs : [SegIds -> Sch!Segments], queue : SUBSET Sch!Jobs, cancelled : SUBSET running]

\* A live segment has a job.
LiveTyped(p) ==
    \A s \in Sch!Live(p) :
        generation > 0 /\ p.segs[s].rev \in 1..MaxRevision /\ p.segs[s].att \in {1, 2}

GoodPool(p) == p \in Pools /\ LiveTyped(p)

Alive == {"Waiting", "Visible"}

\* From p to q segments are only retired; what lives is as old and reads the same.
Fades(p, q) ==
    \A s \in SegIds :
        \/ q.segs[s].display = "Retired" /\ p.segs[s].display \in Alive
        \/ /\ q.segs[s].display = p.segs[s].display
           /\ q.segs[s].age = p.segs[s].age /\ q.segs[s].text = p.segs[s].text

\* The same without a retirement.
Stays(p, q) ==
    \A s \in SegIds :
        /\ q.segs[s].display = p.segs[s].display
        /\ q.segs[s].age = p.segs[s].age /\ q.segs[s].text = p.segs[s].text

NoneStale(p) == \A s \in SegIds : p.segs[s].display = "Waiting" => p.segs[s].age < StaleAge

LEMMA FadesOn ==
  ASSUME NEW p, NEW q, NEW r, Fades(p, q), Fades(q, r)
  PROVE  Fades(p, r)
  BY DEF Fades, Alive

LEMMA StaysFades ==
  ASSUME NEW p, NEW q, Stays(p, q)
  PROVE  Fades(p, q)
  BY DEF Stays, Fades

LEMMA FadesItself ==
  ASSUME NEW p
  PROVE  Fades(p, p) /\ Stays(p, p)
  BY DEF Fades, Stays

LEMMA FadesFresh ==
  ASSUME NEW p, NEW q, Fades(p, q), NoneStale(p)
  PROVE  NoneStale(q)
  BY DEF Fades, NoneStale

LEMMA PoolLive ==
  ASSUME NEW p
  PROVE  Sch!Live(p) = {s \in SegIds : p.segs[s].display \in Alive}
  BY DEF Sch!Live, Sch!WithDisplay, Alive

LEMMA PoolFields ==
  ASSUME NEW S, NEW Q, NEW C
  PROVE  /\ Sch!PoolOf(S, Q, C).segs = S /\ Sch!PoolOf(S, Q, C).queue = Q
         /\ Sch!PoolOf(S, Q, C).cancelled = C
         /\ S \in [SegIds -> Sch!Segments] /\ Q \subseteq Sch!Jobs /\ C \subseteq running
              => Sch!PoolOf(S, Q, C) \in Pools
  BY DEF Sch!PoolOf, Pools

\* To be a good pool, by its parts.
LEMMA GoodParts ==
  ASSUME NEW S \in [SegIds -> Sch!Segments], NEW Q \in SUBSET Sch!Jobs, NEW C \in SUBSET running,
         \A s \in SegIds : S[s].display \in Alive =>
            generation > 0 /\ S[s].rev \in 1..MaxRevision /\ S[s].att \in {1, 2}
  PROVE  GoodPool(Sch!PoolOf(S, Q, C))
  BY PoolFields, PoolLive DEF GoodPool, LiveTyped

LEMMA GoodFields ==
  ASSUME NEW p, GoodPool(p)
  PROVE  /\ p.segs \in [SegIds -> Sch!Segments] /\ p.queue \in SUBSET Sch!Jobs
         /\ p.cancelled \in SUBSET running
         /\ \A s \in SegIds : p.segs[s] \in Sch!Segments
         /\ \A s \in SegIds : p.segs[s].display \in Alive =>
               generation > 0 /\ p.segs[s].rev \in 1..MaxRevision /\ p.segs[s].att \in {1, 2}
  BY PoolLive DEF GoodPool, Pools, LiveTyped

LEMMA NoTextType == Sch!NoText \in [rev : 1..MaxRevision \cup {0}, att : {0, 1, 2}]
  BY DEF Sch!NoText

LEMMA PoolAbsentType ==
  /\ Sch!Absent \in Sch!Segments /\ Sch!Absent.display = "Absent"
  /\ Sch!Absent.text = Sch!NoText /\ Sch!Absent.age = 0
  <1>1. 0 \in 0..StaleAge
    BY LimitsAssumption
  <1>2. Sch!NoDeadline \in Nat \cup {Sch!NoDeadline}
    OBVIOUS
  <1>3. "Absent" \in Sch!Displays
    BY DEF Sch!Displays
  <1> QED
    BY NoTextType, <1>1, <1>2, <1>3 DEF Sch!Segments, Sch!Absent

LEMMA PoolTombstoneType ==
  Sch!Tombstone \in Sch!Segments /\ Sch!Tombstone.display = "Retired"
  <1>1. "Retired" \in Sch!Displays
    BY DEF Sch!Displays
  <1> QED
    BY PoolAbsentType, <1>1 DEF Sch!Segments, Sch!Tombstone

LEMMA SpentType ==
  ASSUME NEW seg \in Sch!Segments
  PROVE  /\ Sch!Spent(seg) \in Sch!Segments
         /\ Sch!Spent(seg).display = seg.display /\ Sch!Spent(seg).rev = seg.rev
         /\ Sch!Spent(seg).att = seg.att /\ Sch!Spent(seg).age = seg.age
         /\ Sch!Spent(seg).text = seg.text
  BY DEF Sch!Spent, Sch!Segments

LEMMA CancelGood ==
  ASSUME NEW p, GoodPool(p), NEW ids \in SUBSET running
  PROVE  /\ GoodPool(Sch!CancelIds(p, ids)) /\ Stays(p, Sch!CancelIds(p, ids))
         /\ Sch!CancelIds(p, ids).segs = p.segs /\ Sch!CancelIds(p, ids).queue = p.queue
  BY GoodFields, GoodParts, PoolFields DEF Sch!CancelIds, Stays

LEMMA CancelRunningGood ==
  ASSUME NEW p, GoodPool(p), NEW S
  PROVE  /\ GoodPool(Sch!CancelRunning(p, S)) /\ Stays(p, Sch!CancelRunning(p, S))
         /\ Sch!CancelRunning(p, S).segs = p.segs /\ Sch!CancelRunning(p, S).queue = p.queue
  BY CancelGood DEF Sch!CancelRunning

LEMMA UnqueueGood ==
  ASSUME NEW p, GoodPool(p), NEW J
  PROVE  GoodPool(Sch!Unqueue(p, J)) /\ Stays(p, Sch!Unqueue(p, J)) /\ Sch!Unqueue(p, J).segs = p.segs
  BY GoodFields, GoodParts, PoolFields DEF Sch!Unqueue, Stays

LEMMA PushGood ==
  ASSUME NEW p, GoodPool(p), NEW j \in Sch!Jobs
  PROVE  GoodPool(Sch!Push(p, j)) /\ Stays(p, Sch!Push(p, j)) /\ Sch!Push(p, j).segs = p.segs
  BY GoodFields, GoodParts, PoolFields DEF Sch!Push, Stays

\* Replacing the record of one segment.
LEMMA SetGood ==
  ASSUME NEW p, GoodPool(p), NEW s \in SegIds, NEW seg \in Sch!Segments,
         seg.display \in Alive =>
            generation > 0 /\ seg.rev \in 1..MaxRevision /\ seg.att \in {1, 2}
  PROVE  /\ GoodPool(Sch!SetSegment(p, s, seg))
         /\ Sch!SetSegment(p, s, seg).segs[s] = seg
         /\ \A t \in SegIds \ {s} : Sch!SetSegment(p, s, seg).segs[t] = p.segs[t]
  <1> DEFINE S == [p.segs EXCEPT ![s] = seg]
  <1>1. /\ S \in [SegIds -> Sch!Segments] /\ S[s] = seg
        /\ \A t \in SegIds \ {s} : S[t] = p.segs[t]
    BY GoodFields
  <1>2. \A t \in SegIds : S[t].display \in Alive =>
            generation > 0 /\ S[t].rev \in 1..MaxRevision /\ S[t].att \in {1, 2}
    BY <1>1, GoodFields
  <1> HIDE DEF S
  <1>3. Sch!SetSegment(p, s, seg) = Sch!PoolOf(S, p.queue, p.cancelled)
    BY DEF Sch!SetSegment, S
  <1> QED
    BY <1>1, <1>2, <1>3, GoodFields, GoodParts, PoolFields

LEMMA DropGood ==
  ASSUME NEW p, GoodPool(p), NEW J
  PROVE  GoodPool(Sch!DropRetries(p, J)) /\ Stays(p, Sch!DropRetries(p, J))
  <1> DEFINE S == [s \in SegIds |-> IF Sch!QueuedFor(J, {s}) # {} /\ s \in Sch!Live(p)
                                    THEN Sch!Spent(p.segs[s]) ELSE p.segs[s]]
  <1>1. Sch!DropRetries(p, J) = Sch!PoolOf(S, p.queue \ J, p.cancelled)
    BY DEF Sch!DropRetries
  <1>2. /\ S \in [SegIds -> Sch!Segments]
        /\ \A s \in SegIds : /\ S[s].display = p.segs[s].display /\ S[s].age = p.segs[s].age
                             /\ S[s].text = p.segs[s].text /\ S[s].rev = p.segs[s].rev
                             /\ S[s].att = p.segs[s].att
    BY GoodFields, SpentType
  <1> HIDE DEF S
  <1>3. GoodPool(Sch!DropRetries(p, J))
    <2>1. \A s \in SegIds : S[s].display \in Alive =>
            generation > 0 /\ S[s].rev \in 1..MaxRevision /\ S[s].att \in {1, 2}
      BY <1>2, GoodFields
    <2>2. p.queue \ J \in SUBSET Sch!Jobs
      BY GoodFields
    <2> QED BY <1>1, <1>2, <2>1, <2>2, GoodFields, GoodParts
  <1> QED
    BY <1>1, <1>2, <1>3, PoolFields DEF Stays

LEMMA RetireGood ==
  ASSUME NEW p, GoodPool(p), NEW S
  PROVE  LET q == Sch!RetireSegments(p, S) IN
         /\ GoodPool(q) /\ Fades(p, q)
         /\ \A s \in SegIds : q.segs[s] = IF s \in S /\ p.segs[s].display \in Alive
                                          THEN Sch!Tombstone ELSE p.segs[s]
  <1> DEFINE R == S \cap Sch!Live(p)
             T == [s \in SegIds |-> IF s \in R THEN Sch!Tombstone ELSE p.segs[s]]
             kept == Sch!PoolOf(T, p.queue \ Sch!QueuedFor(p.queue, R), p.cancelled)
             q == Sch!RetireSegments(p, S)
  <1>1. /\ T \in [SegIds -> Sch!Segments]
        /\ \A s \in SegIds : T[s] = IF s \in S /\ p.segs[s].display \in Alive
                                    THEN Sch!Tombstone ELSE p.segs[s]
    BY PoolTombstoneType, GoodFields, PoolLive
  <1>2. q = Sch!CancelRunning(kept, R)
    BY DEF Sch!RetireSegments
  <1> HIDE DEF T, R, q
  <1>3. GoodPool(kept) /\ kept.segs = T
    <2>1. \A s \in SegIds : T[s].display \in Alive =>
            generation > 0 /\ T[s].rev \in 1..MaxRevision /\ T[s].att \in {1, 2}
      BY <1>1, GoodFields, PoolTombstoneType DEF Alive
    <2>2. p.queue \ Sch!QueuedFor(p.queue, R) \in SUBSET Sch!Jobs
      BY GoodFields
    <2> QED BY <1>1, <2>1, <2>2, GoodFields, GoodParts, PoolFields
  <1>4. GoodPool(q) /\ q.segs = T
    BY <1>2, <1>3, CancelRunningGood
  <1>5. Fades(p, q)
    BY <1>1, <1>4, PoolTombstoneType DEF Fades
  <1> QED
    BY <1>1, <1>4, <1>5 DEF q

LEMMA ExpireRetriesGood ==
  ASSUME NEW p, GoodPool(p)
  PROVE  GoodPool(Sch!ExpireRetries(p)) /\ Stays(p, Sch!ExpireRetries(p))
  BY DropGood DEF Sch!ExpireRetries

\* The tick retires what waited too long, and nothing else.
LEMMA TickedGood ==
  ASSUME NEW p, GoodPool(p)
  PROVE  LET t == Sch!TickedPool(p) IN
         /\ GoodPool(t) /\ Fades(p, t) /\ NoneStale(t)
         /\ NoneStale(p) => Stays(p, t)
  <1> DEFINE W == {s \in Sch!Waiting(p) : p.segs[s].age >= StaleAge}
             r == Sch!RetireSegments(p, W)
             t == Sch!TickedPool(p)
  <1>1. t = Sch!ExpireRetries(r)
    BY DEF Sch!TickedPool
  <1>2. \A s \in SegIds : s \in W <=> p.segs[s].display = "Waiting" /\ p.segs[s].age >= StaleAge
    BY DEF Sch!Waiting, Sch!WithDisplay
  <1>3. \A s \in SegIds : p.segs[s].age \in Nat /\ StaleAge \in Nat
    BY GoodFields, LimitsAssumption DEF Sch!Segments
  <1> HIDE DEF W, t
  <1>4. /\ GoodPool(r) /\ Fades(p, r)
        /\ \A s \in SegIds : r.segs[s] = IF s \in W /\ p.segs[s].display \in Alive
                                          THEN Sch!Tombstone ELSE p.segs[s]
    BY RetireGood
  <1> HIDE DEF r
  <1>5. NoneStale(r)
    BY <1>2, <1>3, <1>4, PoolTombstoneType DEF NoneStale, Alive
  <1>6. NoneStale(p) => Stays(p, r)
    BY <1>2, <1>3, <1>4 DEF NoneStale, Stays
  <1>7. GoodPool(t) /\ Stays(r, t)
    BY <1>1, <1>4, ExpireRetriesGood
  <1>8. Fades(p, t) /\ NoneStale(t)
    BY <1>4, <1>5, <1>7, StaysFades, FadesOn, FadesFresh
  <1>9. NoneStale(p) => Stays(p, t)
    BY <1>6, <1>7 DEF Stays
  <1> QED
    BY <1>7, <1>8, <1>9 DEF t

(* enforce_limits: what it retires is a prefix of the order of age, and there is *)
(* always a shortest one that suffices.                                          *)

PoolTrimmed(p) ==
    IF Sch!Cardinality(p.queue) > MaxQueued THEN Sch!DropRetries(p, Sch!Retries(p.queue)) ELSE p
PrefixesOf(d) ==
    {P \in SUBSET Sch!Waiting(d) : \A s \in P, t \in Sch!Waiting(d) : Sch!Older(d, t, s) => t \in P}
SufficesIn(d, P) == P = Sch!Waiting(d) \/ Sch!WithinLimits(Sch!RetireSegments(d, P))

LEMMA IdsAreFinite == IsFiniteSet(SegIds) /\ SegIds \subseteq Nat \ {0} /\ 0 \notin SegIds
  <1>1. Cardinality(SegIds) \in Nat
    BY PipelineAssumption, FS_CardinalityType
  <1> QED
    BY <1>1, PipelineAssumption

LEMMA OlderIsTotal ==
  ASSUME NEW d, GoodPool(d), NEW s \in SegIds, NEW t \in SegIds, s # t
  PROVE  Sch!Older(d, s, t) \/ Sch!Older(d, t, s)
  <1>1. \A u \in SegIds : d.segs[u].age \in Nat /\ d.segs[u].order \in Nat /\ u \in Nat
    <2>1. \A u \in SegIds : d.segs[u].age \in 0..StaleAge
                           /\ d.segs[u].order \in {Order(v) : v \in SegIds} \cup {0}
      BY GoodFields DEF Sch!Segments
    <2>2. \A v \in SegIds : Order(v) \in Nat
      BY PipelineAssumption
    <2>3. StaleAge \in Nat
      BY LimitsAssumption
    <2>4. SegIds \subseteq Nat
      BY IdsAreFinite
    <2>5. 0..StaleAge \subseteq Nat
      BY <2>3
    <2>6. {Order(v) : v \in SegIds} \cup {0} \subseteq Nat
      BY <2>2
    <2> QED
      BY <2>1, <2>4, <2>5, <2>6
  <1> QED
    BY <1>1 DEF Sch!Older

LEMMA PrefixesAreChained ==
  ASSUME NEW d, GoodPool(d), NEW P \in PrefixesOf(d), NEW Q \in PrefixesOf(d)
  PROVE  P \subseteq Q \/ Q \subseteq P
  <1>1. SUFFICES ASSUME NEW s \in P, s \notin Q, NEW t \in Q, t \notin P
                 PROVE  FALSE
    OBVIOUS
  <1>2. s \in Sch!Waiting(d) /\ t \in Sch!Waiting(d) /\ s # t
    BY <1>1 DEF PrefixesOf
  <1>3. s \in SegIds /\ t \in SegIds
    BY <1>2 DEF Sch!Waiting, Sch!WithDisplay
  <1>4. Sch!Older(d, s, t) \/ Sch!Older(d, t, s)
    BY <1>2, <1>3, OlderIsTotal
  <1> QED
    BY <1>1, <1>2, <1>4 DEF PrefixesOf

LEMMA LeastNumber ==
  ASSUME NEW S \in SUBSET Nat, S # {}
  PROVE  \E m \in S : \A n \in S : m <= n
  <1> DEFINE R == OpToRel(<, Nat)
  <1>1. IsWellFoundedOn(R, Nat)
    BY NatLessThanWellFounded
  <1>2. \A m, n \in Nat : << m, n >> \in R <=> m < n
    BY DEF OpToRel
  <1> HIDE DEF R
  <1>3. PICK m \in S : \A n \in S : ~(<< n, m >> \in R)
    BY <1>1, WFMin
  <1>4. ASSUME NEW n \in S PROVE m <= n
    <2>1. n \in Nat /\ m \in Nat
      OBVIOUS
    <2>2. ~(n < m)
      BY <1>2, <1>3, <2>1
    <2> QED
      BY <2>1, <2>2
  <1> QED
    BY <1>4

LEMMA ShortestPrefix ==
  ASSUME NEW d, GoodPool(d)
  PROVE  \E P \in PrefixesOf(d) :
            SufficesIn(d, P) /\ \A Q \in PrefixesOf(d) : SufficesIn(d, Q) => P \subseteq Q
  <1> DEFINE Enough == {P \in PrefixesOf(d) : SufficesIn(d, P)}
             Sizes == {Cardinality(P) : P \in Enough}
  <1>1. Sch!Waiting(d) \in Enough
    BY DEF PrefixesOf, SufficesIn
  <1>2. \A P \in Enough : IsFiniteSet(P) /\ Cardinality(P) \in Nat
    BY IdsAreFinite, FS_Subset, FS_CardinalityType DEF PrefixesOf, Sch!Waiting, Sch!WithDisplay
  <1>3. Sizes \in SUBSET Nat /\ Sizes # {}
    BY <1>1, <1>2
  <1>4. PICK m \in Sizes : \A n \in Sizes : m <= n
    <2> HIDE DEF Sizes
    <2> QED BY <1>3, LeastNumber
  <1>5. PICK P \in Enough : Cardinality(P) = m
    OBVIOUS
  <1>6. ASSUME NEW Q \in Enough PROVE P \subseteq Q
    <2>1. Q \subseteq P => P = Q
      <3>1. Cardinality(P) <= Cardinality(Q)
        BY <1>4, <1>5
      <3>2. Q \subseteq P => Cardinality(Q) <= Cardinality(P) /\ (Cardinality(Q) = Cardinality(P) => Q = P)
        BY <1>2, FS_Subset
      <3> QED BY <1>2, <3>1, <3>2
    <2> QED
      BY <2>1, PrefixesAreChained
  <1> QED
    BY <1>5, <1>6

LEMMA EnforceGood ==
  ASSUME NEW p, GoodPool(p)
  PROVE  /\ Sch!EnforceLimits(p) # {}
         /\ \A e \in Sch!EnforceLimits(p) : GoodPool(e) /\ Fades(p, e)
  <1> DEFINE d == PoolTrimmed(p)
             Least == {P \in PrefixesOf(d) :
                         SufficesIn(d, P) /\ \A Q \in PrefixesOf(d) : SufficesIn(d, Q) => P \subseteq Q}
  <1>1. Sch!EnforceLimits(p) = {Sch!RetireSegments(d, P) : P \in Least}
    BY DEF Sch!EnforceLimits, PoolTrimmed, PrefixesOf, SufficesIn
  <1>2. GoodPool(d) /\ Fades(p, d)
    BY DropGood, StaysFades, FadesItself DEF PoolTrimmed
  <1> HIDE DEF d
  <1>3. Least # {}
    BY <1>2, ShortestPrefix
  <1>4. \A P : GoodPool(Sch!RetireSegments(d, P)) /\ Fades(p, Sch!RetireSegments(d, P))
    BY <1>2, RetireGood, FadesOn
  <1> HIDE DEF Least
  <1> QED
    BY <1>1, <1>3, <1>4

\* enqueue
LEMMA EnqueueGood ==
  ASSUME NEW p, GoodPool(p), generation \in 0..MaxGeneration,
         NEW s \in SegIds, p.segs[s].display \in Alive, NEW kind \in Sch!Kinds
  PROVE  /\ Sch!Enqueue(p, s, kind) # {}
         /\ \A e \in Sch!Enqueue(p, s, kind) : GoodPool(e) /\ Fades(p, e)
  <1> DEFINE old == Sch!QueuedFor(p.queue, {s})
             f == IF kind = "QualityRetry" THEN p ELSE Sch!DropRetries(p, Sch!Retries(old))
             d == Sch!Unqueue(f, old)
             c == Sch!CancelRunning(d, {s})
             job == [id |-> Sch!CurrentJob(p, s), kind |-> kind]
             q == Sch!Push(c, job)
             seg == [c.segs[s] EXCEPT !.processed = FALSE]
             n == Sch!SetSegment(q, s, seg)
  <1>1. GoodPool(f) /\ Stays(p, f)
    BY DropGood, FadesItself
  <1>2. GoodPool(c) /\ Stays(p, c)
    <2> HIDE DEF f
    <2>1. GoodPool(d) /\ Stays(f, d)
      BY <1>1, UnqueueGood
    <2> HIDE DEF d
    <2>2. GoodPool(c) /\ Stays(d, c)
      BY <2>1, CancelRunningGood
    <2> HIDE DEF c
    <2> QED BY <1>1, <2>1, <2>2 DEF Stays
  <1>3. job \in Sch!Jobs
    <2>1. generation \in 1..MaxGeneration /\ p.segs[s].rev \in 1..MaxRevision /\ p.segs[s].att \in {1, 2}
      BY GoodFields, LimitsAssumption
    <2> QED BY <2>1 DEF Sch!CurrentJob, Sch!JobIds, Sch!Jobs
  <1> HIDE DEF c, job
  <1>4. GoodPool(q) /\ q.segs = c.segs
    BY <1>2, <1>3, PushGood
  <1>5. c.segs[s] \in Sch!Segments /\ c.segs[s].display \in Alive
    BY <1>2, GoodFields DEF Stays
  <1>6. /\ seg \in Sch!Segments /\ seg.display = c.segs[s].display
        /\ seg.rev = c.segs[s].rev /\ seg.att = c.segs[s].att
        /\ seg.age = c.segs[s].age /\ seg.text = c.segs[s].text
    BY <1>5 DEF Sch!Segments
  <1> HIDE DEF q, seg
  <1>7. generation > 0 /\ seg.rev \in 1..MaxRevision /\ seg.att \in {1, 2}
    BY <1>2, <1>5, <1>6, GoodFields
  <1>8. /\ GoodPool(n) /\ n.segs[s] = seg
        /\ \A t \in SegIds \ {s} : n.segs[t] = c.segs[t]
    BY <1>4, <1>6, <1>7, SetGood
  <1> HIDE DEF n
  <1>9. Stays(p, n)
    BY <1>2, <1>6, <1>8 DEF Stays
  <1>10. Sch!Enqueue(p, s, kind) = Sch!EnforceLimits(n)
    BY DEF Sch!Enqueue, n, seg, q, c, job
  <1> QED
    BY <1>8, <1>9, <1>10, EnforceGood, StaysFades, FadesOn

\* reset_quality_state
LEMMA RevisedType ==
  ASSUME NEW seg \in Sch!Segments, NEW r \in 1..MaxRevision, NEW o \in {Order(s) : s \in SegIds}
  PROVE  LET n == Sch!Revised(seg, r, o) IN
         /\ n \in Sch!Segments /\ n.display = seg.display /\ n.rev = r /\ n.att = 1
         /\ n.age = seg.age /\ n.text = seg.text
  BY DEF Sch!Revised, Sch!Segments

LEMMA NewSegmentType ==
  /\ Sch!NewSegment \in Sch!Segments /\ Sch!NewSegment.display = "Waiting"
  /\ Sch!NewSegment.age = 0
  <1>1. "Waiting" \in Sch!Displays
    BY DEF Sch!Displays
  <1> QED
    BY PoolAbsentType, <1>1 DEF Sch!Segments, Sch!NewSegment

\* s is new in q, or goes on with a new revision; others are at most retired.
Takes(p, q, s) ==
    /\ \A u \in SegIds \ {s} :
          \/ q.segs[u].display = "Retired" /\ p.segs[u].display \in Alive
          \/ /\ q.segs[u].display = p.segs[u].display
             /\ q.segs[u].age = p.segs[u].age /\ q.segs[u].text = p.segs[u].text
    /\ \/ q.segs[s].display = "Retired"
       \/ p.segs[s].display = "Absent" /\ q.segs[s].display = "Waiting" /\ q.segs[s].age = 0
       \/ /\ p.segs[s].display \in Alive /\ q.segs[s].display = p.segs[s].display
          /\ q.segs[s].age = p.segs[s].age /\ q.segs[s].text = p.segs[s].text

LEMMA TakesOn ==
  ASSUME NEW p, NEW q, NEW r, NEW s \in SegIds, Takes(p, q, s), Fades(q, r)
  PROVE  Takes(p, r, s)
  BY DEF Takes, Fades, Alive

LEMMA TakesFresh ==
  ASSUME NEW p, NEW q, NEW s \in SegIds, Takes(p, q, s), NoneStale(p)
  PROVE  NoneStale(q)
  BY LimitsAssumption DEF Takes, NoneStale

\* register_segment
LEMMA RegisteredGood ==
  ASSUME NEW t, GoodPool(t), generation \in 0..MaxGeneration, generation > 0,
         NEW s \in SegIds, t.segs[s].display # "Retired", NEW r \in 1..MaxRevision,
         NEW o \in {Order(u) : u \in SegIds}, NEW olds
  PROVE  /\ Sch!Registered(t, s, r, o, olds) # {}
         /\ \A e \in Sch!Registered(t, s, r, o, olds) : GoodPool(e) /\ Takes(t, e, s)
  <1> DEFINE fresh == t.segs[s].display = "Absent"
             base == IF fresh THEN Sch!NewSegment ELSE t.segs[s]
             seg == Sch!Revised(base, r, o)
             n == Sch!SetSegment(t, s, seg)
             p == Sch!RetireSegments(n, olds \ {s})
             kind == IF fresh THEN "Initial" ELSE "SourceUpdate"
  <1>1. t.segs[s] \in Sch!Segments /\ t.segs[s].display \in {"Absent", "Waiting", "Visible"}
    <2>1. t.segs[s] \in Sch!Segments
      BY GoodFields
    <2> QED BY <2>1 DEF Sch!Segments, Sch!Displays
  <1>2. /\ base \in Sch!Segments /\ base.display \in Alive
        /\ fresh => base.display = "Waiting" /\ base.age = 0
        /\ ~fresh => base = t.segs[s]
    BY <1>1, NewSegmentType DEF Alive
  <1> HIDE DEF base
  <1>3. /\ seg \in Sch!Segments /\ seg.display = base.display /\ seg.rev = r /\ seg.att = 1
        /\ seg.age = base.age /\ seg.text = base.text
    BY <1>2, RevisedType
  <1> HIDE DEF seg
  <1>4. /\ GoodPool(n) /\ n.segs[s] = seg
        /\ \A u \in SegIds \ {s} : n.segs[u] = t.segs[u]
    BY <1>3, SetGood
  <1> HIDE DEF n
  <1>5. Takes(t, n, s)
    BY <1>1, <1>2, <1>3, <1>4 DEF Takes, Alive
  <1>6. GoodPool(p) /\ Fades(n, p) /\ p.segs[s] = n.segs[s]
    BY <1>4, RetireGood
  <1> HIDE DEF p
  <1>7. kind \in Sch!Kinds
    BY DEF Sch!Kinds
  <1> HIDE DEF kind
  <1>8. p.segs[s].display \in Alive
    BY <1>2, <1>3, <1>4, <1>6
  <1>9. /\ Sch!Enqueue(p, s, kind) # {}
        /\ \A e \in Sch!Enqueue(p, s, kind) : GoodPool(e) /\ Fades(p, e)
    BY <1>6, <1>7, <1>8, EnqueueGood
  <1>10. Sch!Registered(t, s, r, o, olds) = Sch!Enqueue(p, s, kind)
    BY DEF Sch!Registered, p, n, seg, base, kind
  <1>11. \A e : Fades(p, e) => Takes(t, e, s)
    BY <1>5, <1>6, TakesOn
  <1> QED
    BY <1>9, <1>10, <1>11

\* A segment whose record changes, without another job.
LEMMA SameJobGood ==
  ASSUME NEW p, GoodPool(p), NEW s \in SegIds, NEW seg \in Sch!Segments,
         seg.display = p.segs[s].display, seg.age = p.segs[s].age, seg.text = p.segs[s].text,
         seg.rev = p.segs[s].rev, seg.att = p.segs[s].att
  PROVE  GoodPool(Sch!SetSegment(p, s, seg)) /\ Stays(p, Sch!SetSegment(p, s, seg))
  <1>1. seg.display \in Alive =>
            generation > 0 /\ seg.rev \in 1..MaxRevision /\ seg.att \in {1, 2}
    BY GoodFields
  <1>2. /\ GoodPool(Sch!SetSegment(p, s, seg))
        /\ Sch!SetSegment(p, s, seg).segs[s] = seg
        /\ \A t \in SegIds \ {s} : Sch!SetSegment(p, s, seg).segs[t] = p.segs[t]
    BY <1>1, SetGood
  <1> QED
    BY <1>2 DEF Stays

Deadlines == Nat \cup {Sch!NoDeadline}

\* request_quality_retry
LEMMA RequestedGood ==
  ASSUME NEW t, GoodPool(t), generation \in 0..MaxGeneration,
         NEW s \in SegIds, t.segs[s].display \in Alive, NEW page \in {0, 1}, NEW left \in Deadlines
  PROVE  /\ Sch!Requested(t, s, page, left) # {}
         /\ \A e \in Sch!Requested(t, s, page, left) : GoodPool(e) /\ Fades(t, e)
  <1> DEFINE old == t.segs[s]
             seg == [old EXCEPT !.page = IF page # 0 THEN page ELSE @,
                                !.left = IF left # Sch!NoDeadline THEN left ELSE @]
             again == [Sch!Spent(seg) EXCEPT !.att = 2]
             n == Sch!SetSegment(t, s, again)
  <1>1. old \in Sch!Segments /\ generation > 0 /\ old.rev \in 1..MaxRevision /\ old.att \in {1, 2}
    BY GoodFields
  <1> HIDE DEF old
  <1>2. /\ seg \in Sch!Segments /\ seg.display = old.display /\ seg.age = old.age
        /\ seg.text = old.text /\ seg.rev = old.rev /\ seg.att = old.att
    BY <1>1 DEF Sch!Segments, Deadlines
  <1> HIDE DEF seg
  <1>3. /\ again \in Sch!Segments /\ again.display = old.display /\ again.age = old.age
        /\ again.text = old.text /\ again.rev = old.rev /\ again.att = 2
    BY <1>2, SpentType DEF Sch!Segments
  <1> HIDE DEF again
  <1>4. GoodPool(Sch!SetSegment(t, s, Sch!Spent(old))) /\ Stays(t, Sch!SetSegment(t, s, Sch!Spent(old)))
    BY <1>1, SpentType, SameJobGood DEF old
  <1>5. GoodPool(Sch!SetSegment(t, s, Sch!Spent(seg))) /\ Stays(t, Sch!SetSegment(t, s, Sch!Spent(seg)))
    BY <1>1, <1>2, SpentType, SameJobGood DEF old
  <1>6. /\ GoodPool(n) /\ n.segs[s] = again
        /\ \A u \in SegIds \ {s} : n.segs[u] = t.segs[u]
    BY <1>1, <1>3, SetGood
  <1> HIDE DEF n
  <1>7. Stays(t, n) /\ n.segs[s].display \in Alive
    BY <1>3, <1>6 DEF Stays, old
  <1>8. "QualityRetry" \in Sch!Kinds
    BY DEF Sch!Kinds
  <1>9. /\ Sch!Enqueue(n, s, "QualityRetry") # {}
        /\ \A e \in Sch!Enqueue(n, s, "QualityRetry") : GoodPool(e) /\ Fades(n, e)
    BY <1>6, <1>7, <1>8, EnqueueGood
  <1>10. \A e : Fades(n, e) => Fades(t, e)
    BY <1>7, StaysFades, FadesOn
  <1>11. Sch!Requested(t, s, page, left) \in
            {{Sch!SetSegment(t, s, Sch!Spent(old))}, {Sch!SetSegment(t, s, Sch!Spent(seg))},
             Sch!Enqueue(n, s, "QualityRetry")}
    BY DEF Sch!Requested, n, again, seg, old
  <1> QED
    BY <1>4, <1>5, <1>9, <1>10, <1>11, StaysFades

\* note_display_page
LEMMA NotedGood ==
  ASSUME NEW p, GoodPool(p), NEW s \in SegIds, NEW page \in {0, 1}, NEW left \in Deadlines
  PROVE  GoodPool(Sch!Noted(p, s, page, left)) /\ Stays(p, Sch!Noted(p, s, page, left))
  <1> DEFINE seg == p.segs[s]
             reserved == seg.consumed /\ seg.att = 2
             newPage == IF reserved THEN seg.page ELSE page
             newLeft == IF reserved THEN Sch!Earlier(seg.left, left)
                        ELSE IF left # Sch!NoDeadline THEN left ELSE seg.left
             noted == [seg EXCEPT !.page = newPage, !.left = newLeft]
             n == Sch!SetSegment(p, s, noted)
  <1>1. seg \in Sch!Segments
    BY GoodFields
  <1>2. newPage \in {1, 2} \cup {0} /\ newLeft \in Deadlines
    BY <1>1 DEF Sch!Segments, Sch!Earlier, Deadlines
  <1> HIDE DEF newPage, newLeft, seg
  <1>3. /\ noted \in Sch!Segments /\ noted.display = seg.display /\ noted.age = seg.age
        /\ noted.text = seg.text /\ noted.rev = seg.rev /\ noted.att = seg.att
    BY <1>1, <1>2 DEF Sch!Segments, Deadlines
  <1> HIDE DEF noted
  <1>4. GoodPool(n) /\ Stays(p, n)
    BY <1>3, SameJobGood DEF seg
  <1> HIDE DEF n
  <1>5. GoodPool(Sch!ExpireRetries(n)) /\ Stays(p, Sch!ExpireRetries(n))
    BY <1>4, ExpireRetriesGood DEF Stays
  <1>6. \A J : GoodPool(Sch!DropRetries(p, J)) /\ Stays(p, Sch!DropRetries(p, J))
    BY DropGood
  <1>7. \/ Sch!Noted(p, s, page, left) = Sch!ExpireRetries(n)
        \/ \E J : Sch!Noted(p, s, page, left) = Sch!DropRetries(p, J)
    BY DEF Sch!Noted, n, noted, newPage, newLeft, seg
  <1> QED
    BY <1>5, <1>6, <1>7

\* mark_visible
LEMMA MarkedVisibleGood ==
  ASSUME NEW t, GoodPool(t), NEW s \in SegIds, t.segs[s].display \in Alive
  PROVE  LET q == Sch!MarkedVisible(t, s) IN
         /\ GoodPool(q) /\ q.segs[s].display = "Visible" /\ q.segs[s].text = t.segs[s].text
         /\ \A u \in SegIds \ {s} : q.segs[u] = t.segs[u]
  <1> DEFINE seg == [t.segs[s] EXCEPT !.display = "Visible"]
  <1>1. /\ t.segs[s] \in Sch!Segments /\ generation > 0
        /\ t.segs[s].rev \in 1..MaxRevision /\ t.segs[s].att \in {1, 2}
    BY GoodFields
  <1>2. "Visible" \in Sch!Displays
    BY DEF Sch!Displays
  <1>3. /\ seg \in Sch!Segments /\ seg.display = "Visible" /\ seg.text = t.segs[s].text
        /\ seg.rev = t.segs[s].rev /\ seg.att = t.segs[s].att
    BY <1>1, <1>2 DEF Sch!Segments
  <1>4. Sch!MarkedVisible(t, s) = Sch!SetSegment(t, s, seg)
    BY DEF Sch!MarkedVisible
  <1> HIDE DEF seg
  <1> QED
    BY <1>1, <1>3, <1>4, SetGood

\* complete, of an answer that is taken.
LEMMA AnsweredGood ==
  ASSUME NEW p, GoodPool(p), NEW id \in Sch!JobIds, p.segs[id.seg].display \in Alive,
         NEW ok \in BOOLEAN
  PROVE  LET q == Sch!Answered(p, id, ok) IN
         /\ GoodPool(q)
         /\ \A u \in SegIds \ {id.seg} : q.segs[u] = p.segs[u]
         /\ ok => /\ q.segs[id.seg].display = p.segs[id.seg].display
                  /\ q.segs[id.seg].age = p.segs[id.seg].age
                  /\ q.segs[id.seg].text # Sch!NoText
         /\ ~ok => Fades(p, q)
  <1> DEFINE s == id.seg
             seg == p.segs[s]
             done == [seg EXCEPT !.processed = TRUE]
             shown == [seg EXCEPT !.processed = TRUE, !.text = [rev |-> id.rev, att |-> id.att]]
             d == Sch!SetSegment(p, s, done)
             n == Sch!SetSegment(p, s, shown)
             q == Sch!Answered(p, id, ok)
  <1>1. s \in SegIds /\ id.rev \in 1..MaxRevision /\ id.att \in {1, 2}
    BY DEF Sch!JobIds
  <1> HIDE DEF s
  <1>2. /\ seg \in Sch!Segments /\ generation > 0
        /\ seg.rev \in 1..MaxRevision /\ seg.att \in {1, 2}
    BY <1>1, GoodFields DEF s
  <1> HIDE DEF seg
  <1>3. [rev |-> id.rev, att |-> id.att] # Sch!NoText
    <2>1. [rev |-> id.rev, att |-> id.att].rev # Sch!NoText.rev
      BY <1>1 DEF Sch!NoText
    <2> QED BY <2>1
  <1>4. /\ shown \in Sch!Segments /\ shown.display = seg.display /\ shown.age = seg.age
        /\ shown.text = [rev |-> id.rev, att |-> id.att] /\ shown.rev = seg.rev /\ shown.att = seg.att
    BY <1>1, <1>2 DEF Sch!Segments
  <1>5. /\ done \in Sch!Segments /\ done.display = seg.display /\ done.age = seg.age
        /\ done.text = seg.text /\ done.rev = seg.rev /\ done.att = seg.att
    BY <1>1, <1>2 DEF Sch!Segments
  <1>6. q = IF ok THEN n ELSE IF seg.text = Sch!NoText THEN Sch!RetireSegments(d, {s}) ELSE d
    BY DEF Sch!Answered, s, seg
  <1> HIDE DEF shown, done, q
  <1>7. /\ GoodPool(n) /\ n.segs[s] = shown
        /\ \A u \in SegIds \ {s} : n.segs[u] = p.segs[u]
    BY <1>1, <1>2, <1>4, SetGood
  <1>8. /\ GoodPool(d) /\ Stays(p, d)
        /\ \A u \in SegIds \ {s} : d.segs[u] = p.segs[u]
    BY <1>1, <1>2, <1>5, SetGood, SameJobGood DEF seg
  <1> HIDE DEF n, d
  <1>9. /\ GoodPool(Sch!RetireSegments(d, {s})) /\ Fades(d, Sch!RetireSegments(d, {s}))
        /\ \A u \in SegIds \ {s} : Sch!RetireSegments(d, {s}).segs[u] = d.segs[u]
    BY <1>8, RetireGood
  <1>10. ~ok => Fades(p, q)
    BY <1>6, <1>8, <1>9, StaysFades, FadesOn
  <1>11. GoodPool(q) /\ \A u \in SegIds \ {s} : q.segs[u] = p.segs[u]
    BY <1>6, <1>7, <1>8, <1>9
  <1>12. ok => /\ q.segs[s].display = seg.display /\ q.segs[s].age = seg.age
               /\ q.segs[s].text # Sch!NoText
    BY <1>3, <1>4, <1>6, <1>7
  <1> QED
    BY <1>10, <1>11, <1>12 DEF q, s, seg

\* set_quality_judgement
LEMMA JudgedType ==
  ASSUME NEW seg \in Sch!Segments, NEW suspected \in BOOLEAN, NEW eligible \in BOOLEAN
  PROVE  LET n == Sch!Judged(seg, suspected, eligible) IN
         /\ n \in Sch!Segments /\ n.display = seg.display /\ n.age = seg.age
         /\ n.text = seg.text /\ n.rev = seg.rev /\ n.att = seg.att
  BY DEF Sch!Judged, Sch!Segments

\* set_quality_retry, to off.
LEMMA WithoutRetriesGood ==
  ASSUME NEW t, GoodPool(t)
  PROVE  GoodPool(Sch!WithoutRetries(t)) /\ Stays(t, Sch!WithoutRetries(t))
  <1> DEFINE off == [s \in SegIds |->
                      [t.segs[s] EXCEPT !.consumed = @ \/ t.segs[s].suspected \/ t.segs[s].pending,
                                        !.pending = FALSE]]
             n == Sch!PoolOf(off, t.queue, t.cancelled)
             dropped == Sch!DropRetries(n, Sch!Retries(t.queue))
             ids == {id \in running : Sch!IsRetryId(id)}
  <1>1. Sch!WithoutRetries(t) = Sch!CancelIds(dropped, ids)
    BY DEF Sch!WithoutRetries
  <1>2. \A s \in SegIds : /\ off[s] \in Sch!Segments /\ off[s].display = t.segs[s].display
                          /\ off[s].age = t.segs[s].age /\ off[s].text = t.segs[s].text
                          /\ off[s].rev = t.segs[s].rev /\ off[s].att = t.segs[s].att
    <2> SUFFICES ASSUME NEW s \in SegIds
                 PROVE  LET m == [t.segs[s] EXCEPT
                                    !.consumed = @ \/ t.segs[s].suspected \/ t.segs[s].pending,
                                    !.pending = FALSE] IN
                        /\ m \in Sch!Segments /\ m.display = t.segs[s].display
                        /\ m.age = t.segs[s].age /\ m.text = t.segs[s].text
                        /\ m.rev = t.segs[s].rev /\ m.att = t.segs[s].att
      OBVIOUS
    <2>1. t.segs[s] \in Sch!Segments
      BY GoodFields
    <2> QED BY <2>1 DEF Sch!Segments
  <1>3. off \in [SegIds -> Sch!Segments]
    BY <1>2
  <1> HIDE DEF off
  <1>4. GoodPool(n)
    <2>1. \A s \in SegIds : off[s].display \in Alive =>
            generation > 0 /\ off[s].rev \in 1..MaxRevision /\ off[s].att \in {1, 2}
      BY <1>2, GoodFields
    <2> QED BY <1>3, <2>1, GoodFields, GoodParts
  <1>5. Stays(t, n)
    BY <1>2, PoolFields DEF Stays
  <1> HIDE DEF n
  <1>6. GoodPool(dropped) /\ Stays(n, dropped)
    BY <1>4, DropGood
  <1> HIDE DEF dropped
  <1>7. GoodPool(Sch!CancelIds(dropped, ids)) /\ Stays(dropped, Sch!CancelIds(dropped, ids))
    BY <1>6, CancelGood
  <1> QED
    BY <1>1, <1>5, <1>6, <1>7 DEF Stays

LEMMA AgedPoolGood ==
  ASSUME NEW p, GoodPool(p)
  PROVE  LET A == Sch!Aged(p) IN
         /\ GoodPool([p EXCEPT !.segs = A])
         /\ \A s \in SegIds : A[s].display = p.segs[s].display /\ A[s].text = p.segs[s].text
  <1> DEFINE A == Sch!Aged(p)
  <1>1. ASSUME NEW s \in SegIds
        PROVE  /\ A[s] \in Sch!Segments
               /\ A[s].display = p.segs[s].display /\ A[s].text = p.segs[s].text
               /\ A[s].rev = p.segs[s].rev /\ A[s].att = p.segs[s].att
    <2> DEFINE older == IF p.segs[s].age < StaleAge THEN p.segs[s].age + 1 ELSE p.segs[s].age
               less == IF p.segs[s].left > 0 THEN p.segs[s].left - 1 ELSE p.segs[s].left
    <2>1. p.segs[s] \in Sch!Segments
      BY GoodFields
    <2>2. older \in 0..StaleAge /\ less \in Nat \cup {Sch!NoDeadline}
      BY <2>1, LimitsAssumption DEF Sch!Segments, Sch!NoDeadline
    <2>3. A[s] = IF s \notin Sch!Live(p) THEN p.segs[s]
                 ELSE [p.segs[s] EXCEPT !.age = older, !.left = less]
      BY DEF Sch!Aged
    <2> HIDE DEF older, less, A
    <2> QED BY <2>1, <2>2, <2>3 DEF Sch!Segments
  <1>2. A \in [SegIds -> Sch!Segments]
    BY <1>1 DEF Sch!Aged
  <1> HIDE DEF A
  <1>3. GoodPool(Sch!PoolOf(A, p.queue, p.cancelled))
    <2>1. \A s \in SegIds : A[s].display \in Alive =>
            generation > 0 /\ A[s].rev \in 1..MaxRevision /\ A[s].att \in {1, 2}
      BY <1>1, GoodFields
    <2> QED BY <1>2, <2>1, GoodFields, GoodParts
  <1>4. [p EXCEPT !.segs = A] = Sch!PoolOf(A, p.queue, p.cancelled)
    BY DEF GoodPool, Pools, Sch!PoolOf
  <1> QED
    BY <1>1, <1>3, <1>4 DEF A

-----------------------------------------------------------------------------
(* The composer's part: what CaptionComposerSteps proves of a display holds of the *)
(* pipeline's.  The operations are the same; the two instances only name them twice. *)

Cap == INSTANCE CaptionComposerSteps WITH
    segs <- display.segs, slot <- display.slot, window <- display.window,
    config <- display.config, pending <- [hold |-> 0, layout |-> 0], highWater <- used

LEMMA SameCardinality ==
  ASSUME NEW S
  PROVE  /\ Com!Cardinality(S) = Cardinality(S) /\ Cap!Cardinality(S) = Cardinality(S)
         /\ Cap!IsFiniteSet(S) <=> IsFiniteSet(S)
  BY DEF Com!Cardinality, Cap!Cardinality, Cardinality, Cap!IsFiniteSet, IsFiniteSet

LEMMA CapAssumptions == Cap!IdsAssumption /\ Cap!LimitsAssumption
  BY SameCardinality, IdsAreFinite, PipelineAssumption, LimitsAssumption
     DEF Cap!IdsAssumption, Cap!LimitsAssumption

LEMMA SameRetireSegments ==
  ASSUME NEW d, NEW S, NEW reason
  PROVE  Com!RetireSegments(d, S, reason) = Cap!RetireSegments(d, S, reason)
  BY DEF Com!RetireSegments, Cap!RetireSegments, Com!Lives, Cap!Lives, Com!Tombstone,
         Cap!Tombstone, Com!NoJob, Cap!NoJob, Com!Keeps, Cap!Keeps

LEMMA SameClearSlot ==
  ASSUME NEW d, NEW preserve
  PROVE  Com!ClearSlot(d, preserve) = Cap!ClearSlot(d, preserve)
  BY SameRetireSegments DEF Com!ClearSlot, Cap!ClearSlot, Com!Anchored, Cap!Anchored,
         Com!NoSlot, Cap!NoSlot

LEMMA SameExpire ==
  ASSUME NEW d
  PROVE  Com!Expire(d) = Cap!Expire(d)
  BY SameRetireSegments, SameClearSlot DEF Com!Expire, Cap!Expire, Com!Fresh, Cap!Fresh,
         Com!Stale, Cap!Stale, Com!Waiting, Cap!Waiting, Com!With, Cap!With,
         Com!Expired, Cap!Expired, Com!MorePages, Cap!MorePages, Com!PageRead,
         Cap!PageRead, Com!PageMinimum, Cap!PageMinimum, Com!Smaller, Cap!Smaller,
         Com!HoldOver, Cap!HoldOver

LEMMA SameExpecting ==
  ASSUME NEW d, NEW s, NEW job
  PROVE  Com!Expecting(d, s, job) = Cap!Expecting(d, s, job)
  BY DEF Com!Expecting, Cap!Expecting, Com!Live, Cap!Live, Com!Lives, Cap!Lives

LEMMA SameConfirmed ==
  ASSUME NEW d
  PROVE  Com!Confirmed(d) = Cap!Confirmed(d)
  BY DEF Com!Confirmed, Cap!Confirmed

LEMMA SameConfirmedIf ==
  ASSUME NEW d, NEW s
  PROVE  Com!ConfirmedIf(d, s) = Cap!ConfirmedIf(d, s)
  BY SameConfirmed DEF Com!ConfirmedIf, Cap!ConfirmedIf

LEMMA SameUpdate ==
  ASSUME NEW d, NEW updated, NEW revs, NEW final
  PROVE  Com!Update(d, updated, revs, final) = Cap!Update(d, updated, revs, final)
  BY SameConfirmed DEF Com!Update, Cap!Update, Com!Finalized, Cap!Finalized,
         Com!Revised, Cap!Revised, Com!FirstJob, Cap!FirstJob

LEMMA SameAnchorFor ==
  ASSUME NEW d, NEW olds
  PROVE  Com!AnchorFor(d, olds) = Cap!AnchorFor(d, olds)
  BY DEF Com!AnchorFor, Cap!AnchorFor

LEMMA SameOrderFor ==
  ASSUME NEW d, NEW s, NEW fresh, NEW olds
  PROVE  Com!OrderFor(d, s, fresh, olds) = Cap!OrderFor(d, s, fresh, olds)
  BY DEF Com!OrderFor, Cap!OrderFor, Com!With, Cap!With

LEMMA SameNewSegment ==
  ASSUME NEW d, NEW s, NEW rev, NEW fresh, NEW olds, NEW final
  PROVE  Com!NewSegment(d, s, rev, fresh, olds, final) = Cap!NewSegment(d, s, rev, fresh, olds, final)
  BY SameAnchorFor, SameOrderFor DEF Com!NewSegment, Cap!NewSegment, Com!Absent,
         Cap!Absent, Com!NoJob, Cap!NoJob, Com!FirstJob, Cap!FirstJob

LEMMA SameReplace ==
  ASSUME NEW d, NEW fresh, NEW olds, NEW revs, NEW final
  PROVE  Com!Replace(d, fresh, olds, revs, final) = Cap!Replace(d, fresh, olds, revs, final)
  BY SameConfirmed, SameRetireSegments, SameNewSegment DEF Com!Replace, Cap!Replace,
         Com!Replaceable, Cap!Replaceable, Com!Live, Cap!Live, Com!Lives, Cap!Lives,
         Com!Anchored, Cap!Anchored

LEMMA SameEnforceWaiting ==
  ASSUME NEW d
  PROVE  Com!EnforceWaiting(d) = Cap!EnforceWaiting(d)
  BY SameRetireSegments, SameCardinality DEF Com!EnforceWaiting, Cap!EnforceWaiting,
         Com!Waiting, Cap!Waiting, Com!With, Cap!With, Com!Younger, Cap!Younger,
         Com!Precedes, Cap!Precedes

LEMMA SameRefused ==
  ASSUME NEW d, NEW fresh, NEW updated
  PROVE  Com!Refused(d, fresh, updated) <=> Cap!Refused(d, fresh, updated)
  BY DEF Com!Refused, Cap!Refused, Com!Live, Cap!Live, Com!Lives, Cap!Lives

LEMMA SameFull ==
  ASSUME NEW d, NEW fresh
  PROVE  Com!Full(d, fresh) <=> Cap!Full(d, fresh)
  BY SameCardinality DEF Com!Full, Cap!Full, Com!Managed, Cap!Managed, Com!With,
         Cap!With

LEMMA SameRegistered ==
  ASSUME NEW d, NEW fresh, NEW olds, NEW updated, NEW revs, NEW final
  PROVE  Com!Registered(d, fresh, olds, updated, revs, final) = Cap!Registered(d, fresh, olds, updated, revs, final)
  BY SameRefused, SameFull, SameUpdate, SameReplace, SameEnforceWaiting DEF
         Com!Registered, Cap!Registered

LEMMA SameUsedUp ==
  ASSUME NEW d, NEW fresh, NEW updated
  PROVE  Com!UsedUp(d, fresh, updated) = Cap!UsedUp(d, fresh, updated)
  BY SameRefused DEF Com!UsedUp, Cap!UsedUp

LEMMA SameReplaceChunk ==
  ASSUME NEW w, NEW old, NEW new
  PROVE  Com!ReplaceChunk(w, old, new) = Cap!ReplaceChunk(w, old, new)
  BY DEF Com!ReplaceChunk, Cap!ReplaceChunk, Com!Trim, Cap!Trim

LEMMA SameRealigned ==
  ASSUME NEW seg, NEW index, NEW pages, NEW aligned
  PROVE  Com!Realigned(seg, index, pages, aligned) = Cap!Realigned(seg, index, pages, aligned)
  BY DEF Com!Realigned, Cap!Realigned

LEMMA SameUpdateVisible ==
  ASSUME NEW d, NEW s, NEW pages, NEW aligned
  PROVE  Com!UpdateVisible(d, s, pages, aligned) = Cap!UpdateVisible(d, s, pages, aligned)
  BY SameReplaceChunk, SameRealigned DEF Com!UpdateVisible, Cap!UpdateVisible,
         Com!Restarted, Cap!Restarted

LEMMA SameTaken ==
  ASSUME NEW d, NEW s, NEW job, NEW pages, NEW aligned
  PROVE  Com!Taken(d, s, job, pages, aligned) = Cap!Taken(d, s, job, pages, aligned)
  BY SameRetireSegments, SameUpdateVisible DEF Com!Taken, Cap!Taken, Com!HoldOver,
         Cap!HoldOver, Com!Shows, Cap!Shows

LEMMA SameAnswered ==
  ASSUME NEW d, NEW s, NEW job, NEW pages, NEW aligned
  PROVE  Com!Answered(d, s, job, pages, aligned) = Cap!Answered(d, s, job, pages, aligned)
  BY SameTaken DEF Com!Answered, Cap!Answered, Com!Live, Cap!Live, Com!Lives, Cap!Lives,
         Com!Accepts, Cap!Accepts

LEMMA SameFirstOf ==
  ASSUME NEW d, NEW S
  PROVE  Com!FirstOf(d, S) = Cap!FirstOf(d, S)
  BY DEF Com!FirstOf, Cap!FirstOf, Com!Precedes, Cap!Precedes

LEMMA SameOwner ==
  ASSUME NEW d, NEW s, NEW final, NEW life
  PROVE  Com!Owner(d, s, final, life) = Cap!Owner(d, s, final, life)
  BY DEF Com!Owner, Cap!Owner, Com!NoSlot, Cap!NoSlot

LEMMA SameEnter ==
  ASSUME NEW d, NEW s
  PROVE  Com!Enter(d, s) = Cap!Enter(d, s)
  BY SameOwner DEF Com!Enter, Cap!Enter, Com!DisplayOf, Cap!DisplayOf, Com!Trim,
         Cap!Trim

LEMMA SameUnanchored ==
  ASSUME NEW S, NEW k
  PROVE  Com!Unanchored(S, k) = Cap!Unanchored(S, k)
  BY DEF Com!Unanchored, Cap!Unanchored

LEMMA SameInherit ==
  ASSUME NEW d, NEW s, NEW aligned
  PROVE  Com!Inherit(d, s, aligned) = Cap!Inherit(d, s, aligned)
  BY SameUnanchored, SameReplaceChunk, SameOwner DEF Com!Inherit, Cap!Inherit,
         Com!DisplayOf, Cap!DisplayOf, Com!Realigned, Cap!Realigned

LEMMA SameNextWaiting ==
  ASSUME NEW d
  PROVE  Com!NextWaiting(d) = Cap!NextWaiting(d)
  BY SameFirstOf DEF Com!NextWaiting, Cap!NextWaiting, Com!Waiting, Cap!Waiting,
         Com!With, Cap!With

LEMMA SameEnterNext ==
  ASSUME NEW d
  PROVE  Com!EnterNext(d) = Cap!EnterNext(d)
  BY SameNextWaiting, SameEnter DEF Com!EnterNext, Cap!EnterNext, Com!Ready, Cap!Ready

LEMMA SameReplacementHead ==
  ASSUME NEW d
  PROVE  Com!ReplacementHead(d) = Cap!ReplacementHead(d)
  BY SameFirstOf DEF Com!ReplacementHead, Cap!ReplacementHead, Com!Waiting, Cap!Waiting,
         Com!With, Cap!With, Com!Anchored, Cap!Anchored

LEMMA SameNextPage ==
  ASSUME NEW d, NEW s
  PROVE  Com!NextPage(d, s) = Cap!NextPage(d, s)
  BY SameEnter DEF Com!NextPage, Cap!NextPage

LEMMA SameRendered ==
  ASSUME NEW d, NEW aligned
  PROVE  Com!Rendered(d, aligned) = Cap!Rendered(d, aligned)
  BY SameInherit, SameNextPage, SameEnterNext, SameClearSlot, SameReplacementHead,
         SameNextWaiting DEF Com!Rendered, Cap!Rendered, Com!ReplacementReady,
         Cap!ReplacementReady, Com!Ready, Cap!Ready, Com!Undisturbed, Cap!Undisturbed,
         Com!PageRead, Cap!PageRead, Com!PageMinimum, Cap!PageMinimum, Com!Smaller,
         Cap!Smaller, Com!TurnsPage, Cap!TurnsPage, Com!MorePages, Cap!MorePages,
         Com!Follows, Cap!Follows

LEMMA SameReconfigured ==
  ASSUME NEW d, NEW c, NEW pages
  PROVE  Com!Reconfigured(d, c, pages) = Cap!Reconfigured(d, c, pages)
  BY SameReplaceChunk DEF Com!Reconfigured, Cap!Reconfigured, Com!DisplayOf,
         Cap!DisplayOf, Com!Rewrapped, Cap!Rewrapped, Com!Smaller, Cap!Smaller

LEMMA SameApplyConfig ==
  ASSUME NEW d, NEW c, NEW pages
  PROVE  Com!ApplyConfig(d, c, pages) = Cap!ApplyConfig(d, c, pages)
  BY SameReconfigured, SameExpire DEF Com!ApplyConfig, Cap!ApplyConfig

LEMMA SameAged ==
  ASSUME NEW d
  PROVE  Com!Aged(d) = Cap!Aged(d)
  BY DEF Com!Aged, Cap!Aged, Com!Smaller, Cap!Smaller, Com!Older, Cap!Older,
         Com!MaxHold, Cap!MaxHold
=============================================================================
