------------------------ MODULE CaptionPipelineProofs ------------------------
(* Proofs about CaptionPipeline for every value of its constants.               *)
EXTENDS CaptionPipelineParts

-----------------------------------------------------------------------------
(* The inductive invariant, in the middle of a call. *)

Frames == [key : SegIds \cup {0}, job : Cap!Jobs, index : 0..MaxPages, stale : BOOLEAN]
Heards == [state : {"Out", "In", "Gone"}, rev : 0..MaxRevision, olds : SUBSET SegIds]
Speeches == [segs : [SegIds -> Heards], mine : SUBSET SegIds, closed : BOOLEAN, stopped : BOOLEAN]
States == {"None", "Waiting", "Visible", "Retired", "Completed"}
Boxes == [segs : [SegIds -> Cap!PagedSegments], slot : Cap!Slots, window : Seq(SegIds),
          config : Configs]

Calls == [pool : Pools, display : Boxes, published : Frames, speech : Speeches,
          logical : [SegIds -> States], asked : [SegIds -> 0..MaxPages]]

\* What the three know of the segment s.  A segment outside X is shown by all of them or
\* by none.  Outside U, what the composer has alive the other two have too.  In W are
\* those the scheduler may still be told of: it either knows them or they are new in the
\* composer.  The segmenter holds segments of A only.
Linked(x, s, A, X, U, W) ==
    LET p == x.pool.segs[s]
        d == x.display.segs[s]
        l == x.logical[s]
        h == x.speech.segs[s]
    IN /\ p.display \in Alive => l \in Alive
       /\ l \in Alive => d.display \in Alive
       /\ l = "None" <=> d.display = "Absent"
       /\ p.display # "Absent" => d.display # "Absent"
       /\ p.display \in Alive /\ d.left > 0 => p.text # Sch!NoText
       /\ s \notin X => /\ p.display \in Alive => p.display = d.display
                        /\ l \in Alive => l = d.display
       /\ s \notin U => (d.display \in Alive => p.display \in Alive)
       /\ s \in W => /\ h.state # "Out"
                     /\ p.display = "Absent" /\ d.display \in Alive =>
                           d.display = "Waiting" /\ l = "Waiting" /\ d.left = 0
       /\ h.state # "Out" => s \in A /\ h.rev \in 1..MaxRevision

Sound(x, A, X, U, W) ==
    /\ x \in Calls /\ GoodPool(x.pool) /\ Cap!Consistent(x.display)
    /\ \A s \in SegIds : Linked(x, s, A, X, U, W)

\* The scheduler gets no segment, and no age or text of it changes.
Lessens(p, q) ==
    \A s \in SegIds :
        /\ q.segs[s].display \in Alive =>
              p.segs[s].display \in Alive /\ q.segs[s].text = p.segs[s].text
        /\ q.segs[s].display = "Waiting" =>
              p.segs[s].display = "Waiting" /\ q.segs[s].age = p.segs[s].age

LEMMA LessensOn ==
  ASSUME NEW p, NEW q, NEW r, Lessens(p, q), Lessens(q, r)
  PROVE  Lessens(p, r)
  BY DEF Lessens

LEMMA FadesLessens ==
  ASSUME NEW p, NEW q, Fades(p, q)
  PROVE  Lessens(p, q)
  BY DEF Fades, Lessens, Alive

LEMMA LessensFresh ==
  ASSUME NEW p, NEW q, Lessens(p, q), NoneStale(p)
  PROVE  NoneStale(q)
  BY DEF Lessens, NoneStale

\* The first conjunct of Sound, after an assignment.
LEMMA CallFields ==
  ASSUME NEW x \in Calls
  PROVE  /\ x.pool \in Pools /\ x.display \in Boxes /\ x.published \in Frames
         /\ x.speech \in Speeches /\ x.logical \in [SegIds -> States]
         /\ x.asked \in [SegIds -> 0..MaxPages]
  BY DEF Calls

LEMMA PoolSet ==
  ASSUME NEW x \in Calls, NEW p \in Pools
  PROVE  LET y == [x EXCEPT !.pool = p] IN
         /\ y \in Calls /\ y.pool = p /\ y.display = x.display /\ y.speech = x.speech
         /\ y.logical = x.logical /\ y.published = x.published /\ y.asked = x.asked
  BY DEF Calls

LEMMA DisplaySet ==
  ASSUME NEW x \in Calls, NEW d \in Boxes
  PROVE  LET y == [x EXCEPT !.display = d] IN
         /\ y \in Calls /\ y.pool = x.pool /\ y.display = d /\ y.speech = x.speech
         /\ y.logical = x.logical /\ y.published = x.published /\ y.asked = x.asked
  BY DEF Calls

\* record_retire
LEMMA RecordedFacts ==
  ASSUME NEW x \in Calls, NEW S, NEW completed
  PROVE  LET y == Recorded(x, S, completed) IN
         /\ y \in Calls /\ y.pool = x.pool /\ y.display = x.display
         /\ y.published = x.published /\ y.asked = x.asked
         /\ y.speech.closed = x.speech.closed /\ y.speech.stopped = x.speech.stopped
         /\ y.speech.mine = x.speech.mine
         /\ \A s \in SegIds :
               /\ y.speech.segs[s].rev = x.speech.segs[s].rev
               /\ y.speech.segs[s].state = "Out" <=> x.speech.segs[s].state = "Out"
               /\ IF s \in S /\ x.logical[s] \in Alive
                  THEN y.logical[s] \in {"Retired", "Completed"}
                  ELSE y.logical[s] = x.logical[s]
  <1> DEFINE H == [s \in SegIds |->
                     IF s \in S /\ x.speech.segs[s].state = "In"
                     THEN [x.speech.segs[s] EXCEPT !.state = "Gone"] ELSE x.speech.segs[s]]
             L == [s \in SegIds |->
                     IF s \in S /\ x.logical[s] \in {"Waiting", "Visible"}
                     THEN (IF s \in completed THEN "Completed" ELSE "Retired") ELSE x.logical[s]]
             sp == [x.speech EXCEPT !.segs = H]
             y == Recorded(x, S, completed)
  <1>0. /\ x.speech \in Speeches /\ x.speech.segs \in [SegIds -> Heards]
        /\ x.logical \in [SegIds -> States]
    BY DEF Calls, Speeches
  <1>1. y = [x EXCEPT !.speech = sp, !.logical = L]
    BY <1>0 DEF Recorded, Calls, Speeches
  <1>2. ASSUME NEW s \in SegIds
        PROVE  /\ H[s] \in Heards /\ H[s].rev = x.speech.segs[s].rev
               /\ H[s].state = "Out" <=> x.speech.segs[s].state = "Out"
    BY <1>0 DEF Heards
  <1>3. H \in [SegIds -> Heards]
    BY <1>2
  <1>4. /\ L \in [SegIds -> States]
        /\ \A s \in SegIds : IF s \in S /\ x.logical[s] \in Alive
                             THEN L[s] \in {"Retired", "Completed"} ELSE L[s] = x.logical[s]
    BY <1>0 DEF States, Alive
  <1> HIDE DEF H, L
  <1>5. /\ sp \in Speeches /\ sp.segs = H /\ sp.mine = x.speech.mine
        /\ sp.closed = x.speech.closed /\ sp.stopped = x.speech.stopped
    BY <1>0, <1>3 DEF Speeches
  <1> HIDE DEF sp, y
  <1>6. /\ y \in Calls /\ y.pool = x.pool /\ y.display = x.display
        /\ y.published = x.published /\ y.asked = x.asked /\ y.speech = sp /\ y.logical = L
    BY <1>1, <1>4, <1>5 DEF Calls
  <1> QED
    BY <1>2, <1>4, <1>5, <1>6 DEF y

-----------------------------------------------------------------------------
(* What one of the three decides, carried to the other two. *)

\* From d to e segments are retired, those of K may enter, those of T get pages.
Moves(d, e, K, T) ==
    \A s \in SegIds :
        \/ d.segs[s].display \in Alive /\ e.segs[s].display = "Retired"
        \/ /\ e.segs[s].display = d.segs[s].display
           /\ e.segs[s].left > 0 => d.segs[s].left > 0 \/ s \in T
        \/ s \in K /\ d.segs[s].display = "Waiting" /\ d.segs[s].left > 0
           /\ e.segs[s].display = "Visible"

LEMMA LivesAlive ==
  ASSUME NEW seg
  PROVE  /\ Cap!Lives(seg) <=> seg.display \in Alive
         /\ Com!Lives(seg) <=> seg.display \in Alive
  BY DEF Cap!Lives, Com!Lives, Alive

LEMMA FadingMoves ==
  ASSUME NEW d, NEW e, Cap!Fading(d, e)
  PROVE  Moves(d, e, {}, {})
  BY LivesAlive DEF Cap!Fading, Moves

LEMMA AnsweringMoves ==
  ASSUME NEW d, NEW e, NEW s, NEW pages \in Nat, Cap!Answering(d, e, s, pages)
  PROVE  Moves(d, e, {}, IF pages = 0 THEN {} ELSE {s})
  BY LivesAlive DEF Cap!Answering, Moves

LEMMA ShowingMoves ==
  ASSUME NEW d, NEW e, Cap!Showing(d, e)
  PROVE  Moves(d, e, {e.slot.key}, {})
  BY LivesAlive DEF Cap!Showing, Moves

LEMMA ConsistentBox ==
  ASSUME NEW d, Cap!Consistent(d)
  PROVE  d \in Boxes
  BY DEF Cap!Consistent, Cap!Typed, Boxes

\* Every segment of the display, and its state.
LEMMA BoxFields ==
  ASSUME NEW d \in Boxes, NEW s \in SegIds
  PROVE  /\ d.segs[s].display \in {"Absent", "Waiting", "Visible", "Retired"}
         /\ d.segs[s].left \in Nat
  BY DEF Boxes, Cap!PagedSegments, Cap!Segments, Cap!Displays

LEMMA PoolDisplay ==
  ASSUME NEW p \in Pools, NEW s \in SegIds
  PROVE  p.segs[s].display \in {"Absent", "Waiting", "Visible", "Retired"}
  BY DEF Pools, Sch!Segments, Sch!Displays

\* What changes in x when the display becomes d, segment by segment.
Carried(x, y, d) ==
    /\ y.display = d /\ y.asked = x.asked
    /\ y.speech.closed = x.speech.closed /\ y.speech.stopped = x.speech.stopped
    /\ y.speech.mine = x.speech.mine
    /\ \A s \in SegIds :
          /\ y.speech.segs[s].rev = x.speech.segs[s].rev
          /\ y.speech.segs[s].state = "Out" <=> x.speech.segs[s].state = "Out"
          /\ IF d.segs[s].display = "Retired" /\ x.display.segs[s].display # "Retired"
             THEN /\ y.pool.segs[s] = IF x.pool.segs[s].display \in Alive
                                      THEN Sch!Tombstone ELSE x.pool.segs[s]
                  /\ IF x.logical[s] \in Alive THEN y.logical[s] \in {"Retired", "Completed"}
                     ELSE y.logical[s] = x.logical[s]
             ELSE y.pool.segs[s] = x.pool.segs[s] /\ y.logical[s] = x.logical[s]

LEMMA BackCarries ==
  ASSUME NEW x \in Calls, GoodPool(x.pool), NEW d \in Boxes
  PROVE  LET y == Back(x, d) IN
         y \in Calls /\ GoodPool(y.pool) /\ Carried(x, y, d)
  <1> DEFINE y == Back(x, d)
             N == Com!With(d, "Retired") \ Com!With(x.display, "Retired")
             b == x.published.stale
                    \/ (d.slot.key = x.display.slot.key /\ d.slot.final # x.display.slot.final)
             z == [x EXCEPT !.published.stale = b]
             c == ReadToTheEnd(z.display, d)
             w == [z EXCEPT !.display = d]
             r == Recorded(w, N, c)
             q == IF N = {} THEN r.pool ELSE Sch!RetireSegments(r.pool, N)
  <1>0. \A s \in SegIds : s \in N <=>
           d.segs[s].display = "Retired" /\ x.display.segs[s].display # "Retired"
    BY DEF Com!With
  <1>1. CASE d = x.display
    <2>1. y = x
      BY <1>1 DEF Back
    <2> QED
      BY <2>1, <1>1 DEF Carried
  <1>2. CASE d # x.display
    <2>1. y = [r EXCEPT !.pool = q]
      BY <1>2 DEF Back, HeardOf
    <2> HIDE DEF c, N
    <2>2. /\ z \in Calls /\ z.pool = x.pool /\ z.display = x.display /\ z.speech = x.speech
          /\ z.logical = x.logical /\ z.asked = x.asked
      <3>1. b \in BOOLEAN
        BY DEF Calls, Frames, Boxes, Cap!Slots
      <3> HIDE DEF b
      <3> QED
        BY <3>1 DEF Calls, Frames
    <2> HIDE DEF z
    <2>3. /\ w \in Calls /\ w.pool = x.pool /\ w.display = d /\ w.speech = x.speech
          /\ w.logical = x.logical /\ w.asked = x.asked
      BY <2>2, DisplaySet
    <2> HIDE DEF w
    <2>4. /\ r \in Calls /\ r.pool = x.pool /\ r.display = d /\ r.asked = x.asked
          /\ r.speech.closed = x.speech.closed /\ r.speech.stopped = x.speech.stopped
          /\ r.speech.mine = x.speech.mine
          /\ \A s \in SegIds :
               /\ r.speech.segs[s].rev = x.speech.segs[s].rev
               /\ r.speech.segs[s].state = "Out" <=> x.speech.segs[s].state = "Out"
               /\ IF s \in N /\ x.logical[s] \in Alive
                  THEN r.logical[s] \in {"Retired", "Completed"}
                  ELSE r.logical[s] = x.logical[s]
      BY <2>3, RecordedFacts
    <2> HIDE DEF r
    <2>5. /\ GoodPool(q)
          /\ \A s \in SegIds : q.segs[s] = IF s \in N /\ x.pool.segs[s].display \in Alive
                                           THEN Sch!Tombstone ELSE x.pool.segs[s]
      <3>1. CASE N = {}
        BY <3>1, <2>4
      <3>2. CASE N # {}
        BY <3>2, <2>4, RetireGood
      <3> QED
        BY <3>1, <3>2
    <2> HIDE DEF q
    <2>6. /\ y \in Calls /\ y.pool = q /\ y.display = d /\ y.speech = r.speech
          /\ y.logical = r.logical /\ y.asked = r.asked
      <3>1. q \in Pools
        BY <2>5 DEF GoodPool
      <3> QED
        BY <3>1, <2>1, <2>4, PoolSet
    <2> HIDE DEF y
    <2>7. Carried(x, y, d)
      <3> SUFFICES ASSUME NEW s \in SegIds
                   PROVE  /\ y.speech.segs[s].rev = x.speech.segs[s].rev
                          /\ y.speech.segs[s].state = "Out" <=> x.speech.segs[s].state = "Out"
                          /\ IF d.segs[s].display = "Retired" /\ x.display.segs[s].display # "Retired"
                             THEN /\ y.pool.segs[s] = IF x.pool.segs[s].display \in Alive
                                                      THEN Sch!Tombstone ELSE x.pool.segs[s]
                                  /\ IF x.logical[s] \in Alive THEN y.logical[s] \in {"Retired", "Completed"}
                                     ELSE y.logical[s] = x.logical[s]
                             ELSE y.pool.segs[s] = x.pool.segs[s] /\ y.logical[s] = x.logical[s]
        BY <2>4, <2>6 DEF Carried
      <3> QED
        BY <1>0, <2>4, <2>5, <2>6
    <2> QED
      BY <2>5, <2>6, <2>7 DEF y
  <1> QED
    BY <1>1, <1>2

LEMMA BackSound ==
  ASSUME NEW x, NEW A, NEW X, NEW U, NEW W, Sound(x, A, X, U, W),
         NEW d, Cap!Consistent(d), NEW K, NEW T, Moves(x.display, d, K, T),
         \A s \in T : s \notin W
                      /\ (s \in SegIds /\ x.pool.segs[s].display \in Alive =>
                              x.pool.segs[s].text # Sch!NoText)
  PROVE  LET y == Back(x, d) IN
         Sound(y, A, X \cup K, U, W) /\ Lessens(x.pool, y.pool) /\ Carried(x, y, d)
  <1> DEFINE y == Back(x, d)
  <1>1. x \in Calls /\ GoodPool(x.pool)
    BY DEF Sound
  <1>2. d \in Boxes
    BY ConsistentBox
  <1>3. y \in Calls /\ GoodPool(y.pool) /\ Carried(x, y, d)
    BY <1>1, <1>2, BackCarries
  <1> HIDE DEF y
  <1>t. Sch!Tombstone.display = "Retired"
    BY PoolTombstoneType
  <1>4. Lessens(x.pool, y.pool)
    BY <1>3, <1>t DEF Carried, Lessens, Alive
  <1>5. ASSUME NEW s \in SegIds
        PROVE  Linked(y, s, A, X \cup K, U, W)
    <2>1. Linked(x, s, A, X, U, W)
      BY DEF Sound
    <2>2. /\ x.display.segs[s].display \in {"Absent", "Waiting", "Visible", "Retired"}
          /\ d.segs[s].display \in {"Absent", "Waiting", "Visible", "Retired"}
          /\ x.display.segs[s].left \in Nat /\ d.segs[s].left \in Nat
          /\ x.pool.segs[s].display \in {"Absent", "Waiting", "Visible", "Retired"}
      <3>1. x.display \in Boxes /\ x.pool \in Pools
        BY <1>1 DEF Calls
      <3> QED
        BY <3>1, <1>2, BoxFields, PoolDisplay
    <2>3. \/ x.display.segs[s].display \in Alive /\ d.segs[s].display = "Retired"
          \/ /\ d.segs[s].display = x.display.segs[s].display
             /\ d.segs[s].left > 0 => x.display.segs[s].left > 0 \/ s \in T
          \/ s \in K /\ x.display.segs[s].display = "Waiting" /\ x.display.segs[s].left > 0
             /\ d.segs[s].display = "Visible"
      BY DEF Moves
    <2>4. /\ y.display = d /\ y.speech.segs[s].rev = x.speech.segs[s].rev
          /\ y.speech.segs[s].state = "Out" <=> x.speech.segs[s].state = "Out"
          /\ IF d.segs[s].display = "Retired" /\ x.display.segs[s].display # "Retired"
             THEN /\ y.pool.segs[s] = IF x.pool.segs[s].display \in Alive
                                      THEN Sch!Tombstone ELSE x.pool.segs[s]
                  /\ IF x.logical[s] \in Alive THEN y.logical[s] \in {"Retired", "Completed"}
                     ELSE y.logical[s] = x.logical[s]
             ELSE y.pool.segs[s] = x.pool.segs[s] /\ y.logical[s] = x.logical[s]
      BY <1>3 DEF Carried
    <2>5. s \in T => s \notin W /\ (x.pool.segs[s].display \in Alive => x.pool.segs[s].text # Sch!NoText)
      OBVIOUS
    <2>6. CASE d.segs[s].display = "Retired" /\ x.display.segs[s].display # "Retired"
      BY <2>1, <2>2, <2>3, <2>4, <2>6, <1>t DEF Linked, Alive
    <2>7. CASE d.segs[s].display = x.display.segs[s].display
      BY <2>1, <2>2, <2>3, <2>4, <2>5, <2>7 DEF Linked, Alive
    <2>8. CASE /\ s \in K /\ x.display.segs[s].display = "Waiting" /\ x.display.segs[s].left > 0
               /\ d.segs[s].display = "Visible"
      BY <2>1, <2>2, <2>4, <2>8 DEF Linked, Alive
    <2> QED
      BY <2>3, <2>6, <2>7, <2>8 DEF Alive
  <1>6. y.display = d
    BY <1>3 DEF Carried
  <1> QED
    BY <1>3, <1>4, <1>5, <1>6 DEF Sound, y

\* What was carried along two ways.
LEMMA MovesOn ==
  ASSUME NEW d, NEW e, NEW f, Moves(d, e, {}, {}), Moves(e, f, {}, {})
  PROVE  Moves(d, f, {}, {})
  BY DEF Moves, Alive

\* A change that retires segments, in what the pipeline says of them too.
Withdraws(x, y) ==
    /\ Moves(x.display, y.display, {}, {}) /\ Lessens(x.pool, y.pool)
    /\ y.speech.closed = x.speech.closed /\ y.speech.stopped = x.speech.stopped
    /\ y.speech.mine = x.speech.mine
    /\ \A s \in SegIds :
          /\ y.speech.segs[s].rev = x.speech.segs[s].rev
          /\ y.speech.segs[s].state = "Out" <=> x.speech.segs[s].state = "Out"

LEMMA WithdrawsOn ==
  ASSUME NEW x, NEW y, NEW z, Withdraws(x, y), Withdraws(y, z)
  PROVE  Withdraws(x, z)
  <1>1. Moves(x.display, z.display, {}, {}) /\ Lessens(x.pool, z.pool)
    BY MovesOn, LessensOn DEF Withdraws
  <1> QED
    BY <1>1 DEF Withdraws

LEMMA WithdrawsItself ==
  ASSUME NEW x
  PROVE  Withdraws(x, x)
  BY DEF Withdraws, Moves, Lessens

LEMMA CarriedWithdraws ==
  ASSUME NEW x, NEW y, NEW d, Moves(x.display, d, {}, {}), Carried(x, y, d),
         Lessens(x.pool, y.pool)
  PROVE  Withdraws(x, y)
  BY DEF Withdraws, Carried

LEMMA BackWithdraws ==
  ASSUME NEW x, NEW A, NEW X, NEW U, NEW W, Sound(x, A, X, U, W),
         NEW d, Cap!Consistent(d), Cap!Fading(x.display, d)
  PROVE  Sound(Back(x, d), A, X, U, W) /\ Withdraws(x, Back(x, d))
  <1> DEFINE none == {}
             y == Back(x, d)
  <1>1. Moves(x.display, d, none, none)
    BY FadingMoves
  <1>2. \A s \in none : s \notin W
                   /\ (s \in SegIds /\ x.pool.segs[s].display \in Alive =>
                           x.pool.segs[s].text # Sch!NoText)
    OBVIOUS
  <1>3. X \cup none = X
    OBVIOUS
  <1>4. /\ Moves(x.display, d, none, none) /\ Lessens(x.pool, y.pool) /\ Carried(x, y, d)
        => Withdraws(x, y)
    BY CarriedWithdraws
  <1> HIDE DEF none
  <1>5. Sound(y, A, X \cup none, U, W) /\ Lessens(x.pool, y.pool) /\ Carried(x, y, d)
    BY <1>1, <1>2, BackSound
  <1> QED
    BY <1>1, <1>3, <1>4, <1>5

LEMMA ExpiredNowWithdraws ==
  ASSUME NEW x, NEW A, NEW X, NEW U, NEW W, Sound(x, A, X, U, W)
  PROVE  Sound(ExpiredNow(x), A, X, U, W) /\ Withdraws(x, ExpiredNow(x))
  <1> DEFINE d == Com!Expire(x.display)
  <1>1. Cap!Consistent(d) /\ Cap!Fading(x.display, d)
    BY SameExpire, Cap!ExpireConsistent, CapAssumptions DEF Sound
  <1>2. ExpiredNow(x) = Back(x, d)
    BY DEF ExpiredNow
  <1> HIDE DEF d
  <1> QED
    BY <1>1, <1>2, BackWithdraws

\* Retired in the composer: it lives there no longer.
LEMMA RetiredThereSound ==
  ASSUME NEW x, NEW A, NEW X, NEW U, NEW W, Sound(x, A, X, U, W), NEW N, NEW reason
  PROVE  LET y == RetiredThere(x, N, reason) IN
         /\ Sound(y, A, X, U, W) /\ Withdraws(x, y)
         /\ \A s \in N \cap SegIds : y.display.segs[s].display \notin Alive
  <1> DEFINE d == Com!RetireSegments(x.display, N, reason)
             y == RetiredThere(x, N, reason)
  <1>0. Cap!Consistent(x.display)
    BY DEF Sound
  <1>1. /\ Cap!Consistent(d) /\ Cap!Fading(x.display, d)
        /\ \A s \in SegIds : /\ s \in N /\ Cap!Lives(x.display.segs[s]) => d.segs[s].display = "Retired"
                             /\ ~(s \in N /\ Cap!Lives(x.display.segs[s])) => d.segs[s] = x.display.segs[s]
    BY <1>0, SameRetireSegments, Cap!RetireConsistent, CapAssumptions
  <1>3. y = Back(x, d)
    BY DEF RetiredThere
  <1>6. \A s \in N \cap SegIds : d.segs[s].display \notin Alive
    BY <1>1, LivesAlive DEF Alive
  <1> HIDE DEF d, y
  <1>4. Sound(y, A, X, U, W) /\ Withdraws(x, y)
    BY <1>1, <1>3, BackWithdraws
  <1>7. y.display = d
    <2>1. d \in Boxes /\ x \in Calls /\ GoodPool(x.pool)
      BY <1>1, ConsistentBox DEF Sound
    <2> QED
      BY <1>3, <2>1, BackCarries DEF Carried
  <1>8. \A s \in N \cap SegIds : y.display.segs[s].display \notin Alive
    BY <1>6, <1>7
  <1> QED
    BY <1>4, <1>8 DEF y

LEMMA RecordedSound ==
  ASSUME NEW x, NEW A, NEW X, NEW U, NEW W, Sound(x, A, X, U, W),
         NEW N, \A s \in N \cap SegIds : x.pool.segs[s].display \notin Alive
  PROVE  LET y == Recorded(x, N, {}) IN
         /\ Sound(y, A, X, U \cup N, W \ N) /\ Withdraws(x, y) /\ y.pool = x.pool
         /\ \A s \in SegIds : s \notin N => y.logical[s] = x.logical[s]
  <1> DEFINE y == Recorded(x, N, {})
  <1>0. x \in Calls
    BY DEF Sound
  <1>1. /\ y \in Calls /\ y.pool = x.pool /\ y.display = x.display
        /\ y.published = x.published /\ y.asked = x.asked
        /\ y.speech.closed = x.speech.closed /\ y.speech.stopped = x.speech.stopped
        /\ y.speech.mine = x.speech.mine
        /\ \A s \in SegIds :
              /\ y.speech.segs[s].rev = x.speech.segs[s].rev
              /\ y.speech.segs[s].state = "Out" <=> x.speech.segs[s].state = "Out"
              /\ IF s \in N /\ x.logical[s] \in Alive
                 THEN y.logical[s] \in {"Retired", "Completed"}
                 ELSE y.logical[s] = x.logical[s]
    BY <1>0, RecordedFacts
  <1> HIDE DEF y
  <1>2. Withdraws(x, y)
    BY <1>1 DEF Withdraws, Moves, Lessens
  <1>3. ASSUME NEW s \in SegIds
        PROVE  Linked(y, s, A, X, U \cup N, W \ N)
    <2>1. Linked(x, s, A, X, U, W)
      BY DEF Sound
    <2>2. s \in N => x.pool.segs[s].display \notin Alive
      OBVIOUS
    <2>3. /\ y.speech.segs[s].rev = x.speech.segs[s].rev
          /\ y.speech.segs[s].state = "Out" <=> x.speech.segs[s].state = "Out"
          /\ IF s \in N /\ x.logical[s] \in Alive
             THEN y.logical[s] \in {"Retired", "Completed"}
             ELSE y.logical[s] = x.logical[s]
      BY <1>1
    <2> QED
      BY <1>1, <2>1, <2>2, <2>3 DEF Linked, Alive
  <1> QED
    BY <1>1, <1>2, <1>3 DEF Sound, y

\* scheduler_effects: what lives in no scheduler lives nowhere afterwards.
LEMMA ToldSound ==
  ASSUME NEW x, NEW A, NEW X, NEW U, NEW W, Sound(x, A, X, U, W), NEW reason,
         NEW N, \A s \in N \cap SegIds : x.pool.segs[s].display \notin Alive
  PROVE  Sound(Told(x, N, reason), A, X, U \ N, W) /\ Withdraws(x, Told(x, N, reason))
  <1>1. CASE N = {}
    <2>1. Told(x, N, reason) = x /\ U \ N = U
      BY <1>1 DEF Told
    <2> QED
      BY <2>1, WithdrawsItself
  <1>2. CASE N # {}
    <2> DEFINE a == Recorded(x, N, {})
               b == ExpiredNow(a)
               c == RetiredThere(b, N, reason)
    <2>0. Told(x, N, reason) = c
      BY <1>2 DEF Told
    <2>1. Sound(a, A, X, U \cup N, W \ N) /\ Withdraws(x, a) /\ a.pool = x.pool
      BY RecordedSound
    <2> HIDE DEF a
    <2>2. Sound(b, A, X, U \cup N, W \ N) /\ Withdraws(a, b)
      BY <2>1, ExpiredNowWithdraws
    <2> HIDE DEF b
    <2>3. /\ Sound(c, A, X, U \cup N, W \ N)
          /\ \A s \in N \cap SegIds : c.display.segs[s].display \notin Alive
          /\ Withdraws(b, c)
      BY <2>2, RetiredThereSound
    <2> HIDE DEF c
    <2>4. Withdraws(x, c)
      BY <2>1, <2>2, <2>3, WithdrawsOn
    <2>5. ASSUME NEW s \in SegIds
          PROVE  Linked(c, s, A, X, U \ N, W)
      <3>1. Linked(c, s, A, X, U \cup N, W \ N)
        BY <2>3 DEF Sound
      <3>2. s \in N => c.display.segs[s].display \notin Alive
        BY <2>3
      <3>3. Linked(x, s, A, X, U, W) 
        BY DEF Sound
      <3>4. c.speech.segs[s].state = "Out" <=> x.speech.segs[s].state = "Out"
        BY <2>4 DEF Withdraws
      <3> QED
        BY <3>1, <3>2, <3>3, <3>4 DEF Linked
    <2> QED
      BY <2>0, <2>3, <2>4, <2>5 DEF Sound
  <1> QED
    BY <1>1, <1>2

\* Which segments the scheduler has given up from p to q.
LEMMA GivenUpFacts ==
  ASSUME NEW p, NEW q
  PROVE  /\ GivenUp(p, q) \subseteq SegIds
         /\ \A s \in SegIds : s \in GivenUp(p, q) <=>
               q.segs[s].display = "Retired" /\ p.segs[s].display # "Retired"
  BY DEF GivenUp, Sch!WithDisplay

\* The scheduler's part is replaced by one that has only retired segments.
LEMMA PoolFadesSound ==
  ASSUME NEW x, NEW A, NEW X, NEW U, NEW W, Sound(x, A, X, U, W),
         NEW p, GoodPool(p), Fades(x.pool, p)
  PROVE  LET y == [x EXCEPT !.pool = p] IN
         /\ Sound(y, A, X, U \cup GivenUp(x.pool, p), W) /\ Withdraws(x, y)
         /\ y.display = x.display /\ y.pool = p /\ y.logical = x.logical /\ y.speech = x.speech
  <1> DEFINE y == [x EXCEPT !.pool = p]
             N == GivenUp(x.pool, p)
  <1>1. p \in Pools /\ x \in Calls
    BY DEF GoodPool, Sound
  <1>2. /\ y \in Calls /\ y.pool = p /\ y.display = x.display /\ y.speech = x.speech
        /\ y.logical = x.logical /\ y.published = x.published /\ y.asked = x.asked
    BY <1>1, PoolSet
  <1>0. \A s \in SegIds : s \in N <=>
               p.segs[s].display = "Retired" /\ x.pool.segs[s].display # "Retired"
    BY GivenUpFacts
  <1> HIDE DEF y, N
  <1>3. Withdraws(x, y)
    BY <1>2, FadesLessens DEF Withdraws, Moves
  <1>4. ASSUME NEW s \in SegIds
        PROVE  Linked(y, s, A, X, U \cup N, W)
    <2>1. Linked(x, s, A, X, U, W)
      BY DEF Sound
    <2>2. \/ p.segs[s].display = "Retired" /\ x.pool.segs[s].display \in Alive
          \/ /\ p.segs[s].display = x.pool.segs[s].display /\ p.segs[s].text = x.pool.segs[s].text
      BY DEF Fades
    <2>3. s \in N <=> p.segs[s].display = "Retired" /\ x.pool.segs[s].display # "Retired"
      BY <1>0
    <2> QED
      BY <1>2, <2>1, <2>2, <2>3 DEF Linked, Alive
  <1> QED
    BY <1>2, <1>3, <1>4 DEF Sound, y, N

\* Whatever the scheduler has become, what it gave up is carried on.
LEMMA ForwardFrom ==
  ASSUME NEW x, NEW p, NEW A, NEW X, NEW U, NEW W, NEW reason,
         Sound([x EXCEPT !.pool = p], A, X, U, W), [x EXCEPT !.pool = p].pool = p
  PROVE  LET y == Forward(x, p, reason) IN
         Sound(y, A, X, U \ GivenUp(x.pool, p), W) /\ Withdraws([x EXCEPT !.pool = p], y)
  <1> DEFINE z == [x EXCEPT !.pool = p]
             N == GivenUp(x.pool, p)
  <1>1. \A s \in N \cap SegIds : z.pool.segs[s].display \notin Alive
    BY GivenUpFacts DEF Alive
  <1>2. Forward(x, p, reason) = Told(z, N, reason)
    BY DEF Forward
  <1> HIDE DEF z, N
  <1>3. Sound(Told(z, N, reason), A, X, U \ N, W) /\ Withdraws(z, Told(z, N, reason))
    <2>1. Sound(z, A, X, U, W)
      BY DEF z
    <2> QED
      BY <1>1, <2>1, ToldSound
  <1> QED
    BY <1>2, <1>3 DEF z, N

LEMMA ForwardSound ==
  ASSUME NEW x, NEW A, NEW X, NEW U, NEW W, Sound(x, A, X, U, W),
         NEW p, GoodPool(p), Fades(x.pool, p), NEW reason
  PROVE  LET y == Forward(x, p, reason) IN
         /\ Sound(y, A, X, U, W) /\ Withdraws(x, y) /\ Lessens(p, y.pool)
  <1> DEFINE z == [x EXCEPT !.pool = p]
             N == GivenUp(x.pool, p)
             y == Forward(x, p, reason)
  <1>1. Sound(z, A, X, U \cup N, W) /\ Withdraws(x, z) /\ z.pool = p
    BY PoolFadesSound
  <1>2. Sound(y, A, X, (U \cup N) \ N, W) /\ Withdraws(z, y)
    BY <1>1, ForwardFrom
  <1> HIDE DEF z, N, y
  <1>3. Withdraws(x, y) /\ Lessens(p, y.pool)
    <2>1. Withdraws(x, y)
      BY <1>1, <1>2, WithdrawsOn
    <2> QED
      BY <2>1, <1>1, <1>2 DEF Withdraws
  <1>4. ASSUME NEW s \in SegIds
        PROVE  Linked(y, s, A, X, U, W)
    BY <1>2 DEF Sound, Linked
  <1> QED
    BY <1>2, <1>3, <1>4 DEF Sound, y

\* Nothing given up, nothing to carry on.
LEMMA ForwardStays ==
  ASSUME NEW x, NEW p, NEW reason,
         \A s \in SegIds : p.segs[s].display = "Retired" => x.pool.segs[s].display = "Retired"
  PROVE  Forward(x, p, reason) = [x EXCEPT !.pool = p]
  <1>1. GivenUp(x.pool, p) = {}
    BY GivenUpFacts
  <1> QED
    BY <1>1 DEF Forward, Told

LEMMA SchedulerTickedSound ==
  ASSUME NEW x, NEW A, NEW X, NEW U, NEW W, Sound(x, A, X, U, W)
  PROVE  LET y == SchedulerTicked(x) IN
         /\ Sound(y, A, X, U, W) /\ Withdraws(x, y) /\ NoneStale(y.pool)
  <1> DEFINE t == Sch!TickedPool(x.pool)
             y == SchedulerTicked(x)
  <1>1. GoodPool(t) /\ Fades(x.pool, t) /\ NoneStale(t)
    BY TickedGood DEF Sound
  <1>2. y = Forward(x, t, "StaleBeforeDisplay")
    BY DEF SchedulerTicked
  <1> HIDE DEF t
  <1>3. Sound(y, A, X, U, W) /\ Withdraws(x, y) /\ Lessens(t, y.pool)
    BY <1>1, <1>2, ForwardSound
  <1> HIDE DEF y
  <1>4. NoneStale(y.pool)
    BY <1>1, <1>3, LessensFresh
  <1> QED
    BY <1>3, <1>4 DEF y

-----------------------------------------------------------------------------
(* Pages and corrections *)

LEMMA OneOf ==
  ASSUME NEW S, S # {}
  PROVE  Only(S) \in S
  BY DEF Only

LEMMA TokenType ==
  ASSUME NEW x, NEW s
  PROVE  Token(x, s) \in {0, 1}
  BY DEF Token

LEMMA TimeLeftType ==
  ASSUME NEW d \in Boxes, NEW s
  PROVE  TimeLeft(d, s) \in Deadlines
  <1>1. d.slot.hold \in 0..Cap!MaxHold /\ d.config.hold \in Nat
    BY PipelineAssumption DEF Boxes, Cap!Slots
  <1>2. Cap!MaxHold \in Nat
    BY Cap!MaxHoldType, CapAssumptions
  <1>3. d.slot.hold \in Nat
    BY <1>1, <1>2
  <1>4. d.slot.hold < d.config.hold => d.config.hold - d.slot.hold \in Nat
    BY <1>1, <1>3
  <1> QED
    BY <1>1, <1>3, <1>4 DEF TimeLeft, Deadlines

LEMMA ExpectsSound ==
  ASSUME NEW x, NEW A, NEW X, NEW U, NEW W, Sound(x, A, X, U, W),
         NEW s \in SegIds, NEW job \in Cap!Jobs
  PROVE  Sound(Expects(x, s, job), A, X, U, W) /\ Withdraws(x, Expects(x, s, job))
  <1> DEFINE d == Com!Expecting(x.display, s, job)
  <1>1. Cap!Consistent(d) /\ Cap!Fading(x.display, d)
    BY SameExpecting, Cap!ExpectingConsistent, CapAssumptions DEF Sound
  <1>2. Expects(x, s, job) = Back(x, d)
    BY DEF Expects
  <1> HIDE DEF d
  <1> QED
    BY <1>1, <1>2, BackWithdraws

LEMMA ExpectsCurrentSound ==
  ASSUME NEW x, NEW A, NEW X, NEW U, NEW W, Sound(x, A, X, U, W), NEW s \in SegIds
  PROVE  Sound(ExpectsCurrent(x, s), A, X, U, W) /\ Withdraws(x, ExpectsCurrent(x, s))
  <1> DEFINE job == [rev |-> x.pool.segs[s].rev, att |-> x.pool.segs[s].att]
  <1>1. x.pool.segs[s] \in Sch!Segments
    BY GoodFields DEF Sound
  <1>2. job \in Cap!Jobs
    BY <1>1, LimitsAssumption DEF Sch!Segments, Cap!Jobs
  <1> QED
    BY <1>2, ExpectsSound DEF ExpectsCurrent

LEMMA AskedSet ==
  ASSUME NEW x, NEW A, NEW X, NEW U, NEW W, Sound(x, A, X, U, W),
         NEW s \in SegIds, NEW n \in 0..MaxPages
  PROVE  LET y == [x EXCEPT !.asked[s] = n] IN
         Sound(y, A, X, U, W) /\ Withdraws(x, y) /\ y.pool = x.pool
  <1> DEFINE y == [x EXCEPT !.asked[s] = n]
  <1>1. x \in Calls
    BY DEF Sound
  <1>2. /\ y \in Calls /\ y.pool = x.pool /\ y.display = x.display
        /\ y.logical = x.logical /\ y.speech = x.speech
    BY <1>1 DEF Calls
  <1> HIDE DEF y
  <1>3. Withdraws(x, y)
    BY <1>2 DEF Withdraws, Moves, Lessens
  <1>4. \A t \in SegIds : Linked(y, t, A, X, U, W)
    BY <1>2 DEF Sound, Linked
  <1> QED
    BY <1>2, <1>3, <1>4 DEF Sound, y

LEMMA AskedSound ==
  ASSUME NEW x, NEW A, NEW X, NEW U, NEW W, Sound(x, A, X, U, W),
         NEW s \in SegIds, NEW p, GoodPool(p), Fades(x.pool, p)
  PROVE  LET y == Asked(x, s, p) IN
         Sound(y, A, X, U, W) /\ Withdraws(x, y) /\ Lessens(p, y.pool)
  <1> DEFINE a == [x EXCEPT !.asked[s] = x.display.segs[s].index]
             b == Forward(a, p, "SegmentLimit")
             c == ExpiredNow(b)
             e == ExpectsCurrent(c, s)
             y == Asked(x, s, p)
  <1>1. CASE p.segs[s].att = 1
    BY <1>1, ForwardSound DEF Asked
  <1>2. CASE p.segs[s].att # 1
    <2>0. x.display.segs[s].index \in 0..MaxPages
      BY DEF Sound, Cap!Consistent, Cap!Typed, Cap!PagedSegments, Cap!Segments
    <2>1. Sound(a, A, X, U, W) /\ Withdraws(x, a) /\ a.pool = x.pool
      BY <2>0, AskedSet
    <2>2. y = e
      BY <1>2 DEF Asked
    <2> HIDE DEF a, y
    <2>3. Sound(b, A, X, U, W) /\ Withdraws(a, b) /\ Lessens(p, b.pool)
      BY <2>1, ForwardSound
    <2> HIDE DEF b
    <2>4. Sound(c, A, X, U, W) /\ Withdraws(b, c)
      BY <2>3, ExpiredNowWithdraws
    <2> HIDE DEF c
    <2>5. Sound(e, A, X, U, W) /\ Withdraws(c, e)
      BY <2>4, ExpectsCurrentSound
    <2> HIDE DEF e
    <2>6. Withdraws(b, e)
      BY <2>4, <2>5, WithdrawsOn
    <2>7. Withdraws(x, e)
      BY <2>1, <2>3, <2>6, WithdrawsOn
    <2>8. Lessens(p, e.pool)
      BY <2>3, <2>6, LessensOn DEF Withdraws
    <2> QED
      BY <2>2, <2>5, <2>7, <2>8 DEF y
  <1> QED
    BY <1>1, <1>2

LEMMA ReserveSound ==
  ASSUME NEW x, NEW A, NEW X, NEW U, NEW W, Sound(x, A, X, U, W),
         NEW s \in SegIds, NoneStale(x.pool), generation \in 0..MaxGeneration
  PROVE  LET y == Reserve(x, s) IN
         Sound(y, A, X, U, W) /\ Withdraws(x, y) /\ NoneStale(y.pool)
  <1> DEFINE t == Sch!TickedPool(x.pool)
             R == Sch!Requested(t, s, Token(x, s), TimeLeft(x.display, s))
             y == Reserve(x, s)
  <1>1. CASE ~Sch!MayRetry(x.pool.segs[s])
    <2>1. y = x
      BY <1>1 DEF Reserve
    <2> QED
      BY <2>1, WithdrawsItself
  <1>2. CASE Sch!MayRetry(x.pool.segs[s])
    <2>1. GoodPool(t) /\ Fades(x.pool, t) /\ NoneStale(t) /\ Stays(x.pool, t)
      BY TickedGood DEF Sound
    <2>2. t.segs[s].display \in Alive
      BY <1>2, <2>1 DEF Stays, Sch!MayRetry, Alive
    <2>3. y = Asked(x, s, Only(R))
      BY <1>2 DEF Reserve
    <2>4. Token(x, s) \in {0, 1} /\ TimeLeft(x.display, s) \in Deadlines
      BY TokenType, TimeLeftType DEF Sound, Calls
    <2> HIDE DEF t, y
    <2>5. R # {} /\ \A e \in R : GoodPool(e) /\ Fades(t, e)
      BY <2>1, <2>2, <2>4, RequestedGood
    <2> HIDE DEF R
    <2>6. GoodPool(Only(R)) /\ Fades(t, Only(R))
      BY <2>5, OneOf
    <2>7. Fades(x.pool, Only(R)) /\ NoneStale(Only(R))
      BY <2>1, <2>6, FadesOn, FadesFresh
    <2>8. Sound(y, A, X, U, W) /\ Withdraws(x, y) /\ Lessens(Only(R), y.pool)
      BY <2>3, <2>6, <2>7, AskedSound
    <2> QED
      BY <2>7, <2>8, LessensFresh DEF y
  <1> QED
    BY <1>1, <1>2

LEMMA NotePageSound ==
  ASSUME NEW x, NEW A, NEW X, NEW U, NEW W, Sound(x, A, X, U, W), NEW s \in SegIds
  PROVE  LET y == NotePage(x, s) IN
         /\ Sound(y, A, X, U, W) /\ Withdraws(x, y)
         /\ Stays(x.pool, y.pool) /\ y.display = x.display /\ y.logical = x.logical
  <1> DEFINE p == Sch!Noted(x.pool, s, Token(x, s), TimeLeft(x.display, s))
             y == NotePage(x, s)
  <1>1. CASE s \notin Sch!Live(x.pool)
    <2>1. y = x
      BY <1>1 DEF NotePage
    <2> QED
      BY <2>1, WithdrawsItself, FadesItself
  <1>2. CASE s \in Sch!Live(x.pool)
    <2>1. Token(x, s) \in {0, 1} /\ TimeLeft(x.display, s) \in Deadlines
      BY TokenType, TimeLeftType DEF Sound, Calls
    <2>2. GoodPool(p) /\ Stays(x.pool, p)
      BY <2>1, NotedGood DEF Sound
    <2>3. y = Forward(x, p, "SegmentLimit")
      BY <1>2 DEF NotePage
    <2> HIDE DEF p
    <2>4. y = [x EXCEPT !.pool = p]
      BY <2>2, <2>3, ForwardStays DEF Stays
    <2>5. Fades(x.pool, p)
      BY <2>2, StaysFades
    <2>6. Sound(y, A, X, U, W) /\ Withdraws(x, y)
      BY <2>2, <2>3, <2>5, ForwardSound
    <2>7. y.pool = p /\ y.display = x.display /\ y.logical = x.logical
      BY <2>2, <2>4, PoolSet DEF Sound, GoodPool
    <2> HIDE DEF y
    <2> QED
      BY <2>2, <2>6, <2>7 DEF y
  <1> QED
    BY <1>1, <1>2

\* A page of the segment s was entered or replaced: all three say that it is visible.
LEMMA PageShownSound ==
  ASSUME NEW x, NEW s \in SegIds, NEW A, NEW X, NEW U, NEW W, Sound(x, A, X, U, W),
         X \subseteq {s}, s \notin U \/ X = {}, x.display.segs[s].display = "Visible",
         NoneStale(x.pool), generation \in 0..MaxGeneration
  PROVE  LET y == PageShown(x, s) IN
         Sound(y, A, {}, U, W) /\ Withdraws(x, y) /\ NoneStale(y.pool)
  <1> DEFINE t == Sch!TickedPool(x.pool)
             q == VisibleIn(t, s)
             a == [x EXCEPT !.pool = q]
             b == NotePage(a, s)
             c == [b EXCEPT !.logical[s] = "Visible"]
             y == PageShown(x, s)
  <1>0. /\ x \in Calls /\ GoodPool(x.pool) /\ Cap!Consistent(x.display)
        /\ \A u \in SegIds : Linked(x, u, A, X, U, W)
    BY DEF Sound
  <1>1. CASE s \notin Sch!Live(x.pool)
    <2>1. y = x
      BY <1>1 DEF PageShown
    <2>2. x.pool.segs[s].display \notin Alive
      BY <1>1, PoolLive
    <2>3. X = {}
      BY <1>0, <2>2 DEF Linked, Alive
    <2> QED
      BY <2>1, <2>3, WithdrawsItself
  <1>2. CASE s \in Sch!Live(x.pool)
    <2>0. x.pool.segs[s].display \in Alive
      BY <1>2, PoolLive
    <2>1. GoodPool(t) /\ Stays(x.pool, t) /\ NoneStale(t)
      BY <1>0, TickedGood
    <2>2. t.segs[s].display \in Alive /\ t.segs[s].text # Sch!NoText
      <3>1. x.display.segs[s].left > 0
        BY <1>0 DEF Cap!Consistent, Cap!OwnsSlot
      <3>2. x.pool.segs[s].text # Sch!NoText
        BY <1>0, <2>0, <3>1 DEF Linked
      <3> QED
        BY <2>0, <2>1, <3>2 DEF Stays
    <2>3. Sch!MayShow(t, s)
      <3>1. ASSUME NEW u \in SegIds, t.segs[u].display = "Visible", u # s
            PROVE  FALSE
        <4>1. x.pool.segs[u].display = "Visible"
          BY <2>1, <3>1 DEF Stays
        <4>2. u \notin X
          BY <3>1
        <4>3. x.display.segs[u].display = "Visible"
          BY <1>0, <4>1, <4>2 DEF Linked, Alive
        <4> QED
          BY <1>0, <3>1, <4>3 DEF Cap!Consistent, Cap!OwnsSlot
      <3>2. Sch!WithDisplay(t, {"Visible"}) \subseteq {s}
        BY <3>1 DEF Sch!WithDisplay
      <3>3. s \in Sch!Live(t)
        BY <2>2, PoolLive
      <3> QED
        BY <2>2, <3>2, <3>3 DEF Sch!MayShow
    <2>4. q = Sch!MarkedVisible(t, s)
      BY <2>3 DEF VisibleIn
    <2>5. y = Reserve([NotePage(Forward(x, q, "StaleBeforeDisplay"), s)
                        EXCEPT !.logical[s] = "Visible"], s)
      BY <1>2 DEF PageShown
    <2> HIDE DEF t
    <2>6. /\ GoodPool(q) /\ q.segs[s].display = "Visible" /\ q.segs[s].text = t.segs[s].text
          /\ \A u \in SegIds \ {s} : q.segs[u] = t.segs[u]
      BY <2>1, <2>2, <2>4, MarkedVisibleGood
    <2> HIDE DEF q, y
    <2>7. ASSUME NEW u \in SegIds
          PROVE  /\ u # s => /\ q.segs[u].display = x.pool.segs[u].display
                             /\ q.segs[u].age = x.pool.segs[u].age
                 /\ q.segs[u].text = x.pool.segs[u].text
                 /\ q.segs[u].display = "Retired" => x.pool.segs[u].display = "Retired"
      BY <2>1, <2>6 DEF Stays
    <2>8. Forward(x, q, "StaleBeforeDisplay") = a
      BY <2>7, ForwardStays
    <2>9. /\ a \in Calls /\ a.pool = q /\ a.display = x.display /\ a.speech = x.speech
          /\ a.logical = x.logical
      BY <1>0, <2>6, PoolSet DEF GoodPool
    <2>10. y = Reserve(c, s)
      BY <2>5, <2>8
    <2> HIDE DEF a
    <2>11. Withdraws(x, a) /\ NoneStale(q)
      <3>1. Lessens(x.pool, q)
        BY <2>0, <2>6, <2>7 DEF Lessens, Alive
      <3>2. NoneStale(q)
        BY <3>1, LessensFresh
      <3> QED
        BY <2>9, <3>1, <3>2 DEF Withdraws, Moves
    <2>12. ASSUME NEW u \in SegIds
           PROVE  Linked(a, u, A, {s}, U, W)
      <3>1. Linked(x, u, A, X, U, W)
        BY <1>0
      <3>2. CASE u = s
        BY <2>0, <2>2, <2>6, <2>9, <3>1, <3>2 DEF Linked, Alive
      <3>3. CASE u # s
        <4>1. u \notin X
          BY <3>3
        <4> QED
          BY <2>7, <2>9, <3>1, <3>3, <4>1 DEF Linked
      <3> QED
        BY <3>2, <3>3
    <2>13. Sound(a, A, {s}, U, W)
      BY <1>0, <2>6, <2>9, <2>12 DEF Sound
    <2>14. /\ Sound(b, A, {s}, U, W) /\ Withdraws(a, b)
           /\ Stays(a.pool, b.pool) /\ b.display = a.display
      BY <2>13, NotePageSound
    <2> HIDE DEF b
    <2>15. /\ c \in Calls /\ c.pool = b.pool /\ c.display = b.display /\ c.speech = b.speech
           /\ c.logical[s] = "Visible" /\ \A u \in SegIds \ {s} : c.logical[u] = b.logical[u]
      <3>1. b \in Calls
        BY <2>14 DEF Sound
      <3> QED
        BY <3>1 DEF Calls, States
    <2> HIDE DEF c
    <2>16. ASSUME NEW u \in SegIds
           PROVE  Linked(c, u, A, {}, U, W)
      <3>1. Linked(b, u, A, {s}, U, W)
        BY <2>14 DEF Sound
      <3>2. CASE u = s
        <4>1. b.pool.segs[s].display = "Visible"
          BY <2>6, <2>9, <2>14 DEF Stays
        <4>2. b.display.segs[s].display = "Visible"
          BY <2>9, <2>14
        <4> QED
          BY <2>15, <3>1, <3>2, <4>1, <4>2 DEF Linked, Alive
      <3>3. CASE u # s
        BY <2>15, <3>1, <3>3 DEF Linked
      <3> QED
        BY <3>2, <3>3
    <2>17. Sound(c, A, {}, U, W)
      BY <2>14, <2>15, <2>16 DEF Sound
    <2>18. Withdraws(b, c) /\ NoneStale(c.pool)
      <3>1. Withdraws(b, c)
        BY <2>15 DEF Withdraws, Moves, Lessens
      <3>2. NoneStale(b.pool)
        BY <2>9, <2>11, <2>14, LessensFresh DEF Withdraws
      <3> QED
        BY <2>15, <3>1, <3>2
    <2>19. Sound(y, A, {}, U, W) /\ Withdraws(c, y) /\ NoneStale(y.pool)
      BY <2>10, <2>17, <2>18, ReserveSound
    <2>20. Withdraws(x, y)
      <3>1. Withdraws(x, b)
        BY <2>11, <2>14, WithdrawsOn
      <3>2. Withdraws(x, c)
        BY <2>18, <3>1, WithdrawsOn
      <3> QED
        BY <2>19, <3>2, WithdrawsOn
    <2> QED
      BY <2>19, <2>20 DEF y
  <1> QED
    BY <1>1, <1>2

LEMMA PageShownIfSound ==
  ASSUME NEW x, NEW s, NEW A, NEW X, NEW U, NEW W, Sound(x, A, X, U, W),
         NEW shown \in BOOLEAN, NoneStale(x.pool), generation \in 0..MaxGeneration,
         shown => s \in SegIds /\ X \subseteq {s} /\ (s \notin U \/ X = {})
                  /\ x.display.segs[s].display = "Visible",
         ~shown => X = {}
  PROVE  LET y == PageShownIf(x, s, shown) IN
         Sound(y, A, {}, U, W) /\ Withdraws(x, y) /\ NoneStale(y.pool)
  <1>1. CASE shown
    BY <1>1, PageShownSound DEF PageShownIf
  <1>2. CASE ~shown
    BY <1>2, WithdrawsItself DEF PageShownIf
  <1> QED
    BY <1>1, <1>2

-----------------------------------------------------------------------------
(* The display's tick *)

LEMMA FrameType ==
  ASSUME NEW d \in Boxes
  PROVE  FrameOf(d) \in Frames
  <1>1. NoFrame \in Frames
    BY LimitsAssumption DEF NoFrame, Frames, Cap!Jobs
  <1>2. ASSUME d.slot.key # 0
        PROVE  FrameOf(d) \in Frames
    <2>1. d.slot.key \in SegIds
      BY <1>2 DEF Boxes, Cap!Slots
    <2>2. /\ d.segs[d.slot.key].job \in Cap!Jobs
          /\ d.segs[d.slot.key].index \in 0..MaxPages
      BY <2>1 DEF Boxes, Cap!PagedSegments, Cap!Segments
    <2> QED
      BY <1>2, <2>1, <2>2 DEF FrameOf, Frames
  <1> QED
    BY <1>1, <1>2 DEF FrameOf

\* A pool whose pages only grow older.
LEMMA OlderPagesGood ==
  ASSUME NEW p, GoodPool(p)
  PROVE  LET S == [s \in SegIds |-> IF p.segs[s].page = 1 THEN [p.segs[s] EXCEPT !.page = 2]
                                    ELSE p.segs[s]]
         IN GoodPool([p EXCEPT !.segs = S]) /\ Stays(p, [p EXCEPT !.segs = S])
  <1> DEFINE S == [s \in SegIds |-> IF p.segs[s].page = 1 THEN [p.segs[s] EXCEPT !.page = 2]
                                    ELSE p.segs[s]]
             q == [p EXCEPT !.segs = S]
  <1>1. ASSUME NEW s \in SegIds
        PROVE  /\ S[s] \in Sch!Segments /\ S[s].display = p.segs[s].display
               /\ S[s].age = p.segs[s].age /\ S[s].text = p.segs[s].text
               /\ S[s].rev = p.segs[s].rev /\ S[s].att = p.segs[s].att
    <2>1. p.segs[s] \in Sch!Segments
      BY GoodFields
    <2> QED
      BY <2>1 DEF Sch!Segments
  <1>2. S \in [SegIds -> Sch!Segments]
    BY <1>1
  <1> HIDE DEF S
  <1>3. p \in Pools
    BY DEF GoodPool
  <1>4. q \in Pools /\ q.segs = S
    BY <1>2, <1>3 DEF Pools
  <1> HIDE DEF q
  <1>5. LiveTyped(q)
    <2>1. \A s \in SegIds : q.segs[s].display \in Alive =>
             generation > 0 /\ q.segs[s].rev \in 1..MaxRevision /\ q.segs[s].att \in {1, 2}
      BY <1>1, <1>4, GoodFields
    <2> QED
      BY <2>1, PoolLive DEF LiveTyped
  <1> QED
    BY <1>1, <1>4, <1>5 DEF GoodPool, Stays, q, S

LEMMA PublishedSound ==
  ASSUME NEW x, NEW A, NEW X, NEW U, NEW W, Sound(x, A, X, U, W)
  PROVE  LET y == Published(x) IN
         Sound(y, A, X, U, W) /\ Withdraws(x, y) /\ y.display = x.display
  <1> DEFINE p == x.pool
             f == FrameOf(x.display)
             S == [s \in SegIds |-> IF p.segs[s].page = 1 THEN [p.segs[s] EXCEPT !.page = 2]
                                    ELSE p.segs[s]]
             q == [p EXCEPT !.segs = S]
             y == Published(x)
  <1>1. CASE FrameOf(x.display) = x.published
    <2>1. y = x
      BY <1>1 DEF Published
    <2> QED
      BY <2>1, WithdrawsItself
  <1>2. CASE FrameOf(x.display) # x.published
    <2>0. x \in Calls /\ GoodPool(p) /\ x.display \in Boxes
      BY DEF Sound, Calls
    <2>1. GoodPool(q) /\ Stays(p, q)
      BY <2>0, OlderPagesGood
    <2>2. f \in Frames
      BY <2>0, FrameType
    <2>3. y = [x EXCEPT !.published = f, !.pool = q]
      BY <1>2, <2>0 DEF Published, Calls, Pools
    <2> HIDE DEF q, f
    <2>4. /\ y \in Calls /\ y.pool = q /\ y.display = x.display /\ y.speech = x.speech
          /\ y.logical = x.logical
      BY <2>0, <2>1, <2>2, <2>3 DEF Calls, GoodPool
    <2> HIDE DEF y
    <2>5. Withdraws(x, y)
      BY <2>1, <2>4, StaysFades, FadesLessens DEF Withdraws, Moves
    <2>6. \A s \in SegIds : Linked(y, s, A, X, U, W)
      BY <2>1, <2>4 DEF Sound, Linked, Stays
    <2> QED
      BY <2>1, <2>4, <2>5, <2>6 DEF Sound, y
  <1> QED
    BY <1>1, <1>2

LEMMA EntersSound ==
  ASSUME NEW x, NEW A, Sound(x, A, {}, {}, {}), NoneStale(x.pool),
         generation \in 0..MaxGeneration,
         NEW d, Cap!Consistent(d), Cap!Showing(x.display, d)
  PROVE  LET y == Enters(x, d, d.slot.key) IN
         Sound(y, A, {}, {}, {}) /\ NoneStale(y.pool)
  <1> DEFINE s == d.slot.key
             shown == /\ s # 0 /\ FrameOf(d).key # 0
                      /\ s # x.display.slot.key \/ FrameOf(d).index # FrameOf(x.display).index
             K == IF shown THEN {s} ELSE {}
             none == {}
             b == Back(x, d)
             p == Published(b)
             y == Enters(x, d, d.slot.key)
  <1>0. Cap!Consistent(x.display) /\ x.display \in Boxes /\ d \in Boxes
    BY ConsistentBox DEF Sound
  <1>1. s # 0 => s \in SegIds
    BY <1>0 DEF Boxes, Cap!Slots
  <1>2. shown => d.segs[s].display = "Visible"
    <2>1. SUFFICES ASSUME shown, d.slot.placeholder PROVE FALSE
      <3>1. d.slot.placeholder \in BOOLEAN
        BY <1>0 DEF Boxes, Cap!Slots
      <3> QED
        BY <1>1, <2>1, <3>1 DEF Cap!Consistent, Cap!OwnsSlot
    <2>2. s = x.display.slot.key /\ d.segs[s].index = x.display.segs[s].index
      BY <2>1 DEF Cap!Showing
    <2> QED
      BY <2>1, <2>2 DEF FrameOf
  <1>3. Moves(x.display, d, K, none)
    <2>1. ASSUME NEW t \in SegIds, x.display.segs[t].display = "Waiting",
                 d.segs[t].display = "Visible", d.slot.key = t
          PROVE  t \in K
      <3>1. x.display.slot.key # t
        BY <1>0, <2>1 DEF Cap!Consistent, Cap!OwnsSlot, Boxes, Cap!Slots
      <3>2. t # 0
        BY IdsAreFinite
      <3> QED
        BY <2>1, <3>1, <3>2 DEF FrameOf
    <2> QED
      BY <2>1, LivesAlive DEF Moves, Cap!Showing
  <1>4. y = PageShownIf(p, s, shown)
    BY DEF Enters
  <1>5. K \subseteq {s} /\ (~shown => K = {}) /\ shown \in BOOLEAN /\ {} \cup K = K
    OBVIOUS
  <1>6. \A t \in none : t \notin none
                   /\ (t \in SegIds /\ x.pool.segs[t].display \in Alive =>
                           x.pool.segs[t].text # Sch!NoText)
    OBVIOUS
  <1>p. none = {}
    OBVIOUS
  <1> HIDE DEF K, shown, none, y
  <1>7. Sound(b, A, {} \cup K, {}, none) /\ Lessens(x.pool, b.pool) /\ Carried(x, b, d)
    BY <1>3, <1>6, <1>p, BackSound
  <1>8. Sound(b, A, K, {}, {})
    BY <1>5, <1>7, <1>p
  <1>9. b.display = d
    BY <1>7 DEF Carried
  <1> HIDE DEF b
  <1>10. Sound(p, A, K, {}, {}) /\ Withdraws(b, p) /\ p.display = d
    BY <1>8, <1>9, PublishedSound
  <1> HIDE DEF p
  <1>11. Lessens(x.pool, p.pool)
    BY <1>7, <1>10, LessensOn DEF Withdraws
  <1>12. NoneStale(p.pool)
    BY <1>11, LessensFresh
  <1>13. Sound(y, A, {}, {}, {}) /\ Withdraws(p, y) /\ NoneStale(y.pool)
    BY <1>1, <1>2, <1>4, <1>5, <1>8, <1>10, <1>12, PageShownIfSound DEF shown
  <1> QED
    BY <1>13 DEF y

LEMMA RenderedAsSound ==
  ASSUME NEW x, NEW A, Sound(x, A, {}, {}, {}), NoneStale(x.pool),
         generation \in 0..MaxGeneration,
         NEW d, Cap!Consistent(d), Cap!Showing(x.display, d)
  PROVE  Sound(RenderedAs(x, d), A, {}, {}, {})
  <1> DEFINE s == d.slot.key
             e == Enters(x, d, d.slot.key)
             n == NotePage(e, s)
  <1>1. Sound(e, A, {}, {}, {}) /\ NoneStale(e.pool)
    BY EntersSound
  <1>2. s = 0 \/ s \in SegIds
    BY ConsistentBox DEF Boxes, Cap!Slots
  <1>3. RenderedAs(x, d) = IF s = 0 THEN e ELSE Reserve(n, s)
    BY DEF RenderedAs, Noticed
  <1> HIDE DEF e
  <1>4. ASSUME s \in SegIds
        PROVE  Sound(Reserve(n, s), A, {}, {}, {})
    <2>1. Sound(n, A, {}, {}, {}) /\ Withdraws(e, n)
      BY <1>1, <1>4, NotePageSound
    <2> HIDE DEF n
    <2>2. NoneStale(n.pool)
      BY <1>1, <2>1, LessensFresh DEF Withdraws
    <2> QED
      BY <1>4, <2>1, <2>2, ReserveSound
  <1> QED
    BY <1>1, <1>2, <1>3, <1>4, IdsAreFinite

\* The composer's tick, with what it shows.
LEMMA RenderedSound ==
  ASSUME NEW x, NEW A, Sound(x, A, {}, {}, {}), NoneStale(x.pool),
         generation \in 0..MaxGeneration, NEW aligned
  PROVE  Sound(Rendered(x, aligned), A, {}, {}, {})
  <1> DEFINE e == ExpiredNow(x)
             d == Com!Rendered(e.display, aligned)
  <1>1. Sound(e, A, {}, {}, {}) /\ Withdraws(x, e)
    BY ExpiredNowWithdraws
  <1>2. Rendered(x, aligned) = RenderedAs(e, d)
    BY DEF Rendered, RenderedNow
  <1> HIDE DEF e
  <1>3. NoneStale(e.pool)
    BY <1>1, LessensFresh DEF Withdraws
  <1>4. Cap!Consistent(d) /\ Cap!Showing(e.display, d)
    BY <1>1, SameRendered, Cap!RenderedConsistent, CapAssumptions DEF Sound
  <1> HIDE DEF d
  <1> QED
    BY <1>1, <1>2, <1>3, <1>4, RenderedAsSound

-----------------------------------------------------------------------------
(* Answers *)

LEMMA SetSegmentIs ==
  ASSUME NEW p \in Pools, NEW s, NEW seg
  PROVE  [p EXCEPT !.segs[s] = seg] = Sch!SetSegment(p, s, seg)
  BY DEF Pools, Sch!SetSegment, Sch!PoolOf

LEMMA JudgedInSound ==
  ASSUME NEW x, NEW A, NEW X, NEW U, NEW W, Sound(x, A, X, U, W), NEW id \in Sch!JobIds,
         NEW ok \in BOOLEAN, NEW verdict, qualityOn \in BOOLEAN
  PROVE  LET y == JudgedIn(x, id, ok, verdict) IN Sound(y, A, X, U, W) /\ Withdraws(x, y)
  <1> DEFINE s == id.seg
             old == x.pool.segs[s]
             seg == Sch!Judged(old, verdict # "Normal", verdict = "Suspected" /\ qualityOn)
             p == Sch!SetSegment(x.pool, s, seg)
             y == JudgedIn(x, id, ok, verdict)
  <1>0. s \in SegIds /\ x \in Calls /\ GoodPool(x.pool) /\ x.pool \in Pools
    BY DEF Sch!JobIds, Sound, GoodPool
  <1>1. CASE ok /\ id.att = 1 /\ s \in Sch!Live(x.pool)
    <2>1. old \in Sch!Segments
      BY <1>0, GoodFields
    <2>2. /\ seg \in Sch!Segments /\ seg.display = old.display /\ seg.age = old.age
          /\ seg.text = old.text /\ seg.rev = old.rev /\ seg.att = old.att
      <3>1. (verdict # "Normal") \in BOOLEAN /\ (verdict = "Suspected" /\ qualityOn) \in BOOLEAN
        OBVIOUS
      <3> QED
        BY <2>1, <3>1, JudgedType
    <2>3. y = [x EXCEPT !.pool = [x.pool EXCEPT !.segs[s] = seg]]
      BY <1>0, <1>1 DEF JudgedIn, Calls, Pools
    <2> HIDE DEF seg
    <2>4. y = [x EXCEPT !.pool = p]
      BY <1>0, <2>3, SetSegmentIs
    <2>5. GoodPool(p) /\ Stays(x.pool, p)
      BY <1>0, <2>2, SameJobGood
    <2> HIDE DEF p, y
    <2>6. Fades(x.pool, p)
      BY <2>5, StaysFades
    <2>7. p = p /\ Forward(x, p, "none") = [x EXCEPT !.pool = p]
      BY <2>5, ForwardStays DEF Stays
    <2>8. Sound(y, A, X, U, W) /\ Withdraws(x, y)
      BY <2>4, <2>5, <2>6, <2>7, ForwardSound
    <2> QED
      BY <2>8 DEF y
  <1>2. CASE ~(ok /\ id.att = 1 /\ s \in Sch!Live(x.pool))
    <2>1. y = x
      BY <1>2 DEF JudgedIn
    <2> QED
      BY <2>1, WithdrawsItself
  <1> QED
    BY <1>1, <1>2

\* The composer takes the answer: the segment answered has a text when it has pages.
LEMMA AnsweredWithSound ==
  ASSUME NEW x, NEW A, NEW U, Sound(x, A, {}, U, {}), NoneStale(x.pool),
         generation \in 0..MaxGeneration, NEW s \in SegIds, NEW job \in Cap!Jobs,
         NEW n \in 0..MaxPages, NEW aligned,
         n > 0 /\ x.pool.segs[s].display \in Alive => x.pool.segs[s].text # Sch!NoText
  PROVE  LET y == AnsweredWith(x, s, job, n, aligned) IN
         Sound(y, A, {}, U, {}) /\ Lessens(x.pool, y.pool) /\ NoneStale(y.pool)
  <1> DEFINE d == Com!Answered(x.display, s, job, n, aligned)
             b == Back(x, d)
             T == IF n = 0 THEN {} ELSE {s}
             none == {}
             shown == d.slot # x.display.slot /\ d.slot.key = s /\ ~d.slot.placeholder
             y == AnsweredWith(x, s, job, n, aligned)
  <1>0. Cap!Consistent(x.display) /\ n \in Nat
    BY DEF Sound
  <1>1. Cap!Consistent(d) /\ Cap!Answering(x.display, d, s, n)
    BY <1>0, SameAnswered, Cap!AnsweredConsistent, CapAssumptions
  <1>2. y = PageShownIf(b, s, shown)
    BY DEF AnsweredWith, Replaces
  <1> HIDE DEF d, y
  <1>3. Moves(x.display, d, none, T)
    BY <1>0, <1>1, AnsweringMoves
  <1>4. \A t \in T : t \notin none
                   /\ (t \in SegIds /\ x.pool.segs[t].display \in Alive =>
                           x.pool.segs[t].text # Sch!NoText)
    BY <1>0
  <1>5. shown => d.segs[s].display = "Visible"
    BY <1>1 DEF Cap!Consistent, Cap!OwnsSlot
  <1>6. shown \in BOOLEAN /\ none = {} /\ none \cup none = none
    OBVIOUS
  <1> HIDE DEF T, shown, none
  <1>7. Sound(b, A, none \cup none, U, none) /\ Lessens(x.pool, b.pool) /\ Carried(x, b, d)
    <2>1. Sound(x, A, none, U, none)
      BY <1>6
    <2> QED
      BY <1>1, <1>3, <1>4, <2>1, BackSound
  <1>8. b.display = d /\ NoneStale(b.pool)
    BY <1>7, LessensFresh DEF Carried
  <1> HIDE DEF b
  <1>9. Sound(b, A, {}, U, {})
    BY <1>6, <1>7
  <1>10. Sound(y, A, {}, U, {}) /\ Withdraws(b, y) /\ NoneStale(y.pool)
    BY <1>2, <1>5, <1>6, <1>8, <1>9, PageShownIfSound
  <1>11. Lessens(x.pool, y.pool)
    BY <1>7, <1>10, LessensOn DEF Withdraws
  <1> QED
    BY <1>10, <1>11 DEF y

LEMMA ComposedSound ==
  ASSUME NEW x, NEW A, NEW U, Sound(x, A, {}, U, {}), NoneStale(x.pool),
         generation \in 0..MaxGeneration, qualityOn \in BOOLEAN,
         NEW id \in Sch!JobIds, NEW ok \in BOOLEAN, NEW pages \in 0..MaxPages, NEW aligned,
         NEW verdict, ok => x.pool.segs[id.seg].text # Sch!NoText
  PROVE  LET y == Composed(x, id, ok, pages, aligned, verdict) IN
         Sound(y, A, {}, U, {}) /\ Lessens(x.pool, y.pool)
  <1> DEFINE s == id.seg
             shown == IF ok /\ (id.att > 1 => Corrects(x, id.seg, verdict)) THEN pages ELSE 0
             job == [rev |-> id.rev, att |-> id.att]
             a == JudgedIn(x, id, ok, verdict)
             b == ExpiredNow(a)
             c == AnsweredWith(b, s, job, shown, aligned)
             due == ok /\ id.att = 1
             y == Composed(x, id, ok, pages, aligned, verdict)
  <1>0. s \in SegIds /\ job \in Cap!Jobs
    BY LimitsAssumption DEF Sch!JobIds, Cap!Jobs
  <1>1. shown \in 0..MaxPages /\ (shown > 0 => ok) /\ due \in BOOLEAN
    BY LimitsAssumption
  <1>2. y = ReserveIf(c, s, due)
    BY DEF Composed
  <1> HIDE DEF y, job, shown, due
  <1>3. Sound(a, A, {}, U, {}) /\ Withdraws(x, a)
    BY JudgedInSound
  <1> HIDE DEF a
  <1>4. Sound(b, A, {}, U, {}) /\ Withdraws(a, b)
    BY <1>3, ExpiredNowWithdraws
  <1> HIDE DEF b
  <1>5. Lessens(x.pool, b.pool)
    BY <1>3, <1>4, LessensOn DEF Withdraws
  <1>6. NoneStale(b.pool)
    BY <1>5, LessensFresh
  <1>7. ok /\ b.pool.segs[s].display \in Alive => b.pool.segs[s].text # Sch!NoText
    BY <1>0, <1>5 DEF Lessens
  <1>8. Sound(c, A, {}, U, {}) /\ Lessens(b.pool, c.pool) /\ NoneStale(c.pool)
    BY <1>0, <1>1, <1>4, <1>6, <1>7, AnsweredWithSound
  <1> HIDE DEF c
  <1>9. Lessens(x.pool, c.pool)
    BY <1>5, <1>8, LessensOn
  <1>10. CASE due
    <2>1. y = Reserve(c, s)
      BY <1>2, <1>10 DEF ReserveIf
    <2>2. Sound(y, A, {}, U, {}) /\ Withdraws(c, y)
      BY <1>0, <1>8, <2>1, ReserveSound
    <2>3. Lessens(x.pool, y.pool)
      BY <1>9, <2>2, LessensOn DEF Withdraws
    <2> QED
      BY <2>2, <2>3 DEF y
  <1>11. CASE ~due
    <2>1. y = c
      BY <1>2, <1>11 DEF ReserveIf
    <2> QED
      BY <1>8, <1>9, <2>1 DEF y
  <1> QED
    BY <1>10, <1>11

-----------------------------------------------------------------------------
(* prune *)

LEMMA PruneSound ==
  ASSUME NEW x, NEW A, NEW X, NEW U, NEW W, Sound(x, A, X, U, W)
  PROVE  LET y == Prune(x) IN
         Sound(y, A, X, U, W) /\ Lessens(x.pool, y.pool) /\ y.speech = x.speech
  <1> DEFINE F == Forgettable(x)
             L == [s \in SegIds |-> IF s \in F THEN "None" ELSE x.logical[s]]
             D == [s \in SegIds |-> IF s \in F THEN Com!Absent ELSE x.display.segs[s]]
             P == [s \in SegIds |-> IF s \in F /\ x.pool.segs[s].display = "Retired"
                                    THEN Sch!Absent ELSE x.pool.segs[s]]
             d == [x.display EXCEPT !.segs = D]
             p == [x.pool EXCEPT !.segs = P]
             y == Prune(x)
  <1>0. /\ x \in Calls /\ GoodPool(x.pool) /\ Cap!Consistent(x.display)
        /\ x.display \in Boxes /\ x.pool \in Pools
    BY DEF Sound, Calls
  <1>1. ASSUME NEW s \in F
        PROVE  /\ s \in SegIds /\ x.logical[s] \in {"Retired", "Completed"}
               /\ s # x.display.slot.key /\ x.display.segs[s].display \notin Alive
    BY LivesAlive DEF Forgettable, Retired, Com!Live
  <1>2. y = [x EXCEPT !.logical = L, !.display = d, !.pool = p]
    <2>1. x.display = [x.display EXCEPT !.segs = x.display.segs]
      BY <1>0 DEF Boxes
    <2>2. D = [s \in SegIds |-> IF s \in F /\ s # x.display.slot.key
                                 THEN Com!Absent ELSE x.display.segs[s]]
      BY <1>1
    <2> QED
      BY <1>0, <2>2 DEF Prune, Calls, Boxes, Pools
  <1> HIDE DEF F
  <1>3. L \in [SegIds -> States]
    BY <1>0 DEF Calls, States
  <1>4. /\ Cap!Consistent(d)
        /\ \A s \in SegIds : d.segs[s] = IF s \in F THEN Cap!Absent ELSE x.display.segs[s]
    <2>1. Com!Absent = Cap!Absent
      BY DEF Com!Absent, Cap!Absent, Com!NoJob, Cap!NoJob
    <2> DEFINE e == [x.display EXCEPT !.segs =
                        [s \in SegIds |-> IF s \in F THEN Cap!Absent ELSE @[s]]]
    <2>2. d = e
      BY <2>1
    <2>3. \A s \in SegIds \cap F : ~Cap!Lives(x.display.segs[s]) /\ s # x.display.slot.key
      BY <1>1, LivesAlive
    <2>4. /\ Cap!Consistent(e)
          /\ \A s \in SegIds : e.segs[s] = IF s \in F THEN Cap!Absent ELSE x.display.segs[s]
      BY <1>0, <2>3, Cap!ForgottenConsistent, CapAssumptions
    <2> HIDE DEF e, d
    <2> QED
      BY <2>2, <2>4
  <1>5. \A s \in SegIds : P[s] \in Sch!Segments
    BY <1>0, GoodFields, PoolAbsentType
  <1>6. /\ GoodPool(p)
        /\ \A s \in SegIds : p.segs[s] = IF s \in F /\ x.pool.segs[s].display = "Retired"
                                         THEN Sch!Absent ELSE x.pool.segs[s]
    <2>1. P \in [SegIds -> Sch!Segments]
      BY <1>5
    <2>2. \A s \in SegIds : P[s].display \in Alive => P[s] = x.pool.segs[s]
      BY PoolAbsentType DEF Alive
    <2> HIDE DEF P
    <2>3. p = Sch!PoolOf(P, x.pool.queue, x.pool.cancelled)
      BY <1>0 DEF Pools, Sch!PoolOf
    <2>4. \A s \in SegIds : P[s].display \in Alive =>
             generation > 0 /\ P[s].rev \in 1..MaxRevision /\ P[s].att \in {1, 2}
      BY <1>0, <2>2, GoodFields
    <2>5. x.pool.queue \in SUBSET Sch!Jobs /\ x.pool.cancelled \in SUBSET running
      BY <1>0, GoodFields
    <2>6. GoodPool(p)
      BY <2>1, <2>3, <2>4, <2>5, GoodParts
    <2>7. p.segs = P
      BY <2>3, PoolFields
    <2> QED
      BY <2>6, <2>7 DEF P
  <1>7. d \in Boxes /\ p \in Pools
    BY <1>4, <1>6, ConsistentBox DEF GoodPool
  <1> HIDE DEF d, p
  <1>8. \A s \in SegIds : L[s] = IF s \in F THEN "None" ELSE x.logical[s]
    OBVIOUS
  <1> HIDE DEF L
  <1>9. /\ y \in Calls /\ y.pool = p /\ y.display = d /\ y.logical = L /\ y.speech = x.speech
    BY <1>0, <1>2, <1>3, <1>7 DEF Calls
  <1> HIDE DEF y
  <1>10. Sch!Absent.display = "Absent" /\ Cap!Absent.display = "Absent" /\ Cap!Absent.left = 0
    BY PoolAbsentType DEF Cap!Absent
  <1>11. ASSUME NEW s \in SegIds
         PROVE  Linked(y, s, A, X, U, W)
    <2>1. Linked(x, s, A, X, U, W)
      BY DEF Sound
    <2>2. x.pool.segs[s].display \in {"Absent", "Waiting", "Visible", "Retired"}
      BY <1>0, PoolDisplay
    <2>3. CASE s \in F
      <3>1. x.pool.segs[s].display \notin Alive
        BY <1>1, <2>1, <2>3 DEF Linked, Alive
      <3>2. p.segs[s].display = "Absent"
        BY <1>6, <1>10, <2>2, <2>3, <3>1 DEF Alive
      <3>3. d.segs[s].display = "Absent" /\ y.logical[s] = "None"
        BY <1>4, <1>8, <1>9, <1>10, <2>3
      <3> QED
        BY <1>9, <2>1, <3>2, <3>3 DEF Linked, Alive
    <2>4. CASE s \notin F
      BY <1>4, <1>6, <1>8, <1>9, <2>1, <2>4 DEF Linked
    <2> QED
      BY <2>3, <2>4
  <1>12. Lessens(x.pool, y.pool)
    BY <1>6, <1>9, <1>10 DEF Lessens, Alive
  <1> QED
    BY <1>4, <1>6, <1>9, <1>11, <1>12 DEF Sound, y

-----------------------------------------------------------------------------
(* What the segmenter reports *)

Last == Cardinality(SegIds)

\* A report of x: new ids follow the ones in use, and it is of one kind.
Reported(x, r, m) ==
    /\ m \in allotted..Last /\ r.fresh = allotted + 1..m
    /\ \A s \in r.olds : s \in SegIds /\ x.speech.segs[s].state = "In"
    /\ \A s \in r.revised : s \in SegIds /\ x.speech.segs[s].state = "In"
                            /\ x.speech.segs[s].rev < MaxRevision
    /\ \A s \in r.gone : s \in SegIds /\ x.speech.segs[s].state # "Out"
    /\ r.olds = {} \/ r.revised = {}
    /\ r.gone = {} \/ (r.fresh = {} /\ r.olds = {} /\ r.revised = {})

LEMMA ReportFacts ==
  ASSUME NEW x, NEW r \in Reports(x) \cup {Nothing}, allotted \in 0..Last
  PROVE  \E m : Reported(x, r, m)
  <1>0. allotted \in allotted..Last /\ allotted + 1..allotted = {}
    BY IdsAreFinite, FS_CardinalityType DEF Last
  <1>1. ASSUME r = Nothing PROVE Reported(x, r, allotted)
    BY <1>0, <1>1 DEF Reported, Nothing
  <1>2. ASSUME r.fresh = {}, r.olds = {}, r.gone = {}, NEW s \in WithState(x, "In"),
               r.revised = {s}, x.speech.segs[s].rev < MaxRevision
        PROVE  Reported(x, r, allotted)
    BY <1>0, <1>2 DEF Reported, WithState
  <1>3. ASSUME NEW m \in allotted..Last, r.fresh = allotted + 1..m,
               r.olds \subseteq WithState(x, "In"), r.gone = {}, r.revised = {}
        PROVE  Reported(x, r, m)
    BY <1>3 DEF Reported, WithState
  <1>4. ASSUME r.fresh = {}, r.olds = {}, r.gone \subseteq Kept(x), r.revised = {}
        PROVE  Reported(x, r, allotted)
    BY <1>0, <1>4 DEF Reported, Kept, WithState
  <1>5. r = Nothing \/ r \in Reports(x)
    OBVIOUS
  <1>6. ASSUME r \in Reports(x) PROVE \E m : Reported(x, r, m)
    <2>1. \/ /\ r.fresh = {} /\ r.olds = {} /\ r.gone = {}
             /\ \E s \in WithState(x, "In") : r.revised = {s} /\ x.speech.segs[s].rev < MaxRevision
          \/ /\ \E m \in allotted..Last : r.fresh = allotted + 1..m
             /\ r.olds \subseteq WithState(x, "In") /\ r.gone = {} /\ r.revised = {}
          \/ r.fresh = {} /\ r.olds = {} /\ r.gone \subseteq Kept(x) /\ r.revised = {}
      BY <1>6 DEF Reports, Last
    <2> QED
      BY <2>1, <1>2, <1>3, <1>4
  <1> QED
    BY <1>1, <1>5, <1>6

\* The ids handed out are counted.
LEMMA AllottedCount ==
  ASSUME NEW x, NEW r, NEW m, Reported(x, r, m), allotted \in 0..Last
  PROVE  /\ m \in 0..Last /\ allotted + Cardinality(r.fresh) = m
         /\ 1..allotted \subseteq 1..m /\ r.fresh \subseteq 1..m
         /\ \A s \in r.fresh : s \notin 1..allotted
         /\ 1..m \subseteq SegIds
  <1>1. Last \in Nat /\ SegIds = 1..Last
    BY PipelineAssumption, IdsAreFinite, FS_CardinalityType DEF Last
  <1>2. m \in allotted..Last /\ r.fresh = allotted + 1..m /\ m \in Nat /\ allotted \in Nat
    BY <1>1 DEF Reported
  <1>3. Cardinality(r.fresh) = m - allotted
    <2>1. allotted + 1 \in Int /\ m \in Int
      BY <1>2
    <2>2. Cardinality(allotted + 1..m) = IF allotted + 1 > m THEN 0 ELSE m - (allotted + 1) + 1
      BY <2>1, FS_Interval
    <2> QED
      BY <1>2, <2>2
  <1> QED
    BY <1>1, <1>2, <1>3

LEMMA HeardSound ==
  ASSUME NEW x, NEW r, NEW m, Sound(x, 1..allotted, {}, {}, {}), allotted \in 0..Last,
         Reported(x, r, m)
  PROVE  LET y == Heard(x, r) IN
         /\ Sound(y, 1..m, {}, {}, {}) /\ y.pool = x.pool
         /\ \A s \in SegIds : s \in r.fresh \/ (s \notin r.olds /\ x.speech.segs[s].state # "Out")
                              => y.speech.segs[s].state # "Out"
  <1> DEFINE H == [s \in SegIds |->
                     CASE s \in r.olds -> Unheard
                       [] s \in r.fresh -> [state |-> "In", rev |-> 1, olds |-> r.olds]
                       [] s \in r.revised -> [x.speech.segs[s] EXCEPT !.rev = @ + 1]
                       [] s \in r.gone -> [x.speech.segs[s] EXCEPT !.state = "Gone"]
                       [] OTHER -> x.speech.segs[s]]
             sp == [x.speech EXCEPT !.segs = H, !.mine = @ \cup r.fresh,
                                    !.stopped = @ \/ r.gone # {}]
             y == Heard(x, r)
  <1>0. /\ x \in Calls /\ x.speech \in Speeches /\ x.speech.segs \in [SegIds -> Heards]
        /\ \A s \in SegIds : Linked(x, s, 1..allotted, {}, {}, {})
    BY DEF Sound, Calls, Speeches
  <1>1. /\ m \in 0..Last /\ 1..allotted \subseteq 1..m /\ r.fresh \subseteq 1..m
        /\ \A s \in r.fresh : s \notin 1..allotted
        /\ 1..m \subseteq SegIds
    BY AllottedCount
  <1>2. y = [x EXCEPT !.speech = sp]
    <2>1. y = [x EXCEPT !.speech.segs = H, !.speech.mine = @ \cup r.fresh,
                        !.speech.stopped = @ \/ r.gone # {}]
      BY DEF Heard
    <2> HIDE DEF H, y
    <2> QED
      BY <1>0, <2>1 DEF Calls, Speeches
  <1>3. ASSUME NEW s \in SegIds
        PROVE  /\ H[s] \in Heards
               /\ H[s].state # "Out" => s \in 1..m /\ H[s].rev \in 1..MaxRevision
               /\ s \in r.fresh \/ (s \notin r.olds /\ x.speech.segs[s].state # "Out")
                     => H[s].state # "Out"
    <2> DEFINE h == x.speech.segs[s]
    <2>1. h \in Heards /\ (h.state # "Out" => s \in 1..allotted /\ h.rev \in 1..MaxRevision)
      BY <1>0 DEF Linked
    <2>2. 1 \in 1..MaxRevision /\ 0 \in 0..MaxRevision
      BY LimitsAssumption
    <2>3. s \in r.fresh => s \notin r.olds /\ s \notin r.revised /\ s \notin r.gone
      BY <1>1, <2>1 DEF Reported
    <2>4. CASE s \in r.olds
      <3>1. s \notin r.revised /\ s \notin r.gone /\ s \notin r.fresh
        BY <2>3, <2>4 DEF Reported
      <3>2. H[s] = Unheard
        BY <2>4, <3>1
      <3> QED
        BY <2>2, <2>4, <3>1, <3>2 DEF Unheard, Heards
    <2>5. CASE s \in r.fresh
      <3>1. H[s] = [state |-> "In", rev |-> 1, olds |-> r.olds]
        BY <2>3, <2>5
      <3>2. r.olds \in SUBSET SegIds
        BY DEF Reported
      <3> QED
        BY <1>1, <2>2, <2>5, <3>1, <3>2 DEF Heards
    <2>6. CASE s \in r.revised
      <3>1. s \notin r.olds /\ s \notin r.gone /\ s \notin r.fresh
        BY <2>3, <2>6 DEF Reported
      <3>2. H[s] = [h EXCEPT !.rev = @ + 1]
        BY <2>6, <3>1
      <3>3. h.state = "In" /\ h.rev < MaxRevision
        BY <2>6 DEF Reported
      <3>4. h.rev + 1 \in 1..MaxRevision /\ h.rev + 1 \in 0..MaxRevision
        BY <2>1, <3>3, LimitsAssumption
      <3> QED
        BY <1>1, <2>1, <3>2, <3>3, <3>4 DEF Heards
    <2>7. CASE s \in r.gone
      <3>1. s \notin r.olds /\ s \notin r.revised /\ s \notin r.fresh
        BY <2>3, <2>7 DEF Reported
      <3>2. H[s] = [h EXCEPT !.state = "Gone"]
        BY <2>7, <3>1
      <3>3. h.state # "Out"
        BY <2>7 DEF Reported
      <3> QED
        BY <1>1, <2>1, <3>2, <3>3 DEF Heards
    <2>8. CASE s \notin r.olds /\ s \notin r.revised /\ s \notin r.fresh /\ s \notin r.gone
      <3>1. H[s] = h
        BY <2>8
      <3> QED
        BY <1>1, <2>1, <2>8, <3>1
    <2> QED
      BY <2>4, <2>5, <2>6, <2>7, <2>8
  <1>4. H \in [SegIds -> Heards]
    BY <1>3
  <1> HIDE DEF H
  <1>5. sp \in Speeches /\ sp.segs = H
    BY <1>0, <1>1, <1>4 DEF Speeches
  <1> HIDE DEF sp
  <1>6. /\ y \in Calls /\ y.pool = x.pool /\ y.display = x.display /\ y.logical = x.logical
        /\ y.speech.segs = H
    BY <1>0, <1>2, <1>5 DEF Calls
  <1> HIDE DEF y
  <1>7. \A s \in SegIds : Linked(y, s, 1..m, {}, {}, {})
    BY <1>0, <1>3, <1>6 DEF Linked
  <1>8. /\ Sound(y, 1..m, {}, {}, {}) /\ y.pool = x.pool
        /\ \A s \in SegIds : s \in r.fresh \/ (s \notin r.olds /\ x.speech.segs[s].state # "Out")
                              => y.speech.segs[s].state # "Out"
    BY <1>3, <1>6, <1>7 DEF Sound
  <1> QED
    BY <1>8 DEF y

-----------------------------------------------------------------------------
(* Registration *)

\* Listed only looks at what logical does not have yet.
LEMMA ListedFacts ==
  ASSUME NEW x \in Calls, NEW V
  PROVE  LET y == Listed(x, V) IN
         /\ y \in Calls /\ y.pool = x.pool /\ y.display = x.display /\ y.speech = x.speech
         /\ \A s \in SegIds :
               y.logical[s] = IF s \notin V \/ x.display.segs[s].display = "Absent"
                                 \/ x.logical[s] # "None" THEN x.logical[s]
                              ELSE IF x.display.segs[s].display \in Alive THEN "Waiting" ELSE "Retired"
  <1> DEFINE L == [s \in SegIds |->
                     IF s \notin V \cap Com!Managed(x.display) \/ x.logical[s] # "None" THEN x.logical[s]
                     ELSE IF s \in Com!Live(x.display) THEN "Waiting" ELSE "Retired"]
             y == Listed(x, V)
  <1>1. y = [x EXCEPT !.logical = L]
    BY DEF Listed
  <1>2. L \in [SegIds -> States]
    BY DEF Calls, States
  <1>3. \A s \in SegIds :
               L[s] = IF s \notin V \/ x.display.segs[s].display = "Absent"
                                 \/ x.logical[s] # "None" THEN x.logical[s]
                              ELSE IF x.display.segs[s].display \in Alive THEN "Waiting" ELSE "Retired"
    BY LivesAlive DEF Com!Live, Com!Managed, Com!With
  <1> HIDE DEF L, y
  <1>4. /\ y \in Calls /\ y.pool = x.pool /\ y.display = x.display /\ y.speech = x.speech
        /\ y.logical = L
    BY <1>1, <1>2 DEF Calls
  <1> QED
    BY <1>3, <1>4 DEF y

\* The composer refused: nothing has changed there, whatever the scheduler is told.
LEMMA ListedNothing ==
  ASSUME NEW x, NEW A, NEW U, NEW W, Sound(x, A, {}, U, W), NEW V
  PROVE  LET y == Listed(x, V) IN Sound(y, A, {}, U, W) /\ y.pool = x.pool
  <1> DEFINE y == Listed(x, V)
  <1>1. /\ y \in Calls /\ y.pool = x.pool /\ y.display = x.display /\ y.speech = x.speech
        /\ \A s \in SegIds :
               y.logical[s] = IF s \notin V \/ x.display.segs[s].display = "Absent"
                                 \/ x.logical[s] # "None" THEN x.logical[s]
                              ELSE IF x.display.segs[s].display \in Alive THEN "Waiting" ELSE "Retired"
    BY ListedFacts DEF Sound
  <1> HIDE DEF y
  <1>2. \A s \in SegIds : y.logical[s] = x.logical[s]
    BY <1>1 DEF Sound, Linked
  <1>3. \A s \in SegIds : Linked(y, s, A, {}, U, W)
    BY <1>1, <1>2 DEF Sound, Linked
  <1>4. Sound(y, A, {}, U, W) /\ y.pool = x.pool
    BY <1>1, <1>3 DEF Sound
  <1> QED
    BY <1>4 DEF y

\* Those the scheduler may yet be told of, when it knows all that live.
LEMMA ToBeScheduled ==
  ASSUME NEW x, NEW A, Sound(x, A, {}, {}, {}), NEW V,
         \A s \in V : x.speech.segs[s].state # "Out"
  PROVE  Sound(x, A, {}, V, V)
  <1>1. \A s \in SegIds : Linked(x, s, A, {}, V, V)
    BY DEF Sound, Linked, Alive
  <1> QED
    BY <1>1 DEF Sound

LEMMA NoRoomSound ==
  ASSUME NEW x, NEW A, Sound(x, A, {}, {}, {}), NEW V,
         \A s \in V : x.speech.segs[s].state # "Out"
  PROVE  LET y == NoRoom(x, V) IN Sound(y, A, {}, V, V) /\ Lessens(x.pool, y.pool)
  <1> DEFINE p == Sch!RetireSegments(x.pool, V)
             z == [x EXCEPT !.pool = p]
             y == NoRoom(x, V)
  <1>0. x \in Calls /\ GoodPool(x.pool) /\ x.pool \in Pools
    BY DEF Sound, GoodPool
  <1>1. /\ GoodPool(p) /\ Fades(x.pool, p)
        /\ \A s \in SegIds : p.segs[s] = IF s \in V /\ x.pool.segs[s].display \in Alive
                                         THEN Sch!Tombstone ELSE x.pool.segs[s]
    BY <1>0, RetireGood
  <1>2. y = Recorded(z, V, {})
    BY DEF NoRoom
  <1> HIDE DEF p
  <1>3. /\ z \in Calls /\ z.pool = p /\ z.display = x.display /\ z.speech = x.speech
        /\ z.logical = x.logical
    BY <1>0, <1>1, PoolSet DEF GoodPool
  <1> HIDE DEF z, y
  <1>4. /\ y \in Calls /\ y.pool = p /\ y.display = x.display
        /\ \A s \in SegIds :
              /\ y.speech.segs[s].rev = x.speech.segs[s].rev
              /\ y.speech.segs[s].state = "Out" <=> x.speech.segs[s].state = "Out"
              /\ IF s \in V /\ x.logical[s] \in Alive
                 THEN y.logical[s] \in {"Retired", "Completed"}
                 ELSE y.logical[s] = x.logical[s]
    BY <1>2, <1>3, RecordedFacts
  <1>5. ASSUME NEW s \in SegIds
        PROVE  Linked(y, s, A, {}, V, V)
    <2>1. Linked(x, s, A, {}, {}, {})
      BY DEF Sound
    <2>2. /\ y.speech.segs[s].rev = x.speech.segs[s].rev
          /\ y.speech.segs[s].state = "Out" <=> x.speech.segs[s].state = "Out"
          /\ IF s \in V /\ x.logical[s] \in Alive
             THEN y.logical[s] \in {"Retired", "Completed"}
             ELSE y.logical[s] = x.logical[s]
      BY <1>4
    <2>3. p.segs[s] = IF s \in V /\ x.pool.segs[s].display \in Alive
                      THEN Sch!Tombstone ELSE x.pool.segs[s]
      BY <1>1
    <2>4. Sch!Tombstone.display = "Retired"
      BY PoolTombstoneType
    <2>5. CASE s \in V
      <3>1. x.speech.segs[s].state # "Out"
        BY <2>5
      <3> QED
        BY <1>4, <2>1, <2>2, <2>3, <2>4, <2>5, <3>1 DEF Linked, Alive
    <2>6. CASE s \notin V
      BY <1>4, <2>1, <2>2, <2>3, <2>6 DEF Linked, Alive
    <2> QED
      BY <2>5, <2>6
  <1>6. Lessens(x.pool, p)
    BY <1>1, FadesLessens
  <1>7. Sound(y, A, {}, V, V) /\ Lessens(x.pool, y.pool)
    BY <1>1, <1>4, <1>5, <1>6 DEF Sound
  <1> QED
    BY <1>7 DEF y

\* The composer took them: those new to it are new to the other two.
LEMMA ListedJoined ==
  ASSUME NEW x, NEW A, Sound(x, A, {}, {}, {}), NEW V,
         \A s \in V : s \in SegIds /\ x.speech.segs[s].state # "Out",
         NEW fresh, fresh = {s \in V : x.display.segs[s].display = "Absent"},
         NEW d, Cap!Consistent(d), Cap!Joined(x.display, d, fresh)
  PROVE  LET y == Listed(Back(x, d), V) IN Sound(y, A, {}, V, V) /\ Lessens(x.pool, y.pool)
  <1> DEFINE b == Back(x, d)
             y == Listed(b, V)
  <1>0. x \in Calls /\ GoodPool(x.pool) /\ d \in Boxes /\ x.display \in Boxes /\ x.pool \in Pools
    BY ConsistentBox DEF Sound, GoodPool, Calls
  <1>1. b \in Calls /\ GoodPool(b.pool) /\ Carried(x, b, d)
    BY <1>0, BackCarries
  <1> HIDE DEF b
  <1>2. /\ y \in Calls /\ y.pool = b.pool /\ y.display = b.display /\ y.speech = b.speech
        /\ \A s \in SegIds :
               y.logical[s] = IF s \notin V \/ b.display.segs[s].display = "Absent"
                                 \/ b.logical[s] # "None" THEN b.logical[s]
                              ELSE IF b.display.segs[s].display \in Alive THEN "Waiting" ELSE "Retired"
    BY <1>1, ListedFacts
  <1> HIDE DEF y
  <1>3. b.display = d
    BY <1>1 DEF Carried
  <1>4. Sch!Tombstone.display = "Retired"
    BY PoolTombstoneType
  <1>5. ASSUME NEW s \in SegIds
        PROVE  Linked(y, s, A, {}, V, V)
    <2> DEFINE D == x.display.segs[s].display
               E == d.segs[s].display
               P == x.pool.segs[s]
    <2>1. Linked(x, s, A, {}, {}, {})
      BY DEF Sound
    <2>2. /\ D \in {"Absent", "Waiting", "Visible", "Retired"}
          /\ E \in {"Absent", "Waiting", "Visible", "Retired"}
          /\ x.display.segs[s].left \in Nat /\ d.segs[s].left \in Nat
          /\ P.display \in {"Absent", "Waiting", "Visible", "Retired"}
      BY <1>0, BoxFields, PoolDisplay
    <2>3. /\ y.speech.segs[s].rev = x.speech.segs[s].rev
          /\ y.speech.segs[s].state = "Out" <=> x.speech.segs[s].state = "Out"
          /\ IF E = "Retired" /\ D # "Retired"
             THEN /\ y.pool.segs[s] = IF P.display \in Alive THEN Sch!Tombstone ELSE P
                  /\ IF x.logical[s] \in Alive THEN b.logical[s] \in {"Retired", "Completed"}
                     ELSE b.logical[s] = x.logical[s]
             ELSE y.pool.segs[s] = P /\ b.logical[s] = x.logical[s]
      BY <1>1, <1>2 DEF Carried
    <2>4. y.logical[s] = IF s \notin V \/ E = "Absent" \/ b.logical[s] # "None" THEN b.logical[s]
                         ELSE IF E \in Alive THEN "Waiting" ELSE "Retired"
      BY <1>2, <1>3
    <2>5. CASE s \in fresh
      <3>1. s \in V /\ D = "Absent" /\ x.speech.segs[s].state # "Out"
        BY <2>5
      <3>2. P.display = "Absent" /\ x.logical[s] = "None"
        BY <2>1, <2>2, <3>1 DEF Linked, Alive
      <3>3. E = "Retired" \/ (E = "Waiting" /\ d.segs[s].left = 0)
        BY <2>5 DEF Cap!Joined
      <3>4. y.pool.segs[s] = P /\ b.logical[s] = "None"
        BY <2>3, <3>2 DEF Alive
      <3>5. y.logical[s] = IF E = "Waiting" THEN "Waiting" ELSE "Retired"
        BY <2>4, <3>1, <3>3, <3>4 DEF Alive
      <3> QED
        BY <1>2, <1>3, <2>1, <2>3, <3>1, <3>2, <3>3, <3>4, <3>5 DEF Linked, Alive
    <2>6. CASE s \notin fresh
      <3>1. \/ D \in Alive /\ E = "Retired"
            \/ E = D /\ (d.segs[s].left > 0 => x.display.segs[s].left > 0)
        BY <2>6, LivesAlive DEF Cap!Joined
      <3>2. s \in V => D # "Absent" /\ x.speech.segs[s].state # "Out"
        BY <2>6
      <3>3. y.logical[s] = b.logical[s]
        <4>1. s \in V => b.logical[s] # "None"
          BY <2>1, <2>3, <3>2 DEF Linked
        <4> QED
          BY <2>4, <4>1
      <3>4. CASE E = "Retired" /\ D # "Retired"
        BY <1>2, <1>3, <1>4, <2>1, <2>2, <2>3, <3>1, <3>2, <3>3, <3>4 DEF Linked, Alive
      <3>5. CASE E = D
        BY <1>2, <1>3, <2>1, <2>2, <2>3, <3>1, <3>2, <3>3, <3>5 DEF Linked, Alive
      <3> QED
        BY <3>1, <3>4, <3>5 DEF Alive
    <2> QED
      BY <2>5, <2>6
  <1>6. Lessens(x.pool, y.pool)
    BY <1>1, <1>2, <1>4 DEF Carried, Lessens, Alive
  <1>7. Sound(y, A, {}, V, V)
    BY <1>1, <1>2, <1>3, <1>5 DEF Sound
  <1> QED
    BY <1>6, <1>7 DEF y, b

\* register_segments of the composer, and the entries of logical_ for what it took.
LEMMA RegistersSound ==
  ASSUME NEW x, NEW A, Sound(x, A, {}, {}, {}), NEW V \in SUBSET SegIds,
         \A s \in V : x.speech.segs[s].state # "Out", NEW final \in BOOLEAN,
         NEW fresh, fresh = {s \in V : x.display.segs[s].display = "Absent"}
  PROVE  LET y == Listed(Registers(x, V, fresh, final), V) IN
         Sound(y, A, {}, V, V) /\ Lessens(x.pool, y.pool)
  <1> DEFINE olds == [s \in SegIds |->
                         IF x.pool.segs[s].display = "Absent" THEN x.speech.segs[s].olds ELSE {}]
             revs == [s \in SegIds |-> x.speech.segs[s].rev]
             d == Com!Registered(x.display, fresh, olds, V \ fresh, revs, final)
             out == Cap!Refused(x.display, fresh, V \ fresh) \/ Cap!Full(x.display, fresh)
             z == Registers(x, V, fresh, final)
  <1>0. /\ x \in Calls /\ Cap!Consistent(x.display)
        /\ x.speech.segs \in [SegIds -> Heards]
    BY DEF Sound, Calls, Speeches
  <1>1. olds \in [SegIds -> SUBSET SegIds] /\ \A s \in SegIds : revs[s] \in 0..MaxRevision
    BY <1>0 DEF Heards
  <1>2. Composes(x, V, fresh, final) = Back(x, d)
    BY DEF Composes
  <1>3. fresh \in SUBSET SegIds /\ V \ fresh \in SUBSET SegIds
        /\ \A s \in fresh : x.display.segs[s].display = "Absent"
    OBVIOUS
  <1> HIDE DEF olds, revs
  <1>4. /\ Cap!Consistent(d) /\ (out => d = x.display)
        /\ ~out => Cap!Joined(x.display, d, fresh)
    <2> DEFINE old == V \ fresh
               D == x.display
               e == Cap!Registered(D, fresh, olds, old, revs, final)
    <2>1. d = e
      BY SameRegistered
    <2>2. Cap!Consistent(D) /\ fresh \in SUBSET SegIds /\ old \in SUBSET SegIds
      BY <1>0, <1>3
    <2>3. \A s \in fresh : D.segs[s].display = "Absent"
      BY <1>3
    <2>4. out <=> Cap!Refused(D, fresh, old) \/ Cap!Full(D, fresh)
      OBVIOUS
    <2> HIDE DEF old, D, d, out
    <2>5. /\ Cap!Consistent(e)
          /\ Cap!Refused(D, fresh, old) \/ Cap!Full(D, fresh) => e = D
          /\ ~(Cap!Refused(D, fresh, old) \/ Cap!Full(D, fresh)) => Cap!Joined(D, e, fresh)
      BY <1>1, <2>2, <2>3, Cap!RegisteredConsistent, CapAssumptions
    <2> HIDE DEF e
    <2> QED
      BY <2>1, <2>4, <2>5 DEF D
  <1>5. z = IF ~Cap!Refused(x.display, fresh, V \ fresh) /\ Cap!Full(x.display, fresh)
            THEN NoRoom(Back(x, d), V) ELSE Back(x, d)
    BY <1>2, SameRefused, SameFull DEF Registers
  <1> HIDE DEF d, z
  <1>6. CASE out
    <2>1. Back(x, d) = x
      BY <1>4, <1>6 DEF Back
    <2>2. Sound(x, A, {}, V, V)
      BY ToBeScheduled
    <2>3. Sound(NoRoom(x, V), A, {}, V, V) /\ Lessens(x.pool, NoRoom(x, V).pool)
      BY NoRoomSound
    <2>4. z = NoRoom(x, V) \/ z = x
      BY <1>5, <2>1
    <2>5. Sound(z, A, {}, V, V) /\ Lessens(x.pool, z.pool)
      BY <2>2, <2>3, <2>4, WithdrawsItself DEF Withdraws
    <2>6. Sound(Listed(z, V), A, {}, V, V) /\ Listed(z, V).pool = z.pool
      BY <2>5, ListedNothing
    <2> QED
      BY <2>5, <2>6 DEF z
  <1>7. CASE ~out
    <2>1. z = Back(x, d)
      BY <1>5, <1>7
    <2>2. Sound(Listed(Back(x, d), V), A, {}, V, V) /\ Lessens(x.pool, Listed(Back(x, d), V).pool)
      BY <1>3, <1>4, <1>7, ListedJoined
    <2> QED
      BY <2>1, <2>2 DEF z
  <1> QED
    BY <1>6, <1>7

-----------------------------------------------------------------------------
(* The scheduler is told of what the composer took *)

LEMMA SoundWider ==
  ASSUME NEW x, NEW A, NEW X, NEW U, NEW W, Sound(x, A, X, U, W), NEW V, NEW Z,
         \A s \in SegIds : s \in U => s \in V, \A s \in SegIds : s \in Z => s \in W
  PROVE  Sound(x, A, X, V, Z)
  <1>1. \A s \in SegIds : Linked(x, s, A, X, V, Z)
    BY DEF Sound, Linked
  <1> QED
    BY <1>1 DEF Sound

\* What the scheduler makes of a segment it does not refuse.
LEMMA RegisteredInGood ==
  ASSUME NEW t, GoodPool(t), NEW s \in SegIds, NEW new, new.rev \in 1..MaxRevision,
         generation \in 0..MaxGeneration, generation > 0, ~RefusedIn(t, s)
  PROVE  GoodPool(RegisteredIn(t, s, new)) /\ Takes(t, RegisteredIn(t, s, new), s)
  <1> DEFINE seg == [t.segs[s] EXCEPT !.order = Order(s)]
             olds == IF s \in Sch!Live(t) THEN {} ELSE new.olds
             R == Sch!Registered(t, s, new.rev, Order(s), olds)
  <1>1. t.segs[s].display # "Retired" /\ t.segs[s] \in Sch!Segments
    BY GoodFields DEF RefusedIn
  <1>2. CASE s \in Sch!Live(t) /\ new.rev = t.segs[s].rev
    <2>1. RegisteredIn(t, s, new) = Sch!SetSegment(t, s, seg)
      BY <1>2 DEF RegisteredIn
    <2>2. /\ seg \in Sch!Segments /\ seg.display = t.segs[s].display /\ seg.age = t.segs[s].age
          /\ seg.text = t.segs[s].text /\ seg.rev = t.segs[s].rev /\ seg.att = t.segs[s].att
      BY <1>1 DEF Sch!Segments
    <2> HIDE DEF seg
    <2>3. GoodPool(Sch!SetSegment(t, s, seg)) /\ Stays(t, Sch!SetSegment(t, s, seg))
      BY <2>2, SameJobGood
    <2>4. t.segs[s].display \in Alive
      BY <1>2, PoolLive
    <2> QED
      BY <2>1, <2>3, <2>4 DEF Stays, Takes
  <1>3. CASE ~(s \in Sch!Live(t) /\ new.rev = t.segs[s].rev)
    <2>1. RegisteredIn(t, s, new) = Only(R)
      BY <1>3 DEF RegisteredIn
    <2>2. Order(s) \in {Order(u) : u \in SegIds}
      OBVIOUS
    <2> HIDE DEF olds
    <2>3. R # {} /\ \A e \in R : GoodPool(e) /\ Takes(t, e, s)
      BY <1>1, <2>2, RegisteredGood
    <2> HIDE DEF R
    <2> QED
      BY <2>1, <2>3, OneOf
  <1> QED
    BY <1>2, <1>3

LEMMA ScheduledSound ==
  ASSUME NEW x, NEW A, NEW U, NEW W, Sound(x, A, {}, U, W), NEW s \in SegIds, s \in W,
         generation \in 0..MaxGeneration, generation > 0
  PROVE  Sound(Scheduled(x, s), A, {}, U \ {s}, W)
  <1> DEFINE t == Sch!TickedPool(x.pool)
             e == RegisteredIn(t, s, x.speech.segs[s])
             f == Forward(x, e, "SegmentLimit")
             y == Scheduled(x, s)
  <1>0. x \in Calls /\ GoodPool(x.pool) /\ \A u \in SegIds : Linked(x, u, A, {}, U, W)
    BY DEF Sound
  <1>1. CASE s \notin Com!Live(x.display)
    <2>1. y = x
      BY <1>1 DEF Scheduled
    <2>2. x.display.segs[s].display \notin Alive
      BY <1>1, LivesAlive DEF Com!Live
    <2>3. \A u \in SegIds : Linked(x, u, A, {}, U \ {s}, W)
      BY <1>0, <2>2 DEF Linked
    <2> QED
      BY <2>1, <2>3 DEF Sound
  <1>2. CASE s \in Com!Live(x.display)
    <2>1. y = Told(f, IF RefusedIn(t, s) THEN {s} ELSE {}, "SegmentLimit")
      BY <1>2 DEF Scheduled, ScheduledIn
    <2>2. GoodPool(t) /\ Fades(x.pool, t)
      BY <1>0, TickedGood
    <2> HIDE DEF t
    <2>3. CASE RefusedIn(t, s)
      <3>2. t.segs[s].display \notin Alive
        BY <2>3 DEF RefusedIn, Alive
      <3>0. s \notin Sch!Live(t)
        BY <3>2, PoolLive
      <3>1. e = t /\ y = Told(f, {s}, "SegmentLimit")
        <4>1. e = t
          BY <2>3, <3>0 DEF RegisteredIn
        <4> HIDE DEF f, y
        <4> QED
          BY <2>1, <2>3, <4>1
      <3>3. Sound(f, A, {}, U, W) /\ Lessens(t, f.pool)
        BY <2>2, <3>1, ForwardSound
      <3> HIDE DEF f
      <3>4. \A u \in {s} \cap SegIds : f.pool.segs[u].display \notin Alive
        BY <3>2, <3>3 DEF Lessens
      <3> QED
        BY <3>1, <3>3, <3>4, ToldSound
    <2>4. CASE ~RefusedIn(t, s)
      <3>1. x.speech.segs[s].rev \in 1..MaxRevision /\ x.display.segs[s].display \in Alive
        BY <1>0, <1>2, LivesAlive DEF Linked, Com!Live
      <3>2. GoodPool(e) /\ Takes(t, e, s) /\ t.segs[s].display # "Retired"
        BY <2>2, <2>4, <3>1, RegisteredInGood DEF RefusedIn
      <3>3. y = f
        BY <2>1, <2>4 DEF Told
      <3> DEFINE z == [x EXCEPT !.pool = e]
                 N == GivenUp(x.pool, e)
                 V == (U \ {s}) \cup N
      <3> HIDE DEF e
      <3>4. /\ z \in Calls /\ z.pool = e /\ z.display = x.display /\ z.speech = x.speech
            /\ z.logical = x.logical
        BY <1>0, <3>2, PoolSet DEF GoodPool
      <3>5. \A u \in SegIds : u \in N <=>
               e.segs[u].display = "Retired" /\ x.pool.segs[u].display # "Retired"
        BY GivenUpFacts
      <3> HIDE DEF N
      <3>6. ASSUME NEW u \in SegIds
            PROVE  Linked(z, u, A, {}, V, W)
        <4>1. Linked(x, u, A, {}, U, W)
          BY <1>0
        <4>2. \/ t.segs[u].display = "Retired" /\ x.pool.segs[u].display \in Alive
              \/ /\ t.segs[u].display = x.pool.segs[u].display
                 /\ t.segs[u].text = x.pool.segs[u].text
          BY <2>2 DEF Fades
        <4>3. CASE u # s
          <5>1. \/ e.segs[u].display = "Retired" /\ t.segs[u].display \in Alive
                \/ /\ e.segs[u].display = t.segs[u].display /\ e.segs[u].text = t.segs[u].text
            BY <3>2, <4>3 DEF Takes
          <5>2. \/ e.segs[u].display = "Retired" /\ x.pool.segs[u].display \in Alive
                \/ /\ e.segs[u].display = x.pool.segs[u].display
                   /\ e.segs[u].text = x.pool.segs[u].text
            BY <4>2, <5>1 DEF Alive
          <5>3. u \in N <=> e.segs[u].display = "Retired" /\ x.pool.segs[u].display # "Retired"
            BY <3>5
          <5> QED
            BY <3>4, <4>1, <4>3, <5>2, <5>3 DEF Linked, Alive
        <4>4. CASE u = s
          <5>1. t.segs[s].display = x.pool.segs[s].display /\ t.segs[s].text = x.pool.segs[s].text
            BY <3>2, <4>2, <4>4
          <5>2. \/ e.segs[s].display = "Retired"
                \/ t.segs[s].display = "Absent" /\ e.segs[s].display = "Waiting"
                \/ /\ t.segs[s].display \in Alive /\ e.segs[s].display = t.segs[s].display
                   /\ e.segs[s].text = t.segs[s].text
            BY <3>2 DEF Takes
          <5>3. s \in N <=> e.segs[s].display = "Retired"
            BY <3>2, <3>5, <5>1
          <5> QED
            BY <3>1, <3>4, <4>1, <4>4, <5>1, <5>2, <5>3 DEF Linked, Alive
        <4> QED
          BY <4>3, <4>4
      <3>7. Sound(z, A, {}, V, W)
        BY <1>0, <3>2, <3>4, <3>6 DEF Sound
      <3>8. Sound(f, A, {}, V \ N, W)
        BY <3>4, <3>7, ForwardFrom DEF N
      <3>9. Sound(f, A, {}, U \ {s}, W)
        BY <3>8, SoundWider
      <3> QED
        BY <3>3, <3>9
    <2> QED
      BY <2>3, <2>4
  <1> QED
    BY <1>1, <1>2

\* The recursive function of ScheduledAll has a value.
LEMMA ScheduledAllFacts ==
  ASSUME NEW x, NEW V
  PROVE  \E f : /\ ScheduledAll(x, V) = f[Last] /\ f[0] = x
                /\ \A n \in 1..Last :
                      f[n] = IF n \in V THEN Scheduled(f[n - 1], n) ELSE f[n - 1]
  <1> DEFINE Next1(y, n) == IF n \in V THEN Scheduled(y, n) ELSE y
             Body(f) == [n \in 0..Last |-> IF n = 0 THEN x
                                           ELSE IF n \in V THEN Scheduled(f[n - 1], n) ELSE f[n - 1]]
             Upto(f, m) == f[0] = x /\ \A n \in 1..m : f[n] = Next1(f[n - 1], n)
             Bad == {m \in 0..Last : ~ \E f : Upto(f, m)}
  <1>0. Last \in Nat
    BY IdsAreFinite, FS_CardinalityType DEF Last
  <1>1. Bad = {}
    <2>1. SUFFICES ASSUME Bad # {} PROVE FALSE
      OBVIOUS
    <2>2. PICK m \in Bad : \A n \in Bad : m <= n
      <3>1. Bad \in SUBSET Nat
        BY <1>0
      <3> HIDE DEF Bad
      <3> QED
        BY <2>1, <3>1, LeastNumber
    <2>3. m \in 0..Last /\ ~ \E f : Upto(f, m)
      BY <2>2
    <2>4. m # 0
      <3> DEFINE f == [n \in {0} |-> x]
      <3>1. f[0] = x /\ \A n \in 1..0 : f[n] = Next1(f[n - 1], n)
        OBVIOUS
      <3>2. Upto(f, 0)
        BY <3>1
      <3> QED
        BY <2>3, <3>2
    <2>5. m - 1 \in 0..Last /\ m - 1 < m /\ m - 1 \in Nat /\ m \in Nat
      BY <1>0, <2>3, <2>4
    <2>6. m - 1 \notin Bad
      BY <2>2, <2>5
    <2>7. PICK f : Upto(f, m - 1)
      BY <2>5, <2>6
    <2> DEFINE g == [n \in 0..m |-> IF n = m THEN Next1(f[m - 1], m) ELSE f[n]]
    <2>8. g[0] = x
      BY <2>4, <2>5, <2>7
    <2>9. ASSUME NEW n \in 1..m
          PROVE  g[n] = Next1(g[n - 1], n)
      <3>1. n \in 0..m /\ n - 1 \in 0..m /\ n - 1 # m
        BY <2>5
      <3>2. g[n - 1] = f[n - 1]
        BY <3>1
      <3>3. CASE n = m
        BY <3>1, <3>2, <3>3
      <3>4. CASE n # m
        <4>1. n \in 1..m - 1
          BY <2>5, <3>4
        <4>2. f[n] = Next1(f[n - 1], n)
          BY <2>7, <4>1
        <4>3. g[n] = f[n]
          BY <3>1, <3>4
        <4> HIDE DEF g, Next1
        <4> QED
          BY <3>2, <4>2, <4>3
      <3> QED
        BY <3>3, <3>4
    <2>10. Upto(g, m)
      <3> HIDE DEF g, Next1
      <3> QED
        BY <2>8, <2>9
    <2> QED
      BY <2>3, <2>10
  <1>2. \E f : f = Body(f)
    <2>1. Last \notin Bad /\ Last \in 0..Last
      BY <1>0, <1>1
    <2>2. PICK f : Upto(f, Last)
      BY <2>1
    <2> DEFINE g == [n \in 0..Last |-> f[n]]
    <2>3. ASSUME NEW n \in 0..Last
          PROVE  g[n] = Body(g)[n]
      <3>1. CASE n = 0
        BY <2>2, <3>1
      <3>2. CASE n # 0
        <4>1. n \in 1..Last /\ n - 1 \in 0..Last
          BY <1>0, <3>2
        <4>2. f[n] = Next1(f[n - 1], n) /\ g[n] = f[n] /\ g[n - 1] = f[n - 1]
          BY <2>2, <4>1
        <4>3. Body(g)[n] = Next1(g[n - 1], n)
          BY <3>2
        <4> QED
          BY <4>2, <4>3
      <3> QED
        BY <3>1, <3>2
    <2>4. g = Body(g)
      <3> DEFINE b == Body(g)
      <3>1. b = [n \in 0..Last |-> b[n]] /\ g = [n \in 0..Last |-> g[n]]
        OBVIOUS
      <3>2. \A n \in 0..Last : g[n] = b[n]
        BY <2>3
      <3> HIDE DEF g, b
      <3>3. g = b
        BY <3>1, <3>2
      <3> QED
        BY <3>3 DEF b
    <2> QED
      BY <2>4
  <1> DEFINE after == CHOOSE f : f = Body(f)
  <1>3. after = Body(after)
    BY <1>2
  <1>4. ScheduledAll(x, V) = after[Last]
    BY DEF ScheduledAll, Last
  <1> HIDE DEF after
  <1>5. after[0] = x
    <2>1. 0 \in 0..Last
      BY <1>0
    <2>2. Body(after)[0] = x
      BY <2>1
    <2> HIDE DEF Body
    <2> QED
      BY <1>3, <2>2
  <1>6. ASSUME NEW n \in 1..Last
        PROVE  after[n] = IF n \in V THEN Scheduled(after[n - 1], n) ELSE after[n - 1]
    <2>1. n \in 0..Last /\ n # 0
      BY <1>0
    <2>2. Body(after)[n] = IF n \in V THEN Scheduled(after[n - 1], n) ELSE after[n - 1]
      BY <2>1
    <2> HIDE DEF Body
    <2> QED
      BY <1>3, <2>2
  <1> QED
    BY <1>4, <1>5, <1>6

LEMMA OneLess ==
  ASSUME NEW m \in Nat, m # 0, NEW V
  PROVE  (V \ 1..(m - 1)) \ {m} = V \ 1..m
  <1>1. 1..m = (1..(m - 1)) \cup {m}
    OBVIOUS
  <1> DEFINE a == 1..m
             b == 1..(m - 1)
  <1>2. a = b \cup {m}
    BY <1>1
  <1> HIDE DEF a, b
  <1>3. (V \ b) \ {m} = V \ a
    BY <1>2
  <1> QED
    BY <1>3 DEF a, b

\* One after the other, all of V are scheduled.
LEMMA ScheduledAllSound ==
  ASSUME NEW x, NEW A, NEW V \in SUBSET SegIds, Sound(x, A, {}, V, V),
         generation \in 0..MaxGeneration, generation > 0
  PROVE  Sound(ScheduledAll(x, V), A, {}, {}, V)
  <1>0. Last \in Nat /\ SegIds = 1..Last
    BY PipelineAssumption, IdsAreFinite, FS_CardinalityType DEF Last
  <1>1. PICK f : /\ ScheduledAll(x, V) = f[Last] /\ f[0] = x
                 /\ \A n \in 1..Last :
                       f[n] = IF n \in V THEN Scheduled(f[n - 1], n) ELSE f[n - 1]
    BY ScheduledAllFacts
  <1> DEFINE Left(n) == V \ 1..n
             Done(n) == Sound(f[n], A, {}, Left(n), V)
             Bad == {n \in 0..Last : ~Done(n)}
  <1>2. Bad = {}
    <2>1. SUFFICES ASSUME Bad # {} PROVE FALSE
      OBVIOUS
    <2>2. PICK m \in Bad : \A n \in Bad : m <= n
      <3>1. Bad \in SUBSET Nat
        BY <1>0
      <3> HIDE DEF Bad
      <3> QED
        BY <2>1, <3>1, LeastNumber
    <2>3. m \in 0..Last /\ ~Sound(f[m], A, {}, Left(m), V)
      BY <2>2
    <2>4. m # 0
      <3>1. Left(0) = V
        OBVIOUS
      <3> HIDE DEF Left
      <3> QED
        BY <1>1, <2>3, <3>1
    <2>5. m - 1 \in 0..Last /\ m - 1 < m /\ m \in 1..Last /\ m \in SegIds
      BY <1>0, <2>3, <2>4
    <2>6. m - 1 \notin Bad
      <3> HIDE DEF Bad
      <3> QED
        BY <1>0, <2>2, <2>5
    <2>7. Sound(f[m - 1], A, {}, Left(m - 1), V)
      <3> HIDE DEF Done
      <3>1. Done(m - 1)
        BY <2>5, <2>6
      <3> QED
        BY <3>1 DEF Done
    <2>8. Left(m - 1) \ {m} = Left(m)
      BY <1>0, <2>3, <2>4, OneLess
    <2>9. m \notin V => Left(m - 1) = Left(m)
      BY <2>8
    <2>10. f[m] = IF m \in V THEN Scheduled(f[m - 1], m) ELSE f[m - 1]
      BY <1>1, <2>5
    <2> HIDE DEF Left, Bad, Done
    <2>11. Sound(f[m], A, {}, Left(m), V)
      <3>1. CASE m \in V
        <4>1. Sound(Scheduled(f[m - 1], m), A, {}, Left(m - 1) \ {m}, V)
          BY <2>5, <2>7, <3>1, ScheduledSound
        <4> QED
          BY <2>8, <2>10, <3>1, <4>1
      <3>2. CASE m \notin V
        BY <2>7, <2>9, <2>10, <3>2
      <3> QED
        BY <3>1, <3>2
    <2> QED
      BY <2>3, <2>11 DEF Done
  <1>3. Last \notin Bad /\ Last \in 0..Last
    <2> HIDE DEF Bad
    <2> QED
      BY <1>0, <1>2
  <1>4. Sound(f[Last], A, {}, Left(Last), V)
    <2> HIDE DEF Done
    <2>1. Done(Last)
      BY <1>3
    <2> QED
      BY <2>1 DEF Done
  <1>5. Left(Last) = {}
    BY <1>0
  <1> HIDE DEF Left, Done
  <1> QED
    BY <1>1, <1>4, <1>5

-----------------------------------------------------------------------------
(* apply *)

\* What a report loses is retired by the scheduler, and everywhere else.
LEMMA LosesSound ==
  ASSUME NEW x, NEW A, NEW W, Sound(x, A, {}, {}, W), NEW lost, NEW reason
  PROVE  Sound(Loses(x, lost, reason), A, {}, {}, W)
  <1> DEFINE p == Sch!RetireSegments(x.pool, lost)
             z == [x EXCEPT !.pool = p]
             U == GivenUp(x.pool, p)
             none == {}
  <1>1. /\ GoodPool(p)
        /\ \A s \in SegIds : p.segs[s] = IF s \in lost /\ x.pool.segs[s].display \in Alive
                                         THEN Sch!Tombstone ELSE x.pool.segs[s]
    BY RetireGood DEF Sound
  <1>t. Sch!Tombstone.display = "Retired"
    BY PoolTombstoneType
  <1>0. Loses(x, lost, reason) = Told(z, lost, reason)
    BY DEF Loses
  <1>u. U \subseteq lost
    <2>1. \A s \in U : s \in SegIds /\ p.segs[s].display = "Retired"
                       /\ x.pool.segs[s].display # "Retired"
      BY GivenUpFacts
    <2> HIDE DEF U, p
    <2> QED
      BY <1>1, <2>1
  <1> HIDE DEF p, none
  <1>2. Fades(x.pool, p)
    BY <1>1, <1>t DEF Fades
  <1>3. Sound(z, A, none, none \cup U, W) /\ z.pool = p
    BY <1>1, <1>2, PoolFadesSound DEF none
  <1> HIDE DEF z, U
  <1>4. \A s \in lost \cap SegIds : z.pool.segs[s].display \notin Alive
    BY <1>1, <1>3, <1>t DEF Alive
  <1>5. Sound(Told(z, lost, reason), A, none, (none \cup U) \ lost, W)
    BY <1>3, <1>4, ToldSound
  <1>6. (none \cup U) \ lost = {}
    BY <1>u DEF none
  <1> QED
    BY <1>0, <1>5, <1>6 DEF none

\* apply, from the report on.
LEMMA ApplyToSound ==
  ASSUME NEW x, NEW A, Sound(x, A, {}, {}, {}), NEW V \in SUBSET SegIds,
         \A s \in V : x.speech.segs[s].state # "Out", NEW final \in BOOLEAN, NEW r,
         generation \in 0..MaxGeneration, generation > 0, used \in SegIds \cup {0}
  PROVE  LET a == ApplyTo(x, V, r, final) IN
         Sound(a.after, A, {}, {}, {}) /\ a.used \in SegIds \cup {0}
  <1> DEFINE fresh == {s \in V : x.display.segs[s].display = "Absent"}
             y == Listed(Registers(x, V, fresh, final), V)
             z == ScheduledAll(y, V)
             lost == r.olds \cup r.gone
             why == IF r.gone = {} THEN "Replaced" ELSE "ReconcileAmbiguous"
             w == Loses(z, lost, why)
             g == Com!UsedUp(x.display, fresh, V \ fresh)
             a == ApplyTo(x, V, r, final)
  <1>0. a.after = Prune(w) /\ a.used = g
    BY DEF ApplyTo
  <1>1. g \in SegIds \cup {0}
    <2>1. fresh \in SUBSET SegIds
      OBVIOUS
    <2>2. g = Cap!UsedUp(x.display, fresh, V \ fresh)
      BY SameUsedUp
    <2> DEFINE old == V \ fresh
               d == x.display
    <2> HIDE DEF fresh, old, d
    <2>3. Cap!UsedUp(d, fresh, old) \in SegIds \cup {0}
      BY <2>1, CapAssumptions, Cap!UsedUpFacts
    <2> QED
      BY <2>2, <2>3 DEF old, d
  <1>2. Sound(y, A, {}, V, V)
    <2> HIDE DEF fresh
    <2>1. fresh = {s \in V : x.display.segs[s].display = "Absent"}
      BY DEF fresh
    <2> QED
      BY <2>1, RegistersSound
  <1> HIDE DEF y, g
  <1>3. Sound(z, A, {}, {}, V)
    BY <1>2, ScheduledAllSound
  <1> HIDE DEF z, lost, why
  <1>4. Sound(w, A, {}, {}, V)
    BY <1>3, LosesSound
  <1> HIDE DEF w
  <1>5. Sound(Prune(w), A, {}, {}, V)
    BY <1>4, PruneSound
  <1>6. Sound(Prune(w), A, {}, {}, {})
    BY <1>5, SoundWider
  <1> QED
    BY <1>0, <1>1, <1>6

\* apply
LEMMA ApplySound ==
  ASSUME NEW x, NEW A, Sound(x, A, {}, {}, {}), NEW S \in SUBSET SegIds,
         \A s \in S : x.speech.segs[s].state # "Out", NEW final \in BOOLEAN, NEW r,
         generation \in 0..MaxGeneration, generation > 0, used \in SegIds \cup {0}
  PROVE  LET a == Apply(x, S, r, final) IN
         Sound(a.after, A, {}, {}, {}) /\ a.used \in SegIds \cup {0}
  <1> DEFINE p == Prune(x)
             t == SchedulerTicked(p)
             e == ExpiredNow(t)
             V == Registrable(t, S, Retired(x))
  <1>0. Apply(x, S, r, final) = ApplyTo(e, V, r, final)
    BY DEF Apply, ApplyTicked
  <1>1. V \in SUBSET SegIds /\ \A s \in V : s \in S
    BY DEF Registrable
  <1> HIDE DEF V
  <1>2. Sound(p, A, {}, {}, {}) /\ p.speech = x.speech
    BY PruneSound
  <1> HIDE DEF p
  <1>3. Sound(t, A, {}, {}, {}) /\ Withdraws(p, t)
    BY <1>2, SchedulerTickedSound
  <1> HIDE DEF t
  <1>4. Sound(e, A, {}, {}, {}) /\ Withdraws(t, e)
    BY <1>3, ExpiredNowWithdraws
  <1> HIDE DEF e
  <1>5. \A s \in V : e.speech.segs[s].state # "Out"
    <2>1. ASSUME NEW s \in V PROVE e.speech.segs[s].state # "Out"
      <3>1. s \in SegIds /\ s \in S /\ x.speech.segs[s].state # "Out"
        BY <1>1
      <3>2. p.speech.segs[s].state # "Out"
        BY <1>2, <3>1
      <3>3. t.speech.segs[s].state # "Out"
        BY <1>3, <3>1, <3>2 DEF Withdraws
      <3> QED
        BY <1>4, <3>1, <3>3 DEF Withdraws
    <2> QED
      BY <2>1
  <1> QED
    BY <1>0, <1>1, <1>4, <1>5, ApplyToSound

\* What is handed over is held by the segmenter once it has heard the transcript.
LEMMA UpsertsHeard ==
  ASSUME NEW x, NEW r, NEW m, Sound(x, 1..allotted, {}, {}, {}), allotted \in 0..Last,
         Reported(x, r, m), NEW final
  PROVE  LET S == Upserts(x, r, final) IN
         S \in SUBSET SegIds /\ \A s \in S : Heard(x, r).speech.segs[s].state # "Out"
  <1> DEFINE S == Upserts(x, r, final)
             y == Heard(x, r)
             kept == Kept(x) \ r.olds
             moved == Com!Moved(kept, r.fresh, r.olds)
  <1>1. S \subseteq r.fresh \cup r.revised \cup kept
    <2>1. moved \subseteq kept
      BY DEF Com!Moved
    <2>2. S = r.fresh \cup r.revised
                \cup (IF r.gone # {} THEN {} ELSE IF final THEN kept ELSE moved)
      BY DEF Upserts
    <2> HIDE DEF kept, moved, S
    <2> QED
      BY <2>1, <2>2
  <1>2. \A s \in kept : s \in SegIds /\ s \notin r.olds /\ x.speech.segs[s].state # "Out"
    BY DEF Kept, WithState
  <1>3. \A s \in r.revised : s \in SegIds /\ s \notin r.olds /\ x.speech.segs[s].state # "Out"
    BY DEF Reported
  <1>4. \A s \in r.fresh : s \in SegIds
    BY AllottedCount
  <1>5. \A s \in SegIds : s \in r.fresh \/ (s \notin r.olds /\ x.speech.segs[s].state # "Out")
                              => y.speech.segs[s].state # "Out"
    BY HeardSound
  <1> HIDE DEF S, y, kept, moved
  <1>6. S \in SUBSET SegIds /\ \A s \in S : y.speech.segs[s].state # "Out"
    BY <1>1, <1>2, <1>3, <1>4, <1>5
  <1> QED
    BY <1>6 DEF S, y

\* A transcript that arrives leaves the three agreed.
LEMMA TranscriptSound ==
  ASSUME NEW x, Sound(x, 1..allotted, {}, {}, {}), allotted \in 0..Last,
         NEW r \in Reports(x) \cup {Nothing}, NEW final \in BOOLEAN,
         generation \in 0..MaxGeneration, generation > 0, used \in SegIds \cup {0}
  PROVE  LET a == Apply(Heard(x, r), Upserts(x, r, final), r, final)
             n == allotted + Cardinality(r.fresh)
         IN n \in 0..Last /\ Sound(a.after, 1..n, {}, {}, {}) /\ a.used \in SegIds \cup {0}
  <1>1. PICK m : Reported(x, r, m)
    BY ReportFacts
  <1>2. m \in 0..Last /\ allotted + Cardinality(r.fresh) = m
    BY <1>1, AllottedCount
  <1> DEFINE y == Heard(x, r)
             S == Upserts(x, r, final)
             a == Apply(y, S, r, final)
  <1>3. Sound(y, 1..m, {}, {}, {})
    BY <1>1, HeardSound
  <1>4. S \in SUBSET SegIds /\ \A s \in S : y.speech.segs[s].state # "Out"
    BY <1>1, UpsertsHeard
  <1> HIDE DEF y, S
  <1>5. Sound(a.after, 1..m, {}, {}, {}) /\ a.used \in SegIds \cup {0}
    BY <1>3, <1>4, ApplySound
  <1> QED
    BY <1>2, <1>5 DEF y, S

\* begin_utterance
LEMMA BegunSound ==
  ASSUME NEW x, NEW A, Sound(x, A, {}, {}, {})
  PROVE  Sound(Begun(x), A, {}, {}, {})
  <1> DEFINE sp == [NoSpeech EXCEPT !.closed = FALSE]
             y == [x EXCEPT !.speech = sp]
  <1>1. CASE ~x.speech.closed
    BY <1>1 DEF Begun
  <1>2. CASE x.speech.closed
    <2>1. sp \in Speeches /\ \A s \in SegIds : sp.segs[s].state = "Out"
      <3>1. NoSpeech.segs \in [SegIds -> Heards]
        BY LimitsAssumption DEF NoSpeech, Unheard, Heards
      <3> QED
        BY <3>1 DEF NoSpeech, Unheard, Speeches
    <2> HIDE DEF sp
    <2>2. /\ y \in Calls /\ y.pool = x.pool /\ y.display = x.display /\ y.logical = x.logical
          /\ y.speech = sp
      BY <2>1 DEF Sound, Calls
    <2>3. Begun(x) = y
      BY <1>2 DEF Begun, sp
    <2> HIDE DEF y
    <2>4. ASSUME NEW s \in SegIds PROVE Linked(y, s, A, {}, {}, {})
      <3>1. Linked(x, s, A, {}, {}, {}) /\ sp.segs[s].state = "Out"
        BY <2>1 DEF Sound
      <3> QED
        BY <2>2, <3>1 DEF Linked
    <2> QED
      BY <2>2, <2>3, <2>4 DEF Sound
  <1> QED
    BY <1>1, <1>2

\* confirm_final
LEMMA ConfirmsSound ==
  ASSUME NEW x, NEW A, Sound(x, A, {}, {}, {}), NEW s
  PROVE  Sound(Confirms(x, s), A, {}, {}, {})
  <1> DEFINE d == Cap!ConfirmedIf(x.display, s)
  <1>1. Cap!Consistent(d) /\ Cap!Fading(x.display, d)
    <2> DEFINE e == x.display
    <2>1. Cap!Consistent(e)
      BY DEF Sound
    <2> HIDE DEF e
    <2>2. Cap!Consistent(Cap!ConfirmedIf(e, s)) /\ Cap!Fading(e, Cap!ConfirmedIf(e, s))
      BY <2>1, CapAssumptions, Cap!ConfirmedIfConsistent
    <2> QED
      BY <2>2 DEF e
  <1>2. Confirms(x, s) = Back(x, d)
    BY SameConfirmedIf DEF Confirms
  <1> HIDE DEF d
  <1> QED
    BY <1>1, <1>2, BackWithdraws

-----------------------------------------------------------------------------
(* The inductive invariant, between two calls. *)

Counters ==
    /\ generation \in 0..MaxGeneration /\ lastUpdate \in BOOLEAN /\ qualityOn \in BOOLEAN
    /\ incremental \in BOOLEAN /\ running \subseteq Sch!JobIds
    /\ used \in SegIds \cup {0} /\ allotted \in 0..Last /\ bounds \in Explored

PipelineInv == Counters /\ Sound(Call, 1..allotted, {}, {}, {})

\* A call ends with z; only its cancelled requests are others, those of running.
LEMMA EndedSound ==
  ASSUME NEW z, NEW n, Sound(z, 1..n, {}, {}, {}), NEW C, C \subseteq running',
         Commit([z EXCEPT !.pool = [z.pool EXCEPT !.cancelled = C]]),
         generation > 0 => generation' > 0, allotted' = n
  PROVE  Sound(Call, 1..allotted, {}, {}, {})'
  <1> DEFINE p == [z.pool EXCEPT !.cancelled = C]
             y == [z EXCEPT !.pool = p]
  <1>1. z \in Calls /\ GoodPool(z.pool) /\ z.pool \in Pools
    BY DEF Sound, GoodPool
  <1>2. /\ p = [segs |-> z.pool.segs, queue |-> z.pool.queue, cancelled |-> C]
        /\ p.segs = z.pool.segs /\ p.queue = z.pool.queue /\ p.cancelled = C
    BY <1>1 DEF Pools
  <1> HIDE DEF p
  <1>3. /\ y = [pool |-> p, display |-> z.display, published |-> z.published,
                speech |-> z.speech, logical |-> z.logical, asked |-> z.asked]
    BY <1>1 DEF Calls
  <1>4. Commit(y)
    BY DEF p
  <1>5. /\ pool' = p /\ display' = z.display /\ published' = z.published
        /\ speech' = z.speech /\ logical' = z.logical /\ asked' = z.asked
    BY <1>3, <1>4 DEF Commit
  <1> HIDE DEF y
  <1>6. (GoodPool(pool))'
    <2>1. (pool \in Pools)'
      BY <1>1, <1>2, <1>5 DEF Pools
    <2>2. ASSUME NEW s \in SegIds, p.segs[s].display \in {"Waiting", "Visible"}
          PROVE  /\ generation' > 0 /\ p.segs[s].rev \in 1..MaxRevision
                 /\ p.segs[s].att \in {1, 2}
      <3>1. s \in Sch!Live(z.pool)
        BY <1>2, <2>2 DEF Sch!Live, Sch!WithDisplay
      <3> QED
        BY <1>1, <1>2, <3>1 DEF GoodPool, LiveTyped
    <2>3. (LiveTyped(pool))'
      BY <1>5, <2>2 DEF LiveTyped, Sch!Live, Sch!WithDisplay
    <2> QED
      BY <2>1, <2>3 DEF GoodPool
  <1>7. (Cap!Consistent(display))'
    BY <1>5 DEF Sound, Cap!Consistent
  <1>8. (Call \in Calls)'
    <2>1. (pool \in Pools)'
      BY <1>6 DEF GoodPool
    <2> QED
      BY <1>1, <1>5, <2>1 DEF Call, Calls, Frames, Boxes
  <1>9. \A s \in SegIds : Linked(Call, s, 1..allotted, {}, {}, {})'
    BY <1>2, <1>5 DEF Call, Linked, Sound
  <1> QED
    BY <1>6, <1>7, <1>8, <1>9 DEF Sound, Call

LEMMA CommittedSound ==
  ASSUME NEW z, NEW n, Sound(z, 1..n, {}, {}, {}), Commit(z), allotted' = n,
         generation' = generation, running' = running
  PROVE  Sound(Call, 1..allotted, {}, {}, {})'
  <1> DEFINE C == z.pool.cancelled
  <1>1. z \in Calls /\ z.pool \in Pools
    BY DEF Sound, GoodPool
  <1>2. C \subseteq running'
    BY <1>1 DEF Pools
  <1>3. [z EXCEPT !.pool = [z.pool EXCEPT !.cancelled = C]] = z
    BY <1>1 DEF Calls, Pools
  <1> HIDE DEF C
  <1> QED
    BY <1>2, <1>3, EndedSound

\* What an action that leaves the settings alone has to show.
LEMMA StepSound ==
  ASSUME PipelineInv, NEW z, NEW n \in 0..Last, Sound(z, 1..n, {}, {}, {}), Commit(z),
         allotted' = n, used' \in SegIds \cup {0},
         UNCHANGED << generation, running >>,
         lastUpdate' \in BOOLEAN, qualityOn' \in BOOLEAN, incremental' \in BOOLEAN
  PROVE  PipelineInv'
  <1>1. Sound(Call, 1..allotted, {}, {}, {})'
    BY CommittedSound
  <1>2. Counters'
    BY DEF PipelineInv, Counters, Commit
  <1> QED
    BY <1>1, <1>2 DEF PipelineInv

LEMMA CallFacts ==
  ASSUME PipelineInv
  PROVE  /\ Sound(Call, 1..allotted, {}, {}, {}) /\ allotted \in 0..Last
         /\ Call.pool = pool /\ Call.display = display /\ Call.published = published
         /\ Call.speech = speech /\ Call.logical = logical /\ Call.asked = asked
  BY DEF PipelineInv, Counters, Call

LEMMA InterimKeeps ==
  ASSUME PipelineInv, NEW r \in Reports(Call) \cup {Nothing}, Interim(r)
  PROVE  PipelineInv'
  <1> DEFINE x == Begun(Call)
             a == Apply(Heard(x, r), Upserts(x, r, FALSE), r, FALSE)
             n == allotted + Cardinality(r.fresh)
  <1>1. Sound(x, 1..allotted, {}, {}, {})
    BY CallFacts, BegunSound
  <1>2. r \in Reports(x) \cup {Nothing}
    <2>1. CASE r = Nothing
      BY <2>1
    <2>2. CASE r # Nothing
      <3>1. ~speech.closed
        BY <2>2 DEF Interim, Cutting
      <3>2. x = Call
        BY <3>1, CallFacts DEF Begun
      <3> QED
        BY <3>2
    <2> QED
      BY <2>1, <2>2
  <1>3. Transcribed(x, r, FALSE) /\ generation > 0
        /\ UNCHANGED << generation, lastUpdate, qualityOn, running, incremental >>
    BY DEF Interim
  <1> HIDE DEF x
  <1>4. n \in 0..Last /\ Sound(a.after, 1..n, {}, {}, {}) /\ a.used \in SegIds \cup {0}
    BY <1>1, <1>2, <1>3, TranscriptSound DEF PipelineInv, Counters
  <1>5. Commit(a.after) /\ used' = a.used /\ allotted' = n
    BY <1>3 DEF Transcribed
  <1> HIDE DEF a, n
  <1> QED
    BY <1>3, <1>4, <1>5, StepSound DEF PipelineInv, Counters

LEMMA FinalKeeps ==
  ASSUME PipelineInv, NEW r, Final(r)
  PROVE  PipelineInv'
  <1> DEFINE s == published.key
             x == IF ~speech.closed /\ s \in Current(Call)
                  THEN Confirms(ExpiredNow(Call), s) ELSE Begun(Call)
             y == [x EXCEPT !.speech.closed = TRUE]
             a == Apply(Heard(y, r), Upserts(y, r, TRUE), r, TRUE)
             n == allotted + Cardinality(r.fresh)
  <1>1. Sound(x, 1..allotted, {}, {}, {})
    <2>1. Sound(ExpiredNow(Call), 1..allotted, {}, {}, {})
      BY CallFacts, ExpiredNowWithdraws
    <2>2. Sound(Confirms(ExpiredNow(Call), s), 1..allotted, {}, {}, {})
      BY <2>1, ConfirmsSound
    <2>3. Sound(Begun(Call), 1..allotted, {}, {}, {})
      BY CallFacts, BegunSound
    <2> QED
      BY <2>2, <2>3
  <1>2. /\ r \in Reports(x) \cup {Nothing} /\ Transcribed(y, r, TRUE) /\ generation > 0
        /\ UNCHANGED << generation, lastUpdate, qualityOn, running, incremental >>
    BY DEF Final
  <1> HIDE DEF x
  <1>3. /\ Sound(y, 1..allotted, {}, {}, {})
        /\ y.speech.segs = x.speech.segs
    <2> DEFINE sp == [x.speech EXCEPT !.closed = TRUE]
    <2>1. x \in Calls /\ x.speech \in Speeches
      BY <1>1 DEF Sound, Calls
    <2>2. sp \in Speeches /\ sp.segs = x.speech.segs
      BY <2>1 DEF Speeches
    <2>3. y = [x EXCEPT !.speech = sp]
      BY <2>1 DEF Calls, Speeches
    <2> HIDE DEF sp, y
    <2>4. /\ y \in Calls /\ y.pool = x.pool /\ y.display = x.display /\ y.logical = x.logical
          /\ y.speech = sp
      BY <2>1, <2>2, <2>3 DEF Calls
    <2>5. \A t \in SegIds : Linked(y, t, 1..allotted, {}, {}, {})
      BY <1>1, <2>2, <2>4 DEF Sound, Linked
    <2> QED
      BY <1>1, <2>2, <2>4, <2>5 DEF Sound, y
  <1> HIDE DEF y
  <1>4. r \in Reports(y) \cup {Nothing}
    <2>1. \A t \in SegIds : y.speech.segs[t] = x.speech.segs[t]
      BY <1>3
    <2>2. \A state : WithState(y, state) = WithState(x, state)
      BY <2>1 DEF WithState
    <2>3. Kept(y) = Kept(x)
      BY <2>2 DEF Kept
    <2>4. \A S, olds : Contiguous(y, S, olds) <=> Contiguous(x, S, olds)
      BY <2>3 DEF Contiguous
    <2>5. Reports(y) = Reports(x)
      BY <2>2, <2>3, <2>4, <1>3 DEF Reports
    <2> QED
      BY <1>2, <2>5
  <1>5. n \in 0..Last /\ Sound(a.after, 1..n, {}, {}, {}) /\ a.used \in SegIds \cup {0}
    BY <1>2, <1>3, <1>4, TranscriptSound DEF PipelineInv, Counters
  <1>6. Commit(a.after) /\ used' = a.used /\ allotted' = n
    BY <1>2 DEF Transcribed
  <1> HIDE DEF a, n
  <1> QED
    BY <1>2, <1>5, <1>6, StepSound DEF PipelineInv, Counters

LEMMA TickKeeps ==
  ASSUME PipelineInv, NEW r \in Reports(Call) \cup {Nothing}, NEW aligned, Tick(r, aligned)
  PROVE  PipelineInv'
  <1> DEFINE a == Apply(Heard(Call, r), Upserts(Call, r, FALSE), r, FALSE)
             n == allotted + Cardinality(r.fresh)
             b == SchedulerTicked(a.after)
             c == Rendered(b, aligned)
             d == Prune(c)
  <1>1. /\ Commit(d) /\ used' = a.used /\ allotted' = n /\ generation > 0
        /\ UNCHANGED << generation, lastUpdate, qualityOn, running, incremental >>
    BY DEF Tick
  <1>2. n \in 0..Last /\ Sound(a.after, 1..n, {}, {}, {}) /\ a.used \in SegIds \cup {0}
    BY <1>1, CallFacts, TranscriptSound DEF PipelineInv, Counters
  <1> HIDE DEF a, n
  <1>3. Sound(b, 1..n, {}, {}, {}) /\ NoneStale(b.pool)
    BY <1>2, SchedulerTickedSound
  <1> HIDE DEF b
  <1>4. Sound(c, 1..n, {}, {}, {})
    BY <1>3, RenderedSound DEF PipelineInv, Counters
  <1> HIDE DEF c
  <1>5. Sound(d, 1..n, {}, {}, {})
    BY <1>4, PruneSound
  <1> HIDE DEF d
  <1> QED
    BY <1>1, <1>2, <1>5, StepSound DEF PipelineInv, Counters

\* set_incremental: the scheduler retires what had not been shown.
LEMMA SetIncrementalKeeps ==
  ASSUME PipelineInv, NEW on \in BOOLEAN, SetIncremental(on)
  PROVE  PipelineInv'
  <1> DEFINE N == IF on \/ speech.closed THEN {}
                  ELSE {s \in Current(Call) : logical[s] = "Waiting"}
             y == Loses(Call, N, "Replaced")
  <1>1. /\ Commit(y) /\ incremental' = on
        /\ UNCHANGED << generation, lastUpdate, qualityOn, running, used, allotted >>
    BY DEF SetIncremental, Loses
  <1> HIDE DEF N
  <1>2. Sound(y, 1..allotted, {}, {}, {})
    BY CallFacts, LosesSound
  <1> HIDE DEF y
  <1> QED
    BY <1>1, <1>2, StepSound DEF PipelineInv, Counters

LEMMA TickedPoolNow ==
  ASSUME PipelineInv
  PROVE  Sch!Ticked = Sch!TickedPool(pool)
  <1>1. pool \in Pools
    BY DEF PipelineInv, Sound, GoodPool, Call
  <1>2. Sch!Pool = pool
    BY <1>1 DEF Sch!Pool, Sch!PoolOf, Pools
  <1> QED
    BY <1>2 DEF Sch!Ticked

LEMMA TickedNow ==
  ASSUME PipelineInv
  PROVE  /\ GoodPool(Sch!Ticked) /\ Fades(pool, Sch!Ticked) /\ NoneStale(Sch!Ticked)
         /\ GoodPool(pool)
  <1>1. GoodPool(pool)
    BY DEF PipelineInv, Sound, Call
  <1> QED
    BY <1>1, TickedPoolNow, TickedGood

LEMMA SetQualityRetryKeeps ==
  ASSUME PipelineInv, NEW on \in BOOLEAN, SetQualityRetry(on)
  PROVE  PipelineInv'
  <1> DEFINE t == Sch!Ticked
             p == IF on THEN t ELSE Sch!WithoutRetries(t)
             y == Forward(Call, p, "StaleBeforeDisplay")
  <1>1. /\ Commit(y) /\ qualityOn' = on
        /\ UNCHANGED << generation, lastUpdate, running, used, allotted, incremental >>
    BY DEF SetQualityRetry
  <1>2. GoodPool(p) /\ Fades(Call.pool, p)
    <2>1. GoodPool(t) /\ Fades(Call.pool, t)
      BY TickedNow, CallFacts
    <2> HIDE DEF t
    <2>2. GoodPool(Sch!WithoutRetries(t)) /\ Fades(t, Sch!WithoutRetries(t))
      BY <2>1, WithoutRetriesGood, StaysFades
    <2>3. Fades(Call.pool, Sch!WithoutRetries(t))
      BY <2>1, <2>2, FadesOn
    <2> QED
      BY <2>1, <2>2, <2>3
  <1> HIDE DEF p
  <1>3. Sound(y, 1..allotted, {}, {}, {})
    BY <1>2, CallFacts, ForwardSound
  <1> HIDE DEF y
  <1> QED
    BY <1>1, <1>3, StepSound DEF PipelineInv, Counters

LEMMA DispatchNothingKeeps ==
  ASSUME PipelineInv, DispatchNothing
  PROVE  PipelineInv'
  <1> DEFINE t == Sch!Ticked
             lost == {j \in Sch!Retries(t.queue) : ~Sch!RetryWorthwhile(t, j)}
             free == Cardinality(running) < MaxInFlight
             p == IF free /\ Sch!RetryMayStart(t) THEN Sch!DropRetries(t, lost) ELSE t
             y == Forward(Call, p, "StaleBeforeDisplay")
  <1>1. /\ Commit(y)
        /\ UNCHANGED << generation, lastUpdate, qualityOn, running, used, allotted, incremental >>
    BY DEF DispatchNothing
  <1>2. GoodPool(p) /\ Fades(Call.pool, p)
    <2>1. GoodPool(t) /\ Fades(Call.pool, t)
      BY TickedNow, CallFacts
    <2> HIDE DEF t, lost
    <2>2. GoodPool(Sch!DropRetries(t, lost)) /\ Fades(t, Sch!DropRetries(t, lost))
      BY <2>1, DropGood, StaysFades
    <2>3. Fades(Call.pool, Sch!DropRetries(t, lost))
      BY <2>1, <2>2, FadesOn
    <2> QED
      BY <2>1, <2>2, <2>3
  <1> HIDE DEF p
  <1>3. Sound(y, 1..allotted, {}, {}, {})
    BY <1>2, CallFacts, ForwardSound
  <1> HIDE DEF y
  <1> QED
    BY <1>1, <1>3, StepSound DEF PipelineInv, Counters

LEMMA SetDisplayConfigKeeps ==
  ASSUME PipelineInv, NEW c \in Configs, NEW pages, \A s \in SegIds : pages[s] \in 1..MaxPages,
         NEW same, SetDisplayConfig(c, pages, same)
  PROVE  PipelineInv'
  <1> DEFINE x == ExpiredNow(Call)
             d == Com!ApplyConfig(x.display, c, pages)
             y == Back(x, d)
             b == y.published.stale \/ c.hold # display.config.hold \/ ~same
             z == [y EXCEPT !.published.stale = b]
  <1>1. /\ Commit(z)
        /\ UNCHANGED << generation, lastUpdate, qualityOn, running, used, allotted, incremental >>
    BY DEF SetDisplayConfig
  <1>2. Sound(x, 1..allotted, {}, {}, {})
    BY CallFacts, ExpiredNowWithdraws
  <1> HIDE DEF x
  <1>3. Cap!Consistent(d) /\ Cap!Fading(x.display, d)
    <2> DEFINE e == x.display
    <2>1. Cap!Consistent(e)
      BY <1>2 DEF Sound
    <2>2. d = Cap!ApplyConfig(e, c, pages)
      BY SameApplyConfig
    <2> HIDE DEF e, d
    <2>3. LET r == Cap!ApplyConfig(e, c, pages) IN Cap!Consistent(r) /\ Cap!Fading(e, r)
      BY <2>1, CapAssumptions, Cap!ApplyConfigConsistent
    <2> QED
      BY <2>2, <2>3 DEF e
  <1> HIDE DEF d
  <1>4. Sound(y, 1..allotted, {}, {}, {})
    BY <1>2, <1>3, BackWithdraws
  <1> HIDE DEF y
  <1>5. Sound(z, 1..allotted, {}, {}, {})
    <2>1. y \in Calls /\ y.published \in Frames
      BY <1>4 DEF Sound, Calls
    <2>2. b \in BOOLEAN
      BY <2>1 DEF Frames
    <2> HIDE DEF b
    <2>3. /\ z \in Calls /\ z.pool = y.pool /\ z.display = y.display
          /\ z.logical = y.logical /\ z.speech = y.speech
      BY <2>1, <2>2 DEF Calls, Frames
    <2> HIDE DEF z
    <2>4. \A s \in SegIds : Linked(z, s, 1..allotted, {}, {}, {})
      BY <1>4, <2>3 DEF Sound, Linked
    <2> QED
      BY <1>4, <2>3, <2>4 DEF Sound
  <1> HIDE DEF z
  <1> QED
    BY <1>1, <1>5, StepSound DEF PipelineInv, Counters

LEMMA AdvanceKeeps ==
  ASSUME PipelineInv, Advance
  PROVE  PipelineInv'
  <1> DEFINE S == Sch!Aged(pool)
             p == [pool EXCEPT !.segs = S]
             e == Com!Aged(display)
             z == [Call EXCEPT !.pool = p, !.display = e]
  <1>1. /\ Commit([Call EXCEPT !.pool.segs = S, !.display = e])
        /\ UNCHANGED << generation, lastUpdate, qualityOn, running, used, allotted, incremental >>
    BY DEF Advance
  <1>2. Call \in Calls /\ GoodPool(pool) /\ Cap!Consistent(display)
    BY CallFacts DEF Sound
  <1>3. /\ GoodPool(p)
        /\ \A s \in SegIds : p.segs[s].display = pool.segs[s].display
                             /\ p.segs[s].text = pool.segs[s].text
    <2>1. /\ GoodPool([pool EXCEPT !.segs = S])
          /\ \A s \in SegIds : S[s].display = pool.segs[s].display /\ S[s].text = pool.segs[s].text
      BY <1>2, AgedPoolGood
    <2> HIDE DEF S
    <2>2. p.segs = S
      BY <1>2 DEF GoodPool, Pools
    <2> QED
      BY <2>1, <2>2
  <1>4. /\ Cap!Consistent(e)
        /\ \A s \in SegIds : e.segs[s].display = display.segs[s].display
                             /\ e.segs[s].left = display.segs[s].left
    <2> DEFINE d == display
    <2>1. Cap!Consistent(d)
      BY <1>2
    <2>2. e = Cap!Aged(d)
      BY SameAged
    <2> HIDE DEF d
    <2>3. LET a == Cap!Aged(d) IN
          /\ Cap!Consistent(a)
          /\ \A s \in SegIds : a.segs[s].display = d.segs[s].display /\ a.segs[s].left = d.segs[s].left
      BY <2>1, CapAssumptions, Cap!AgedConsistent
    <2> HIDE DEF e
    <2> QED
      BY <2>2, <2>3 DEF d
  <1>5. Commit(z)
    <2> HIDE DEF S, e
    <2> QED
      BY <1>1 DEF Call
  <1>6. p \in Pools /\ e \in Boxes
    BY <1>3, <1>4, ConsistentBox DEF GoodPool
  <1> HIDE DEF p, e, S
  <1>7. /\ z \in Calls /\ z.pool = p /\ z.display = e /\ z.logical = Call.logical
        /\ z.speech = Call.speech
    BY <1>2, <1>6 DEF Calls
  <1> HIDE DEF z
  <1>8. Sound(z, 1..allotted, {}, {}, {})
    <2>1. \A s \in SegIds : Linked(Call, s, 1..allotted, {}, {}, {})
      BY CallFacts DEF Sound
    <2>2. \A s \in SegIds : Linked(z, s, 1..allotted, {}, {}, {})
      BY <2>1, <1>3, <1>4, <1>7, CallFacts DEF Linked
    <2> QED
      BY <1>3, <1>4, <1>7, <2>2 DEF Sound
  <1> QED
    BY <1>1, <1>5, <1>8, StepSound DEF PipelineInv, Counters

LEMMA DispatchKeeps ==
  ASSUME PipelineInv, Dispatch
  PROVE  PipelineInv'
  <1> DEFINE t == Sch!Ticked
  <1>1. PICK j \in Sch!Foremost(t) :
          LET s == j.id.seg
              x == Told([Call EXCEPT !.pool = Sch!Unqueue(t, {j})],
                        GivenUp(pool, t), "StaleBeforeDisplay")
          IN /\ \E z \in {Expects(ExpiredNow(x), s, [rev |-> j.id.rev, att |-> j.id.att])} :
                  Commit(IF s \in Sch!Live(z.pool) THEN z
                         ELSE [z EXCEPT !.pool = Sch!CancelIds(@, {j.id})])
             /\ running' = running \cup {j.id}
             /\ lastUpdate' = (j.kind = "SourceUpdate")
    BY DEF Dispatch
  <1>2. UNCHANGED << generation, qualityOn, used, allotted, incremental >>
    BY DEF Dispatch
  <1> DEFINE id == j.id
             s == id.seg
             job == [rev |-> id.rev, att |-> id.att]
             q == Sch!Unqueue(t, {j})
             N == GivenUp(pool, t)
             x == Told([Call EXCEPT !.pool = q], N, "StaleBeforeDisplay")
             e == ExpiredNow(x)
             z == Expects(e, s, job)
             y == IF s \in Sch!Live(z.pool) THEN z
                  ELSE [z EXCEPT !.pool = Sch!CancelIds(z.pool, {id})]
  <1>3. /\ Commit(y) /\ running' = running \cup {id} /\ lastUpdate' \in BOOLEAN
    BY <1>1
  <1>4. GoodPool(t) /\ Fades(pool, t) /\ GoodPool(pool)
    BY TickedNow
  <1>5. id \in Sch!JobIds /\ s \in SegIds /\ job \in Cap!Jobs
    <2>1. j \in t.queue
      BY DEF Sch!Foremost, Sch!Eligible
    <2>2. j \in Sch!Jobs
      <3> HIDE DEF t
      <3> QED
        BY <2>1, <1>4, GoodFields
    <2>3. id \in Sch!JobIds
      BY <2>2 DEF Sch!Jobs
    <2> HIDE DEF id
    <2> QED
      BY <2>3, LimitsAssumption DEF Sch!JobIds, Cap!Jobs
  <1> HIDE DEF id, job, s
  <1>6. x = Forward(Call, q, "StaleBeforeDisplay") /\ GoodPool(q) /\ Fades(Call.pool, q)
    <2> HIDE DEF t
    <2>1. GoodPool(q) /\ Stays(t, q) /\ q.segs = t.segs
      BY <1>4, UnqueueGood
    <2>2. Fades(pool, q)
      BY <2>1, <1>4, StaysFades, FadesOn
    <2> HIDE DEF q
    <2>3. GivenUp(Call.pool, q) = N
      BY <2>1, CallFacts DEF GivenUp, Sch!WithDisplay
    <2> HIDE DEF N
    <2> QED
      BY <2>1, <2>2, <2>3, CallFacts DEF Forward
  <1> HIDE DEF q
  <1>7. Sound(x, 1..allotted, {}, {}, {})
    BY <1>6, CallFacts, ForwardSound
  <1> HIDE DEF x
  <1>8. Sound(e, 1..allotted, {}, {}, {})
    BY <1>7, ExpiredNowWithdraws
  <1> HIDE DEF e
  <1>9. Sound(z, 1..allotted, {}, {}, {})
    BY <1>5, <1>8, ExpectsSound
  <1> HIDE DEF z
  <1>10. z \in Calls /\ z.pool \in Pools /\ z.pool.cancelled \subseteq running
    BY <1>9 DEF Sound, GoodPool, Pools
  <1>11. \E C : C \subseteq running' /\ y = [z EXCEPT !.pool = [z.pool EXCEPT !.cancelled = C]]
    <2>1. CASE s \in Sch!Live(z.pool)
      <3>1. z = [z EXCEPT !.pool = [z.pool EXCEPT !.cancelled = z.pool.cancelled]]
        BY <1>10 DEF Calls, Pools
      <3>2. z.pool.cancelled \subseteq running'
        BY <1>3, <1>10
      <3> DEFINE C == z.pool.cancelled
      <3> HIDE DEF C
      <3>3. C \subseteq running' /\ y = [z EXCEPT !.pool = [z.pool EXCEPT !.cancelled = C]]
        BY <2>1, <3>1, <3>2 DEF C
      <3> QED
        BY <3>3
    <2>2. CASE s \notin Sch!Live(z.pool)
      <3> DEFINE C == z.pool.cancelled \cup {id}
      <3>1. Sch!CancelIds(z.pool, {id}) = [z.pool EXCEPT !.cancelled = C]
        BY <1>10 DEF Pools, Sch!CancelIds, Sch!PoolOf
      <3>2. C \subseteq running'
        BY <1>3, <1>10
      <3> HIDE DEF C
      <3> QED
        BY <2>2, <3>1, <3>2
    <2> QED
      BY <2>1, <2>2
  <1> HIDE DEF y
  <1>12. Sound(Call, 1..allotted, {}, {}, {})'
    <2>1. PICK C : C \subseteq running' /\ y = [z EXCEPT !.pool = [z.pool EXCEPT !.cancelled = C]]
      BY <1>11
    <2> QED
      BY <1>2, <1>3, <1>9, <2>1, EndedSound
  <1>13. Counters'
    BY <1>2, <1>3, <1>5 DEF PipelineInv, Counters, Commit
  <1> QED
    BY <1>12, <1>13 DEF PipelineInv

\* The scheduler has a text for the segment s.
LEMMA TextTakenSound ==
  ASSUME NEW x, NEW A, NEW U, Sound(x, A, {}, U, {}), NEW q, GoodPool(q), NEW s \in SegIds,
         \A u \in SegIds \ {s} : q.segs[u] = x.pool.segs[u],
         q.segs[s].display = x.pool.segs[s].display, q.segs[s].text # Sch!NoText
  PROVE  Sound([x EXCEPT !.pool = q], A, {}, U, {})
  <1> DEFINE y == [x EXCEPT !.pool = q]
             none == {}
  <1>1. /\ y \in Calls /\ y.pool = q /\ y.display = x.display /\ y.speech = x.speech
        /\ y.logical = x.logical
    BY PoolSet DEF Sound, GoodPool
  <1> HIDE DEF y, none
  <1>2. \A u \in SegIds : Linked(x, u, A, none, U, none)
    BY DEF Sound, none
  <1>3. ASSUME NEW u \in SegIds PROVE Linked(y, u, A, none, U, none)
    <2>1. CASE u = s
      BY <1>1, <1>2, <2>1 DEF Linked, none
    <2>2. CASE u # s
      BY <1>1, <1>2, <2>2 DEF Linked
    <2> QED
      BY <2>1, <2>2
  <1> QED
    BY <1>1, <1>3 DEF Sound, y, none

LEMMA CompleteKeeps ==
  ASSUME PipelineInv, NEW id \in running, NEW ok \in BOOLEAN, NEW pages \in 0..MaxPages,
         NEW aligned, NEW verdict, Complete(id, ok, pages, aligned, verdict)
  PROVE  PipelineInv'
  <1> DEFINE t == Sch!Ticked
             taken == Sch!Taken(t, id)
             p == IF taken THEN Sch!Answered(t, id, ok) ELSE t
             x == [Call EXCEPT !.pool = p]
             U == GivenUp(pool, p)
             w == IF taken THEN Composed(x, id, ok, pages, aligned, verdict) ELSE x
             d == Told(w, U, "TranslationFailed")
             z == Prune(d)
             A == 1..allotted
  <1>1. /\ Commit(Ended(z, id)) /\ running' = running \ {id}
        /\ UNCHANGED << generation, lastUpdate, qualityOn, used, allotted, incremental >>
    BY DEF Complete
  <1>2. id \in Sch!JobIds /\ id.seg \in SegIds
    BY DEF PipelineInv, Counters, Sch!JobIds
  <1>3. GoodPool(t) /\ Fades(pool, t) /\ NoneStale(t) /\ GoodPool(pool)
    BY TickedNow
  <1>4. taken => t.segs[id.seg].display \in Alive
    BY PoolLive DEF Sch!Taken
  <1> HIDE DEF A
  <1>c. Sound(Call, A, {}, {}, {}) /\ Call.pool = pool
    BY CallFacts DEF A
  <1> HIDE DEF t, taken
  <1>5. taken => LET q == Sch!Answered(t, id, ok) IN
           /\ GoodPool(q)
           /\ \A u \in SegIds \ {id.seg} : q.segs[u] = t.segs[u]
           /\ ok => /\ q.segs[id.seg].display = t.segs[id.seg].display
                    /\ q.segs[id.seg].age = t.segs[id.seg].age
                    /\ q.segs[id.seg].text # Sch!NoText
           /\ ~ok => Fades(t, q)
    BY <1>2, <1>3, <1>4, AnsweredGood
  <1>6. /\ Sound(x, A, {}, U, {}) /\ x.pool = p /\ NoneStale(p)
        /\ taken /\ ok => p.segs[id.seg].text # Sch!NoText
    <2>1. CASE ~taken \/ ~ok
      <3>1. GoodPool(p) /\ Fades(t, p)
        BY <1>3, <1>5, <2>1, FadesItself
      <3> HIDE DEF p, x, U
      <3>2. Fades(pool, p) /\ NoneStale(p)
        BY <1>3, <3>1, FadesOn, FadesFresh
      <3> DEFINE none == {}
      <3> HIDE DEF none
      <3>3. Sound(x, A, none, none \cup U, none) /\ x.pool = p
        BY <1>c, <3>1, <3>2, PoolFadesSound DEF x, U, none
      <3> QED
        BY <2>1, <3>2, <3>3 DEF none
    <2>2. CASE taken /\ ok
      <3> DEFINE b == [Call EXCEPT !.pool = t]
                 N == GivenUp(pool, t)
                 none == {}
      <3>1. p = Sch!Answered(t, id, ok)
        BY <2>2
      <3> HIDE DEF p, none
      <3>2. Sound(b, A, none, none \cup N, none) /\ b.pool = t
        BY <1>3, <1>c, PoolFadesSound DEF none
      <3>3. Sound(b, A, {}, N, {})
        <4>1. none \cup N = N
          BY DEF none
        <4> HIDE DEF b, N
        <4> QED
          BY <3>2, <4>1 DEF none
      <3>4. /\ GoodPool(p) /\ p.segs[id.seg].display = t.segs[id.seg].display
            /\ p.segs[id.seg].age = t.segs[id.seg].age
            /\ p.segs[id.seg].text # Sch!NoText
            /\ \A u \in SegIds \ {id.seg} : p.segs[u] = t.segs[u]
        BY <1>5, <2>2, <3>1
      <3>5. U = N
        BY <3>4 DEF GivenUp, Sch!WithDisplay
      <3>6. x = [b EXCEPT !.pool = p] /\ x.pool = p
        BY DEF Call
      <3> HIDE DEF b, N, x, U
      <3>7. Sound([b EXCEPT !.pool = p], A, {}, N, {})
        BY <1>2, <3>2, <3>3, <3>4, TextTakenSound
      <3>8. NoneStale(p)
        BY <1>3, <3>4 DEF NoneStale
      <3> QED
        BY <3>4, <3>5, <3>6, <3>7, <3>8
    <2> QED
      BY <2>1, <2>2
  <1>7. \A s \in U : s \in SegIds /\ p.segs[s].display = "Retired"
    BY GivenUpFacts
  <1> HIDE DEF p, x, U
  <1>8. Sound(w, A, {}, U, {}) /\ Lessens(p, w.pool)
    <2>1. CASE taken
      <3>1. generation \in 0..MaxGeneration /\ qualityOn \in BOOLEAN
        BY DEF PipelineInv, Counters
      <3>2. ok => x.pool.segs[id.seg].text # Sch!NoText
        BY <1>6, <2>1
      <3>3. LET y == Composed(x, id, ok, pages, aligned, verdict) IN
            Sound(y, A, {}, U, {}) /\ Lessens(x.pool, y.pool)
        BY <1>2, <1>6, <3>1, <3>2, ComposedSound
      <3> QED
        BY <1>6, <2>1, <3>3
    <2>2. CASE ~taken
      BY <1>6, <2>2 DEF Lessens
    <2> QED
      BY <2>1, <2>2
  <1> HIDE DEF w
  <1>9. Sound(d, A, {}, {}, {})
    <2>1. \A s \in U \cap SegIds : w.pool.segs[s].display \notin Alive
      BY <1>7, <1>8 DEF Lessens, Alive
    <2>2. Sound(d, A, {}, U \ U, {})
      BY <1>8, <2>1, ToldSound
    <2>3. U \ U = {}
      OBVIOUS
    <2> HIDE DEF d
    <2> QED
      BY <2>2, <2>3
  <1> HIDE DEF d
  <1>10. Sound(z, A, {}, {}, {})
    BY <1>9, PruneSound
  <1> HIDE DEF z
  <1> DEFINE C == z.pool.cancelled \ {id}
  <1>11. /\ C \subseteq running'
         /\ Ended(z, id) = [z EXCEPT !.pool = [z.pool EXCEPT !.cancelled = C]]
    <2>1. z \in Calls /\ z.pool \in Pools /\ z.pool.cancelled \subseteq running
      BY <1>10 DEF Sound, GoodPool, Pools
    <2> QED
      BY <1>1, <2>1 DEF Ended, Calls, Pools
  <1> HIDE DEF C
  <1>12. Sound(Call, 1..allotted, {}, {}, {})'
    BY <1>1, <1>10, <1>11, EndedSound DEF A
  <1>13. Counters'
    BY <1>1 DEF PipelineInv, Counters, Commit
  <1> QED
    BY <1>12, <1>13 DEF PipelineInv

\* What a behaviour keeps to.
LEMMA BoundsFacts ==
  ASSUME bounds \in Explored
  PROVE  /\ bounds.configs \subseteq Configs /\ bounds.switches \subseteq BOOLEAN
         /\ bounds.pages \in 1..MaxPages
  BY PipelineAssumption

\* Nothing known, and the composer empty.
LEMMA NothingKnown ==
  ASSUME NEW c \in Configs, NEW f \in Frames, NEW C \in SUBSET running, NEW n
  PROVE  Sound([pool |-> [segs |-> [s \in SegIds |-> Sch!Absent], queue |-> {}, cancelled |-> C],
                display |-> Com!DisplayOf([s \in SegIds |-> Com!Absent], Com!NoSlot, << >>, c),
                published |-> f, speech |-> NoSpeech,
                logical |-> [s \in SegIds |-> "None"], asked |-> [s \in SegIds |-> 0]],
               1..n, {}, {}, {})
  <1> DEFINE p == [segs |-> [s \in SegIds |-> Sch!Absent], queue |-> {}, cancelled |-> C]
             d == Com!DisplayOf([s \in SegIds |-> Com!Absent], Com!NoSlot, << >>, c)
             x == [pool |-> p, display |-> d, published |-> f, speech |-> NoSpeech,
                   logical |-> [s \in SegIds |-> "None"], asked |-> [s \in SegIds |-> 0]]
  <1>1. /\ GoodPool(p) /\ \A s \in SegIds : p.segs[s].display = "Absent"
    <2>1. p \in Pools /\ \A s \in SegIds : p.segs[s].display = "Absent"
      BY PoolAbsentType DEF Pools, Sch!Absent
    <2> HIDE DEF p
    <2>2. Sch!Live(p) = {}
      BY <2>1, PoolLive DEF Alive
    <2> QED
      BY <2>1, <2>2 DEF GoodPool, LiveTyped
  <1>2. Cap!Consistent(d) /\ \A s \in SegIds : d.segs[s].display = "Absent"
    <2>1. d = Cap!DisplayOf([s \in SegIds |-> Cap!Absent], Cap!NoSlot, << >>, c)
      BY DEF Com!DisplayOf, Cap!DisplayOf, Com!Absent, Cap!Absent, Com!NoSlot, Cap!NoSlot,
             Com!NoJob, Cap!NoJob
    <2> HIDE DEF d
    <2> QED
      BY <2>1, CapAssumptions, Cap!EmptyConsistent
  <1>3. NoSpeech \in Speeches /\ \A s \in SegIds : NoSpeech.segs[s].state = "Out"
    <2>1. NoSpeech.segs \in [SegIds -> Heards]
      BY LimitsAssumption DEF NoSpeech, Unheard, Heards
    <2> QED
      BY <2>1 DEF NoSpeech, Unheard, Speeches
  <1>4. d \in Boxes /\ p \in Pools
    BY <1>1, <1>2, ConsistentBox DEF GoodPool
  <1> HIDE DEF p, d
  <1>5. /\ x \in Calls /\ x.pool = p /\ x.display = d /\ x.speech = NoSpeech
        /\ \A s \in SegIds : x.logical[s] = "None"
    BY <1>3, <1>4, LimitsAssumption DEF Calls, States
  <1> HIDE DEF x
  <1>6. ASSUME NEW s \in SegIds PROVE Linked(x, s, 1..n, {}, {}, {})
    <2>1. /\ x.pool.segs[s].display = "Absent" /\ x.display.segs[s].display = "Absent"
          /\ x.logical[s] = "None" /\ x.speech.segs[s].state = "Out"
      BY <1>1, <1>2, <1>3, <1>5
    <2> QED
      BY <2>1 DEF Linked, Alive
  <1> QED
    BY <1>1, <1>2, <1>5, <1>6 DEF Sound, x, p, d

LEMMA ResetKeeps ==
  ASSUME PipelineInv, NEW g \in 1..MaxGeneration, NEW c \in Configs, NEW quality \in BOOLEAN,
         NEW cut \in BOOLEAN, Reset(g, c, quality, cut)
  PROVE  PipelineInv'
  <1> DEFINE C == Sch!RetireSegments(pool, SegIds).cancelled
             z == [pool |-> [segs |-> [s \in SegIds |-> Sch!Absent], queue |-> {},
                             cancelled |-> C],
                   display |-> Com!DisplayOf([s \in SegIds |-> Com!Absent], Com!NoSlot, << >>, c),
                   published |-> published, speech |-> NoSpeech,
                   logical |-> [s \in SegIds |-> "None"], asked |-> [s \in SegIds |-> 0]]
  <1>1. /\ generation' = g /\ lastUpdate' = FALSE /\ qualityOn' = quality /\ incremental' = cut
        /\ Commit(z) /\ UNCHANGED << running, used, allotted >>
    BY DEF Reset
  <1>2. Call \in Calls /\ GoodPool(pool) /\ published \in Frames
    BY CallFacts DEF Sound, Calls
  <1>3. C \in SUBSET running
    <2>1. GoodPool(Sch!RetireSegments(pool, SegIds))
      BY <1>2, RetireGood
    <2> QED
      BY <2>1 DEF GoodPool, Pools
  <1> HIDE DEF C
  <1>4. Sound(z, 1..allotted, {}, {}, {})
    BY <1>2, <1>3, NothingKnown
  <1> DEFINE S == [s \in SegIds |-> Sch!Absent]
             e == Com!DisplayOf([s \in SegIds |-> Com!Absent], Com!NoSlot, << >>, c)
             L == [s \in SegIds |-> "None"]
             O == [s \in SegIds |-> 0]
             y == [pool |-> [segs |-> S, queue |-> {}, cancelled |-> C], display |-> e,
                   published |-> published, speech |-> NoSpeech, logical |-> L, asked |-> O]
  <1>5. [z EXCEPT !.pool = [z.pool EXCEPT !.cancelled = C]] = z
    <2>1. z = y
      OBVIOUS
    <2> HIDE DEF S, e, L, O, z
    <2>2. [y EXCEPT !.pool = [y.pool EXCEPT !.cancelled = C]] = y
      OBVIOUS
    <2> QED
      BY <2>1, <2>2
  <1> HIDE DEF z
  <1>6. C \subseteq running' /\ generation' > 0
    BY <1>1, <1>3
  <1>7. Sound(Call, 1..allotted, {}, {}, {})'
    <2>1. Commit([z EXCEPT !.pool = [z.pool EXCEPT !.cancelled = C]])
      BY <1>1, <1>5
    <2> QED
      BY <1>1, <1>4, <1>6, <2>1, EndedSound
  <1>8. Counters'
    <2>1. generation' \in 0..MaxGeneration
      BY <1>1, LimitsAssumption
    <2>2. /\ lastUpdate' \in BOOLEAN /\ qualityOn' \in BOOLEAN /\ incremental' \in BOOLEAN
          /\ UNCHANGED << running, used, allotted >>
      BY <1>1
    <2>3. bounds' = bounds
      BY <1>1 DEF Commit
    <2> QED
      BY <2>1, <2>2, <2>3 DEF PipelineInv, Counters
  <1> QED
    BY <1>7, <1>8 DEF PipelineInv

LEMMA InitKeeps ==
  ASSUME Init
  PROVE  PipelineInv
  <1> DEFINE empty(c) == Com!DisplayOf([s \in SegIds |-> Com!Absent], Com!NoSlot, << >>, c)
  <1>0. \E b \in Explored : bounds = b /\ \E c \in b.configs : display = empty(c)
    BY DEF Init
  <1> HIDE DEF empty
  <1>2. bounds \in Explored
    BY <1>0
  <1>1. PICK c \in bounds.configs : display = empty(c)
    BY <1>0
  <1>3. c \in Configs
    BY <1>1, <1>2, BoundsFacts
  <1>4. NoFrame \in Frames
    BY LimitsAssumption DEF NoFrame, Frames, Cap!Jobs
  <1>5. 0 \in 0..Last
    BY IdsAreFinite, FS_CardinalityType DEF Last
  <1>6. Counters
    <2>1. /\ generation = 0 /\ lastUpdate = FALSE /\ qualityOn = TRUE /\ running = {}
          /\ used = 0 /\ allotted = 0 /\ incremental = TRUE
      BY DEF Init
    <2>2. generation \in 0..MaxGeneration
      BY <2>1, LimitsAssumption
    <2> QED
      BY <1>2, <1>5, <2>1, <2>2 DEF Counters
  <1>7. Sound(Call, 1..allotted, {}, {}, {})
    <2> DEFINE none == {}
    <2> HIDE DEF none
    <2>1. /\ pool = [segs |-> [s \in SegIds |-> Sch!Absent], queue |-> {}, cancelled |-> none]
          /\ published = NoFrame /\ speech = NoSpeech
          /\ logical = [s \in SegIds |-> "None"] /\ asked = [s \in SegIds |-> 0]
      BY DEF Init, Sch!PoolOf, none
    <2>2. none \in SUBSET running
      BY DEF none
    <2>3. Call = [pool |-> [segs |-> [s \in SegIds |-> Sch!Absent], queue |-> {},
                            cancelled |-> none],
                  display |-> empty(c),
                  published |-> NoFrame, speech |-> NoSpeech,
                  logical |-> [s \in SegIds |-> "None"], asked |-> [s \in SegIds |-> 0]]
      BY <1>1, <2>1 DEF Call
    <2> QED
      BY <1>3, <1>4, <2>2, <2>3, NothingKnown DEF empty
  <1> QED
    BY <1>6, <1>7 DEF PipelineInv

\* Nothing happens.
LEMMA StutterKeeps ==
  ASSUME PipelineInv, UNCHANGED vars
  PROVE  PipelineInv'
  <1>1. Commit(Call) /\ allotted' = allotted
    BY CallFacts DEF vars, Commit
  <1> QED
    BY <1>1, CallFacts, StepSound DEF vars, PipelineInv, Counters

\* Every call of the session.
LEMMA NextKeeps ==
  ASSUME PipelineInv, [Next]_vars
  PROVE  PipelineInv'
  <1>b. /\ bounds.configs \subseteq Configs /\ bounds.switches \subseteq BOOLEAN
        /\ bounds.pages \in 1..MaxPages
    BY BoundsFacts DEF PipelineInv, Counters
  <1>1. CASE UNCHANGED vars
    BY <1>1, StutterKeeps
  <1>2. ASSUME NEW g \in 1..MaxGeneration, NEW c \in bounds.configs,
               NEW quality \in bounds.switches, NEW cut \in bounds.switches,
               Reset(g, c, quality, cut)
        PROVE  PipelineInv'
    BY <1>b, <1>2, ResetKeeps
  <1>3. ASSUME NEW r \in Reports(Call) \cup {Nothing}, Interim(r) PROVE PipelineInv'
    BY <1>3, InterimKeeps
  <1>4. ASSUME NEW r \in {Nothing} \cup Reports(Call), NEW a, Tick(r, a) PROVE PipelineInv'
    BY <1>4, TickKeeps
  <1>5. ASSUME NEW r, Final(r) PROVE PipelineInv'
    BY <1>5, FinalKeeps
  <1>6. CASE Dispatch
    BY <1>6, DispatchKeeps
  <1>7. CASE DispatchNothing
    BY <1>7, DispatchNothingKeeps
  <1>8. ASSUME NEW id \in running, NEW ok \in BOOLEAN, NEW a, NEW pages \in Answers(ok),
               NEW verdict, Complete(id, ok, pages, a, verdict)
        PROVE  PipelineInv'
    <2>1. pages \in 0..MaxPages
      BY <1>b, LimitsAssumption DEF Answers
    <2> QED
      BY <1>8, <2>1, CompleteKeeps
  <1>9. ASSUME NEW c \in bounds.configs, NEW same,
               NEW n \in IF c.layout = display.config.layout THEN {1} ELSE 1..bounds.pages,
               SetDisplayConfig(c, [s \in SegIds |-> n], same)
        PROVE  PipelineInv'
    <2>1. n \in 1..MaxPages
      BY <1>b, LimitsAssumption
    <2> DEFINE pages == [s \in SegIds |-> n]
    <2>2. \A s \in SegIds : pages[s] \in 1..MaxPages
      BY <2>1
    <2>3. SetDisplayConfig(c, pages, same)
      BY <1>9
    <2> HIDE DEF pages
    <2> QED
      BY <1>b, <2>2, <2>3, SetDisplayConfigKeeps
  <1>10. ASSUME NEW on \in bounds.switches, SetIncremental(on) PROVE PipelineInv'
    BY <1>b, <1>10, SetIncrementalKeeps
  <1>11. ASSUME NEW on \in bounds.switches, SetQualityRetry(on) PROVE PipelineInv'
    BY <1>b, <1>11, SetQualityRetryKeeps
  <1>12. CASE Advance
    BY <1>12, AdvanceKeeps
  <1> QED
    BY <1>1, <1>2, <1>3, <1>4, <1>5, <1>6, <1>7, <1>8, <1>9, <1>10, <1>11, <1>12 DEF Next

\* After every call of the session the three parts are typed, consistent and linked.
THEOREM PipelineCorrect == Spec => []PipelineInv
  <1>1. Init => PipelineInv
    BY InitKeeps
  <1>2. PipelineInv /\ [Next]_vars => PipelineInv'
    BY NextKeeps
  <1> QED
    BY <1>1, <1>2, PTL DEF Spec

-----------------------------------------------------------------------------
(* What follows for every state between two calls. *)

\* Every variable keeps its type, the scheduler's and the composer's too.
THEOREM PipelineTypeOK == Spec => []TypeOK
  <1>1. ASSUME PipelineInv PROVE TypeOK
    <2>1. /\ Call \in Calls /\ GoodPool(pool) /\ Cap!Consistent(display)
      BY <1>1, CallFacts DEF Sound
    <2>2. /\ pool \in Pools /\ display \in Boxes /\ Len(display.window) <= MaxChunks
          /\ published \in Frames /\ speech \in Speeches /\ logical \in [SegIds -> States]
          /\ asked \in [SegIds -> 0..MaxPages]
      BY <2>1 DEF Call, Calls, Cap!Consistent, Cap!Typed
    <2>3. Sch!TypeOK
      BY <1>1, <2>2 DEF Sch!TypeOK, Pools, PipelineInv, Counters
    <2>4. Com!TypeOK
      BY <1>1, <2>2 DEF Com!TypeOK, Boxes, Cap!PagedSegments, Com!Segments, Cap!Segments,
            Com!Slots, Cap!Slots, Com!Jobs, Cap!Jobs, Com!Displays, Cap!Displays,
            Com!NoConfig, Com!MaxHold, Cap!MaxHold, PipelineInv, Counters
    <2>5. allotted \in SegIds \cup {0}
      <3>1. Last \in Nat /\ SegIds = 1..Last
        BY PipelineAssumption, IdsAreFinite, FS_CardinalityType DEF Last
      <3> QED
        BY <1>1, <3>1 DEF PipelineInv, Counters
    <2>6. /\ published \in [key : SegIds \cup {0}, job : Com!Jobs, index : 0..MaxPages,
                            stale : BOOLEAN]
          /\ speech \in [segs : [SegIds -> [state : {"Out", "In", "Gone"}, rev : 0..MaxRevision,
                                            olds : SUBSET SegIds]],
                         mine : SUBSET SegIds, closed : BOOLEAN, stopped : BOOLEAN]
          /\ logical \in [SegIds -> {"None", "Waiting", "Visible", "Retired", "Completed"}]
      BY <2>2 DEF Frames, Speeches, Heards, States, Com!Jobs, Cap!Jobs
    <2> QED
      BY <1>1, <2>2, <2>3, <2>4, <2>5, <2>6 DEF TypeOK, PipelineInv, Counters
  <1> QED
    BY <1>1, PipelineCorrect, PTL

\* Scheduler, composer and the pipeline's own list agree, after every call, which segments
\* live and which one is visible.
THEOREM PipelineStatesAgree == Spec => []StatesAgree
  <1>1. ASSUME PipelineInv PROVE StatesAgree
    <2>1. \A s \in SegIds : Linked(Call, s, 1..allotted, {}, {}, {})
      BY <1>1, CallFacts DEF Sound
    <2>2. ASSUME NEW s \in SegIds
          PROVE  /\ pool.segs[s].display \in Alive <=> display.segs[s].display \in Alive
                 /\ logical[s] \in Alive <=> display.segs[s].display \in Alive
                 /\ display.segs[s].display \in Alive =>
                       pool.segs[s].display = display.segs[s].display
                       /\ logical[s] = display.segs[s].display
      BY <1>1, <2>1, CallFacts DEF Linked
    <2>3. Com!Live(display) = {s \in SegIds : display.segs[s].display \in Alive}
      BY LivesAlive DEF Com!Live
    <2>4. Sch!Live(pool) = {s \in SegIds : pool.segs[s].display \in Alive}
      BY PoolLive
    <2> QED
      BY <2>2, <2>3, <2>4 DEF StatesAgree, Alive
  <1> QED
    BY <1>1, PipelineCorrect, PTL

\* Whatever scheduler or composer keep of a segment is in the list prune goes through.
THEOREM PipelineMetadataReclaimable == Spec => []MetadataReclaimable
  <1>1. ASSUME PipelineInv PROVE MetadataReclaimable
    <2>1. \A s \in SegIds : Linked(Call, s, 1..allotted, {}, {}, {})
      BY <1>1, CallFacts DEF Sound
    <2>2. ASSUME NEW s \in SegIds
          PROVE  /\ logical[s] = "None" <=> display.segs[s].display = "Absent"
                 /\ pool.segs[s].display # "Absent" => display.segs[s].display # "Absent"
                 /\ display.segs[s].display \in {"Absent", "Waiting", "Visible", "Retired"}
      <3>1. display \in Boxes
        BY <1>1, CallFacts DEF Sound, Calls
      <3> QED
        BY <1>1, <2>1, <3>1, CallFacts, BoxFields DEF Linked
    <2>3. Com!Managed(display) = {s \in SegIds : display.segs[s].display # "Absent"}
      BY <2>2 DEF Com!Managed, Com!With
    <2>4. Sch!Managed(pool) \subseteq {s \in SegIds : pool.segs[s].display # "Absent"}
      BY DEF Sch!Managed, Sch!WithDisplay
    <2> QED
      BY <2>2, <2>3, <2>4 DEF MetadataReclaimable
  <1> QED
    BY <1>1, PipelineCorrect, PTL

=============================================================================
