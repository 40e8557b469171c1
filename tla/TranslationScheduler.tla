------------------------ MODULE TranslationScheduler ------------------------
(***************************************************************************)
(* The reducer that decides which translation request is sent next         *)
(* (translation-scheduler.cpp).  Segments of recognised speech are         *)
(* registered in revisions; each revision is translated once (attempt 1)   *)
(* and, when its visible translation looks untranslated, at most once more *)
(* (attempt 2, a quality retry).  Requests wait in a bounded queue and     *)
(* occupy one of MaxInFlight transport slots from dispatch until the       *)
(* transport reports completion, whatever became of the segment meanwhile. *)
(*                                                                         *)
(* Every member function is one action: the session calls them under one   *)
(* lock.  Absolute times are replaced by what the code computes from them: *)
(*   age  = now_ms - first_registered_ms, saturated at StaleAge            *)
(*   left = quality_expires_ms - now_ms, 0 when passed, NoDeadline when    *)
(*          quality_expires_ms = 0.                                        *)
(* A segment key of another generation is never in segments_ (the reset    *)
(* clears it and registration rejects it), so segs is indexed by the id    *)
(* alone; job ids keep their generation, since requests outlive a reset.   *)
(***************************************************************************)
EXTENDS Integers, FiniteSets

CONSTANTS
    SegIds,            \* segment ids the caller allocates
    Revisions,         \* source revisions of a segment
    Orders,            \* SegmentOrderKey values, ordered as numbers
    Pages,             \* page tokens (publication, page index); 0 is none
    Lifetimes,         \* page lifetimes left when a deadline is passed in
    Verdicts,          \* results of the quality inspection: suspected or not
    MaxGeneration,     \* bound on the generations explored
    MaxInFlight,       \* kMaxInFlight
    MaxQueued,         \* kMaxQueued
    MaxWaiting,        \* kMaxWaiting
    MaxManaged,        \* kMaxManaged
    MaxRetryQueued,    \* kQualityMaxRetryQueued
    MaxRetryInFlight,  \* kQualityMaxRetryInFlight
    StaleAge,          \* kStaleBeforeDisplayMs, in clock ticks
    MinRemaining       \* kQualityMinRemainingMs, in clock ticks

ASSUME IdsAssumption ==
    /\ SegIds \subseteq Nat \ {0}
    /\ Revisions \subseteq Nat \ {0}
    /\ Orders \subseteq Nat
    /\ Pages \subseteq Nat \ {0}
    /\ Lifetimes \subseteq Nat
    /\ Verdicts \subseteq BOOLEAN
    /\ MaxGeneration \in Nat

ASSUME LimitsAssumption ==
    /\ MaxInFlight \in Nat \ {0}
    /\ MaxQueued \in Nat \ {0}
    /\ MaxWaiting \in Nat
    /\ MaxManaged \in Nat
    /\ MaxRetryQueued \in Nat
    /\ MaxRetryInFlight \in Nat \ {0}
    /\ StaleAge \in Nat \ {0}
    /\ MinRemaining \in Nat \ {0}

VARIABLES
    generation,   \* generation_
    highWater,    \* segment_high_water_
    lastUpdate,   \* last_dispatch_was_update_
    qualityOn,    \* quality_retry_enabled_
    segs,         \* segments_, indexed by segment id
    queue,        \* queued_
    running,      \* the ids in running_
    cancelled,    \* those of running_ with cancel_requested
    sent          \* history: every job id dispatch ever handed out

vars == << generation, highWater, lastUpdate, qualityOn, segs, queue,
           running, cancelled, sent >>

NoDeadline == -1
NoText == [rev |-> 0, att |-> 0]

Displays == {"Absent", "Waiting", "Visible", "Retired"}
Kinds == {"Initial", "SourceUpdate", "QualityRetry"}

JobIds == [gen : 1..MaxGeneration, seg : SegIds, rev : Revisions, att : {1, 2}]
Jobs == [id : JobIds, kind : Kinds]

\* translated_text is abstracted to the job that produced it; NoText is "".
Segments ==
    [display : Displays, rev : Revisions \cup {0}, att : {0, 1, 2},
     order : Orders \cup {0}, age : 0..StaleAge, processed : BOOLEAN,
     text : [rev : Revisions \cup {0}, att : {0, 1, 2}],
     suspected : BOOLEAN, pending : BOOLEAN, consumed : BOOLEAN,
     page : Pages \cup {0}, left : Nat \cup {NoDeadline}]

Absent ==
    [display |-> "Absent", rev |-> 0, att |-> 0, order |-> 0, age |-> 0,
     processed |-> FALSE, text |-> NoText, suspected |-> FALSE,
     pending |-> FALSE, consumed |-> FALSE, page |-> 0, left |-> NoDeadline]

\* A retired segment's remaining fields are never read again: only its key and
\* its display state matter, until forget_retired erases it.
Tombstone == [Absent EXCEPT !.display = "Retired"]

TypeOK ==
    /\ generation \in 0..MaxGeneration
    /\ highWater \in SegIds \cup {0}
    /\ lastUpdate \in BOOLEAN
    /\ qualityOn \in BOOLEAN
    /\ segs \in [SegIds -> Segments]
    /\ queue \subseteq Jobs
    /\ running \subseteq JobIds
    /\ cancelled \subseteq running
    /\ sent \subseteq JobIds

-----------------------------------------------------------------------------
(* The part of the state the helpers of the code update in place, and the *)
(* updates they are made of.                                              *)
(* An operator commented "bug:" is not part of the model.  It is the definition  *)
(* below it with a plausible programming error; put in its place, it makes TLC   *)
(* find the property named violated.                                             *)
PoolOf(S, Q, C) == [segs |-> S, queue |-> Q, cancelled |-> C]
Pool == PoolOf(segs, queue, cancelled)

Commit(p) == segs' = p.segs /\ queue' = p.queue /\ cancelled' = p.cancelled

SetSegment(p, s, seg) == PoolOf([p.segs EXCEPT ![s] = seg], p.queue, p.cancelled)
Push(p, j) == PoolOf(p.segs, p.queue \cup {j}, p.cancelled)
\* bug: the dispatched job stays in the queue (DispatchedOnce, QueuedJobsLeave).
UnqueueNothing(p, J) == p
Unqueue(p, J) == PoolOf(p.segs, p.queue \ J, p.cancelled)
CancelIds(p, ids) == PoolOf(p.segs, p.queue, p.cancelled \cup ids)

WithDisplay(p, ds) == {s \in SegIds : p.segs[s].display \in ds}
Live(p) == WithDisplay(p, {"Waiting", "Visible"})
Waiting(p) == WithDisplay(p, {"Waiting"})
Managed(p) == WithDisplay(p, {"Waiting", "Visible", "Retired"})

IsRetry(j) == j.kind = "QualityRetry"
IsRetryId(id) == id.att > 1
Retries(q) == {j \in q : IsRetry(j)}
General(q) == {j \in q : ~IsRetry(j)}
QueuedFor(q, S) == {j \in q : j.id.seg \in S}

CurrentJob(p, s) ==
    [gen |-> generation, seg |-> s, rev |-> p.segs[s].rev, att |-> p.segs[s].att]

RemainingOk(seg) == seg.left = NoDeadline \/ seg.left >= MinRemaining

\* bug: asks requests that have ended (TypeOK), everything on the wire
\* (NoSegmentStranded), or nothing (JobsAreCurrent).
CancelSent(p, S) == CancelIds(p, {id \in sent : id.gen = generation /\ id.seg \in S})
CancelAll(p, S) == CancelIds(p, {id \in running : id.gen = generation})
CancelNothing(p, S) == p

\* The requests still on the wire for the segments S are asked to cancel; they
\* keep their slots.
CancelRunning(p, S) == CancelIds(p, {id \in running : id.gen = generation /\ id.seg \in S})

Spent(seg) == [seg EXCEPT !.consumed = TRUE, !.pending = FALSE]

\* Dropping a queued retry spends the retry of whatever revision its segment
\* has by then.
DropRetries(p, J) ==
    PoolOf([s \in SegIds |-> IF QueuedFor(J, {s}) # {} /\ s \in Live(p)
                             THEN Spent(p.segs[s]) ELSE p.segs[s]],
           p.queue \ J, p.cancelled)

\* bug: the queued jobs of a retired segment stay (OneRetryQueued).
RetireKeepsQueue(p, S) ==
    LET R == S \cap Live(p)
    IN  CancelRunning(PoolOf([s \in SegIds |-> IF s \in R THEN Tombstone ELSE p.segs[s]],
                             p.queue, p.cancelled), R)
RetireSegments(p, S) ==
    LET R == S \cap Live(p)
    IN  CancelRunning(PoolOf([s \in SegIds |-> IF s \in R THEN Tombstone ELSE p.segs[s]],
                             p.queue \ QueuedFor(p.queue, R), p.cancelled), R)

ExpireRetries(p) ==
    DropRetries(p, {j \in Retries(p.queue) : \/ j.id.seg \notin Live(p)
                                            \/ p.segs[j.id.seg].left = 0})

\* bug: nothing goes stale (WaitingSettles).
TickedRetriesOnly == ExpireRetries(Pool)

\* tick(now): what every entry point does first.
TickedPool(p) ==
    ExpireRetries(RetireSegments(p, {s \in Waiting(p) : p.segs[s].age >= StaleAge}))
Ticked == TickedPool(Pool)

\* oldest_waiting: first registered, then display order, then vector position
\* (segments_ is in registration order, and ids only grow).
Older(p, a, b) ==
    LET x == p.segs[a]
        y == p.segs[b]
    IN  \/ x.age > y.age
        \/ x.age = y.age /\ x.order < y.order
        \/ x.age = y.age /\ x.order = y.order /\ a < b

\* bug: the segments that wait are not counted (QueuesBounded).
WithinLimitsOfQueue(p) == Cardinality(p.queue) <= MaxQueued
WithinLimits(p) ==
    Cardinality(Waiting(p)) <= MaxWaiting /\ Cardinality(p.queue) <= MaxQueued

\* enforce_limits drops the queued retry first (there is at most one, see
\* OneRetryQueued), then retires waiting segments oldest first until the
\* limits hold or none waits: the shortest prefix of the age order that does.
EnforceLimits(p) ==
    LET d == IF Cardinality(p.queue) > MaxQueued THEN DropRetries(p, Retries(p.queue)) ELSE p
        Prefixes == {P \in SUBSET Waiting(d) :
                        \A s \in P, t \in Waiting(d) : Older(d, t, s) => t \in P}
        Stops(P) == P = Waiting(d) \/ WithinLimits(RetireSegments(d, P))
    IN  {RetireSegments(d, P) : P \in
            {P \in Prefixes : Stops(P) /\ \A Q \in Prefixes : Stops(Q) => P \subseteq Q}}

\* bug: the job is queued beside those of the segment that wait already (OneRetryQueued).
EnqueueBeside(p, s, kind) ==
    LET c == CancelRunning(p, {s})
        job == [id |-> CurrentJob(p, s), kind |-> kind]
    IN  EnforceLimits(SetSegment(Push(c, job), s, [c.segs[s] EXCEPT !.processed = FALSE]))

\* Replaces whatever is queued for s, cancels what runs for it, and queues its
\* current job.
Enqueue(p, s, kind) ==
    LET old == QueuedFor(p.queue, {s})
        d == Unqueue(IF kind = "QualityRetry" THEN p ELSE DropRetries(p, Retries(old)), old)
        c == CancelRunning(d, {s})
        job == [id |-> CurrentJob(p, s), kind |-> kind]
    IN  EnforceLimits(SetSegment(Push(c, job), s, [c.segs[s] EXCEPT !.processed = FALSE]))

-----------------------------------------------------------------------------
Init ==
    /\ generation = 0 /\ highWater = 0
    /\ lastUpdate = FALSE /\ qualityOn = TRUE
    /\ segs = [s \in SegIds |-> Absent]
    /\ queue = {} /\ running = {} /\ cancelled = {} /\ sent = {}

Unticked == UNCHANGED << generation, highWater, lastUpdate, qualityOn, running, sent >>

\* reset_generation of a larger generation: the session resets on start, stop,
\* reconnect and settings that change the translation.  Requests on the wire
\* keep their slots.
ResetGeneration(g) ==
    /\ g > generation
    /\ generation' = g
    /\ segs' = [s \in SegIds |-> Absent]
    /\ queue' = {}
    /\ cancelled' = RetireSegments(Pool, SegIds).cancelled
    /\ lastUpdate' = FALSE /\ qualityOn' = TRUE
    /\ UNCHANGED << highWater, running, sent >>

\* bug: the high water is not looked at (RetiredForGood).
AcceptableReused(t, s, r) ==
    /\ generation > 0
    /\ s \in Live(t) => r >= t.segs[s].rev
    /\ t.segs[s].display # "Retired"

\* What register_segment takes further than its identity checks.  The calls it
\* turns away (another generation, a retired segment, an id at or below the high
\* water, an older revision, a known revision with another text) have the effect
\* of Tick and are not listed again.
Acceptable(t, s, r) ==
    /\ generation > 0
    /\ \/ s \in Live(t) /\ r >= t.segs[s].rev
       \/ t.segs[s].display = "Absent" /\ s > highWater

\* An empty, oversized or malformed source text.
RegisterUnusableText(s, r) ==
    LET t == Ticked
    IN  /\ Acceptable(t, s, r)
        /\ Commit(RetireSegments(t, {s}))
        /\ highWater' = IF s \in Live(t) THEN highWater ELSE s
        /\ UNCHANGED << generation, lastUpdate, qualityOn, running, sent >>

\* The same revision again, typically the final form of an interim: only the
\* order (and the final mark) move.
RegisterDuplicate(s, o) ==
    LET t == Ticked
    IN  /\ s \in Live(t)
        /\ Commit(SetSegment(t, s, [t.segs[s] EXCEPT !.order = o]))
        /\ Unticked

\* A new segment when segments_ is full of live ones and tombstones.
RegisterOverflow(s, r) ==
    LET t == Ticked
    IN  /\ Acceptable(t, s, r)
        /\ t.segs[s].display = "Absent"
        /\ Cardinality(Managed(t)) >= MaxManaged
        /\ highWater' = s
        /\ Commit(t)
        /\ UNCHANGED << generation, lastUpdate, qualityOn, running, sent >>

NewSegment == [Absent EXCEPT !.display = "Waiting"]

\* reset_quality_state, with the revision's first job.
Revised(seg, r, o) ==
    [seg EXCEPT !.rev = r, !.att = 1, !.order = o, !.suspected = FALSE,
                !.pending = FALSE, !.consumed = FALSE, !.page = 0, !.left = NoDeadline]

\* The pools a new segment or revision leads to.
Registered(t, s, r, o, replaces) ==
    LET fresh == t.segs[s].display = "Absent"
        seg == Revised(IF fresh THEN NewSegment ELSE t.segs[s], r, o)
        p == RetireSegments(SetSegment(t, s, seg), replaces \ {s})
    IN  Enqueue(p, s, IF fresh THEN "Initial" ELSE "SourceUpdate")

RegisterRevision(s, r, o, replaces) ==
    LET t == Ticked
        fresh == t.segs[s].display = "Absent"
    IN  /\ Acceptable(t, s, r)
        /\ fresh => Cardinality(Managed(t)) < MaxManaged
        /\ ~fresh => r > t.segs[s].rev
        /\ \E e \in Registered(t, s, r, o, replaces) : Commit(e)
        /\ highWater' = IF fresh THEN s ELSE highWater
        /\ UNCHANGED << generation, lastUpdate, qualityOn, running, sent >>

\* request_quality_retry, called by maybe_reserve_quality for the visible segment
\* whose suspected translation is pending (so none of the function's other
\* rejections can happen).  The token and the deadline are those of the page.
MayRetry(seg) == seg.display = "Visible" /\ seg.pending /\ ~seg.consumed /\ seg.att = 1

\* The pools the request leads to: with the retry queued, or with it spent.
Requested(t, s, page, left) ==
    LET seg == [t.segs[s] EXCEPT !.page = IF page # 0 THEN page ELSE @,
                                 !.left = IF left # NoDeadline THEN left ELSE @]
        full == \/ Cardinality(Retries(t.queue)) >= MaxRetryQueued
                \/ Cardinality(t.queue) >= MaxQueued
    IN  IF ~qualityOn THEN {SetSegment(t, s, Spent(t.segs[s]))}
        ELSE IF ~RemainingOk(seg) \/ full THEN {SetSegment(t, s, Spent(seg))}
        ELSE Enqueue(SetSegment(t, s, [Spent(seg) EXCEPT !.att = 2]), s, "QualityRetry")

RequestQualityRetry(s, page, left) ==
    /\ MayRetry(segs[s])
    /\ \E e \in Requested(Ticked, s, page, left) : Commit(e)
    /\ Unticked

-----------------------------------------------------------------------------
(* dispatch: initial translations and source updates before retries; after a *)
(* source update an initial one, otherwise the visible segment's update      *)
(* first; then display order.  Equal ranks and orders keep queue position in *)
(* the code, which this set leaves open.                                     *)
PreferInitial(q) == lastUpdate /\ \E j \in q : j.kind = "Initial"

Rank(p, j) ==
    CASE PreferInitial(p.queue) /\ j.kind = "Initial" -> 0
      [] ~PreferInitial(p.queue) /\ j.kind = "SourceUpdate"
         /\ p.segs[j.id.seg].display = "Visible" -> 0
      [] IsRetry(j) -> 2
      [] OTHER -> 1

\* bug: one retry too many (SlotsBounded).
RetryMayStartPlusOne(p) ==
    /\ General(p.queue) = {}
    /\ Cardinality({id \in running : IsRetryId(id)}) <= MaxRetryInFlight
RetryMayStart(p) ==
    /\ General(p.queue) = {}
    /\ Cardinality({id \in running : IsRetryId(id)}) < MaxRetryInFlight

\* bug: the time left is looked at only when the retry is queued (RetriesYield).
RetryWorthwhileOnce(p, j) == p.segs[j.id.seg].display = "Visible"
RetryWorthwhile(p, j) ==
    p.segs[j.id.seg].display = "Visible" /\ RemainingOk(p.segs[j.id.seg])

Eligible(p) ==
    {j \in p.queue : IsRetry(j) => RetryMayStart(p) /\ RetryWorthwhile(p, j)}

\* bug: the queue is served in display order alone (RetriesYield).
ForemostInOrder(p) ==
    LET Q == {j \in p.queue : IsRetry(j) => RetryWorthwhile(p, j)}
    IN  {j \in Q : \A k \in Q : p.segs[j.id.seg].order <= p.segs[k.id.seg].order}
Foremost(p) ==
    {j \in Eligible(p) :
        \A k \in Eligible(p) :
            \/ Rank(p, j) < Rank(p, k)
            \/ /\ Rank(p, j) = Rank(p, k)
               /\ p.segs[j.id.seg].order <= p.segs[k.id.seg].order}

Dispatch ==
    /\ Cardinality(running) < MaxInFlight
    /\ \E t \in {Ticked} :
        \E j \in Foremost(t) :
            /\ Commit(Unqueue(t, {j}))
            /\ running' = running \cup {j.id}
            /\ sent' = sent \cup {j.id}
            /\ lastUpdate' = (j.kind = "SourceUpdate")
            /\ UNCHANGED << generation, highWater, qualityOn >>

\* With nothing eligible, a retry that no longer pays is dropped; a call that
\* finds nothing to drop either has the effect of Tick.
DispatchExpiresRetry ==
    /\ Cardinality(running) < MaxInFlight
    /\ Retries(queue) # {}
    /\ \E t \in {Ticked} :
          LET lost == {j \in Retries(t.queue) : ~RetryWorthwhile(t, j)}
          IN  /\ RetryMayStart(t) /\ Eligible(t) = {} /\ lost # {}
              /\ Commit(DropRetries(t, lost))
    /\ Unticked

\* bug: a late answer of a superseded revision is taken (TextNeverGoesBack).
TakenLate(p, id) == id.gen = generation /\ id.seg \in Live(p)

\* An answer is taken only for the current job of a live segment, once.
Taken(p, id) ==
    /\ id.gen = generation /\ id.seg \in Live(p)
    /\ id = CurrentJob(p, id.seg) /\ ~p.segs[id.seg].processed

\* A success with an empty, oversized or malformed translation is a failure.  A
\* failure retires the segment unless an earlier text is there to keep.
Answered(p, id, ok) ==
    LET s == id.seg
        done == SetSegment(p, s, [p.segs[s] EXCEPT !.processed = TRUE])
        shown == SetSegment(p, s, [p.segs[s] EXCEPT !.processed = TRUE,
                                                    !.text = [rev |-> id.rev, att |-> id.att]])
    IN  IF ok THEN shown
        ELSE IF p.segs[s].text = NoText THEN RetireSegments(done, {s})
        ELSE done

Released(id) == running \ {id}

\* complete: the slot is released whatever the answer is worth.  (The bound t,
\* not a LET, spares TLC evaluating the tick again in the fairness conditions.)
Complete(id, ok) ==
    /\ id \in running
    /\ \E t \in {Ticked} :
        /\ running' = Released(id)
        /\ \E p \in {IF Taken(t, id) THEN Answered(t, id, ok) ELSE t} :
              Commit(PoolOf(p.segs, p.queue, p.cancelled \ {id}))
        /\ UNCHANGED << generation, highWater, lastUpdate, qualityOn, sent >>

-----------------------------------------------------------------------------
MayShow(t, s) ==
    /\ s \in Live(t)
    /\ t.segs[s].text # NoText
    /\ WithDisplay(t, {"Visible"}) \subseteq {s}

MarkedVisible(t, s) == SetSegment(t, s, [t.segs[s] EXCEPT !.display = "Visible"])

MarkVisible(s) ==
    LET t == Ticked
    IN  MayShow(t, s) /\ Commit(MarkedVisible(t, s)) /\ Unticked

\* retire, called for every segment the composer or the segmenter gives up.
Retire(s) ==
    /\ s \in Live(Pool)
    /\ Commit(RetireSegments(Pool, {s}))
    /\ Unticked

ForgetRetired(s) ==
    /\ segs[s].display = "Retired"
    /\ segs' = [segs EXCEPT ![s] = Absent]
    /\ UNCHANGED << queue, cancelled >> /\ Unticked

\* set_quality_retry: switching off spends the retry of every suspected segment,
\* drops the queued one and cancels the running ones.
WithoutRetries(t) ==
    LET off == [s \in SegIds |->
                  [t.segs[s] EXCEPT !.consumed = @ \/ t.segs[s].suspected \/ t.segs[s].pending,
                                    !.pending = FALSE]]
        dropped == DropRetries(PoolOf(off, t.queue, t.cancelled), Retries(t.queue))
    IN  CancelIds(dropped, {id \in running : IsRetryId(id)})

SetQualityRetry(on) ==
    /\ on # qualityOn
    /\ qualityOn' = on
    /\ Commit(IF on THEN Ticked ELSE WithoutRetries(Ticked))
    /\ UNCHANGED << generation, highWater, lastUpdate, running, sent >>

\* set_quality_judgement, called with the inspection of a first attempt's
\* translation as soon as complete has taken it.
Judged(seg, suspected, eligible) ==
    [seg EXCEPT !.suspected = suspected, !.pending = eligible /\ suspected /\ ~seg.consumed]

SetQualityJudgement(s, suspected, eligible) ==
    /\ s \in Live(Pool)
    /\ segs[s].processed /\ segs[s].att = 1 /\ segs[s].text = [rev |-> segs[s].rev, att |-> 1]
    /\ segs' = [segs EXCEPT ![s] = Judged(segs[s], suspected, eligible)]
    /\ UNCHANGED << queue, cancelled >> /\ Unticked

Earlier(a, b) == IF a = NoDeadline \/ (b # NoDeadline /\ b < a) THEN b ELSE a

\* note_display_page: the page now shown for s and the lifetime it has left.  A
\* reserved retry is dropped when its page is gone and never gains time.
Noted(p, s, page, left) ==
    LET seg == p.segs[s]
        reserved == seg.consumed /\ seg.att = 2
        moved == reserved /\ seg.page # 0 /\ seg.page # page
        noted == [seg EXCEPT !.page = IF reserved THEN @ ELSE page,
                             !.left = IF reserved THEN Earlier(@, left)
                                      ELSE IF left # NoDeadline THEN left ELSE @]
    IN  IF moved THEN DropRetries(p, Retries(QueuedFor(p.queue, {s})))
        ELSE ExpireRetries(SetSegment(p, s, noted))

NoteDisplayPage(s, page, left) ==
    s \in Live(Pool) /\ Commit(Noted(Pool, s, page, left)) /\ Unticked

\* tick, and every call that comes to nothing but the tick it starts with.
Tick == (\E t \in {Ticked} : Commit(t)) /\ Unticked

\* Time passes between calls.
Aged(p) ==
    [s \in SegIds |->
        IF s \notin Live(p) THEN p.segs[s]
        ELSE [p.segs[s] EXCEPT !.age = IF @ < StaleAge THEN @ + 1 ELSE @,
                               !.left = IF @ > 0 THEN @ - 1 ELSE @]]
Advance ==
    /\ segs' = Aged(Pool)
    /\ UNCHANGED << queue, cancelled >> /\ Unticked

Next ==
    \/ \E g \in 1..MaxGeneration : ResetGeneration(g)
    \/ \E s \in SegIds, r \in Revisions : RegisterUnusableText(s, r) \/ RegisterOverflow(s, r)
    \/ \E s \in SegIds, o \in Orders : RegisterDuplicate(s, o)
    \/ \E s \in SegIds, r \in Revisions, o \in Orders, replaces \in SUBSET SegIds :
          RegisterRevision(s, r, o, replaces)
    \/ \E s \in SegIds, page \in Pages \cup {0}, left \in Lifetimes \cup {NoDeadline} :
          RequestQualityRetry(s, page, left) \/ NoteDisplayPage(s, page, left)
    \/ Dispatch \/ DispatchExpiresRetry
    \/ \E id \in running, ok \in BOOLEAN : Complete(id, ok)
    \/ \E s \in SegIds : MarkVisible(s) \/ Retire(s) \/ ForgetRetired(s)
    \/ \E on \in BOOLEAN : SetQualityRetry(on)
    \/ \E s \in SegIds, suspected \in Verdicts, eligible \in BOOLEAN :
          SetQualityJudgement(s, suspected, eligible)
    \/ Tick \/ Advance

Spec == Init /\ [][Next]_vars

-----------------------------------------------------------------------------
(* What the reducer promises. *)

\* The transport pool is never oversubscribed, counting cancelled and outlived
\* requests until they really end, and retries never take more than their share
\* (dispatch, complete; spec 005 par. 4.5, spec 006 par. 4.5).
SlotsBounded ==
    /\ Cardinality(running) <= MaxInFlight
    /\ Cardinality({id \in running : IsRetryId(id)}) <= MaxRetryInFlight

\* Whatever is registered, queued work, waiting segments and metadata stay within
\* their limits (enforce_limits, register_segment).
QueuesBounded ==
    /\ Cardinality(queue) <= MaxQueued
    /\ Cardinality(Waiting(Pool)) <= MaxWaiting
    /\ Cardinality(Managed(Pool)) <= MaxManaged

\* Everything queued, and everything on the wire that was not asked to cancel, is
\* the current job of a live segment whose answer is still missing: no request is
\* spent on a superseded revision (enqueue, retire_segment, reset_generation).
JobsAreCurrent ==
    /\ \A id \in {j.id : j \in queue} \cup (running \ cancelled) :
          /\ id.seg \in Live(Pool)
          /\ id = CurrentJob(Pool, id.seg)
          /\ ~segs[id.seg].processed
    /\ \A j \in queue : IsRetry(j) <=> IsRetryId(j.id)
    /\ \A j \in queue : j.id \notin running

\* No live segment is forgotten: a revision without an answer has its job queued
\* or on the wire, and an answered or visible segment has a text to show.
NoSegmentStranded ==
    \A s \in Live(Pool) :
        /\ segs[s].att = 1 /\ ~segs[s].processed =>
              \/ CurrentJob(Pool, s) \in {j.id : j \in queue}
              \/ CurrentJob(Pool, s) \in running \ cancelled
        /\ segs[s].processed \/ segs[s].att = 2 \/ segs[s].display = "Visible" =>
              segs[s].text # NoText

\* At most one segment is visible and only it can have a retry queued, so at most
\* one retry is queued at any time, whatever kQualityMaxRetryQueued allows.
OneRetryQueued ==
    /\ \A s, t \in WithDisplay(Pool, {"Visible"}) : s = t
    /\ \A j, k \in Retries(queue) : j = k
    /\ \A j \in Retries(queue) : segs[j.id.seg].display = "Visible"

\* No job id is handed to the transport twice, across revisions, resets and the
\* reuse of metadata (dispatch; spec 006: one retry per source revision).
DispatchedOnce ==
    [][\A id \in JobIds : id \in sent => ~(id \notin running /\ id \in running')]_vars

\* While a segment lives its text moves only to the translation of a later revision
\* or attempt: a late answer never takes the caption back (complete).
TextNeverGoesBack ==
    [][\A s \in SegIds :
          s \in Live(Pool) /\ s \in Live(Pool)' /\ segs'[s].text # segs[s].text =>
              \/ segs'[s].text.rev > segs[s].text.rev
              \/ segs'[s].text.rev = segs[s].text.rev /\ segs'[s].text.att > segs[s].text.att]_vars

\* Within a generation an id that was retired, forgotten or skipped never names a
\* live segment again (retire_segment, the ReusedId check).
RetiredForGood ==
    [][\A s \in SegIds :
          /\ generation' = generation
          /\ s <= highWater /\ s \notin Live(Pool)
          => s \notin Live(Pool)']_vars

\* A retry is started only for the visible segment, with time left to show it and
\* with no ordinary translation queued (dispatch; spec 006 par. 4.5).
RetriesYield ==
    [][\A id \in running' \ running :
          IsRetryId(id) =>
              /\ General(queue) \subseteq QueuedFor(queue, {s \in SegIds : s \notin Live(Pool)'})
              /\ segs'[id.seg].display = "Visible"
              /\ RemainingOk(segs'[id.seg])]_vars

\* A revision whose first answer is not back yet still has its one retry
\* (spec 006 par. 4.4: a new revision has a retry budget of its own).
FreshRevisionKeepsItsRetry ==
    \A s \in Live(Pool) : segs[s].att = 1 /\ ~segs[s].processed => ~segs[s].consumed

\* The session calls tick every 100 ms, keeps dispatching while a slot is free and
\* a job eligible, and every request ends (answer, cancellation or timeout).
Fairness ==
    /\ WF_vars(Tick) /\ WF_vars(Advance)
    /\ WF_vars(Dispatch \/ DispatchExpiresRetry)
    /\ \A id \in JobIds : WF_vars(\E ok \in BOOLEAN : Complete(id, ok))

FairSpec == Spec /\ Fairness

\* A segment does not wait for ever: it is shown or given up (tick).
WaitingSettles ==
    \A s \in SegIds : segs[s].display = "Waiting" ~> segs[s].display # "Waiting"

\* A queued job does not wait for ever: it is sent or dropped.
QueuedJobsLeave ==
    \A id \in JobIds : (\E j \in queue : j.id = id) ~> (\A j \in queue : j.id # id)
=============================================================================
