--------------------------- MODULE CaptionPipeline ---------------------------
(***************************************************************************)
(* The composition of segmenter, scheduler and composer                    *)
(* (caption-pipeline.cpp).  Each of the three decides on its own that a    *)
(* segment is retired, shown or translated, and the pipeline carries every *)
(* such decision to the other two before the call returns; it also keeps a *)
(* list of its own (logical) from which segments are finally forgotten.    *)
(*                                                                         *)
(* Scheduler and composer are the modules TranslationScheduler and         *)
(* CaptionComposer, whose helpers the actions below put together as the    *)
(* calls of the code do.  The segmenter is represented by what it reports: *)
(* which of its segments a new transcript revises, replaces or adds.       *)
(* Every action is one call of the session, made under one lock.           *)
(*                                                                         *)
(* A publication number is replaced by the token of a page: 1 for the      *)
(* frame published last, 2 for an older one.  Two calls never fall in the  *)
(* same millisecond, so a restarted deadline always makes another frame.   *)
(***************************************************************************)
EXTENDS Integers, FiniteSets, Sequences

CONSTANTS
    SegIds,         \* segment ids, allocated in turn
    Order(_),       \* the place of a segment in the transcript
    Configs,        \* display configurations
    MaxRevision,    \* bound on the source revisions of a segment
    MaxPages,       \* bound on the pages of a translation
    Explored,       \* the bounds explored: each behaviour keeps within one of them
    MaxGeneration,  \* bound on the generations explored
    MaxInFlight, MaxQueued, MaxWaiting, MaxManaged, MaxRetryQueued,
    MaxRetryInFlight, MaxChunks,    \* limits of scheduler and composer
    MinPage, StaleAge, Lifetime, MinRemaining,    \* times, in clock ticks
    MaxRecent       \* the retired segments kept for context, 3

ASSUME PipelineAssumption ==
    /\ IsFiniteSet(SegIds) /\ SegIds = 1..Cardinality(SegIds)
    /\ \A s \in SegIds : Order(s) \in Nat
    /\ \A s, t \in SegIds : Order(s) = Order(t) => s = t
    /\ Configs \subseteq [hold : Nat \ {0}, layout : Nat]
    /\ IsFiniteSet(Configs) /\ Configs # {}
    /\ Explored \subseteq [ids : SUBSET SegIds, revised : SUBSET SegIds, pages : 1..MaxPages,
                            configs : SUBSET Configs, switches : SUBSET BOOLEAN]
    /\ MaxRecent \in Nat

ASSUME LimitsAssumption ==
    /\ MaxRevision \in Nat \ {0} /\ MaxPages \in Nat \ {0} /\ MaxGeneration \in Nat
    /\ MaxInFlight \in Nat \ {0} /\ MaxQueued \in Nat \ {0} /\ MaxWaiting \in Nat
    /\ MaxManaged \in Nat /\ MaxRetryQueued \in Nat /\ MaxRetryInFlight \in Nat \ {0}
    /\ MaxChunks \in Nat \ {0} /\ MinPage \in Nat /\ StaleAge \in Nat \ {0}
    /\ Lifetime \in Nat \ {0} /\ MinRemaining \in Nat \ {0}

VARIABLES
    generation, lastUpdate, qualityOn, running,    \* scheduler_
    pool,         \* scheduler_: segments_, queued_, cancelled requests
    display,      \* composer_: segments_, slot_, window_, cfg_
    used,         \* composer_: high_water_
    published,    \* composer_: published_, and whether its slot has changed since
    speech,       \* segmenter_: segments_ and states_, ids of the utterance, flags
    allotted,     \* segmenter_: next_segment_
    incremental,  \* incremental_
    logical,      \* logical_: state and reason of every known segment
    asked,        \* history: the page a segment's retry was reserved for
    bounds        \* the segments, revisions, pages, settings this behaviour keeps to

vars == << generation, lastUpdate, qualityOn, running, pool, display, used,
           published, speech, allotted, incremental, logical, asked, bounds >>

\* Ids are checked by the composer first, so the scheduler's high water never
\* decides; "sent" is that module's history.
Sch == INSTANCE TranslationScheduler WITH
    segs <- pool.segs, queue <- pool.queue, cancelled <- pool.cancelled,
    highWater <- 0, sent <- {}, Revisions <- 1..MaxRevision,
    Orders <- {Order(s) : s \in SegIds}, Pages <- {1, 2},
    Lifetimes <- 0..(CHOOSE h \in {c.hold : c \in Configs} : \A c \in Configs : c.hold <= h),
    Verdicts <- BOOLEAN

Com == INSTANCE CaptionComposer WITH
    segs <- display.segs, slot <- display.slot, window <- display.window,
    config <- display.config, pending <- [hold |-> 0, layout |-> 0], highWater <- used

Unheard == [state |-> "Out", rev |-> 0, olds |-> {}]
NoSpeech == [segs |-> [s \in SegIds |-> Unheard], mine |-> {}, closed |-> TRUE, stopped |-> FALSE]
NoFrame == [key |-> 0, job |-> [rev |-> 0, att |-> 0], index |-> 0, stale |-> FALSE]

TypeOK ==
    /\ Sch!TypeOK /\ Com!TypeOK
    /\ published \in [key : SegIds \cup {0}, job : Com!Jobs, index : 0..MaxPages, stale : BOOLEAN]
    /\ speech \in [segs : [SegIds -> [state : {"Out", "In", "Gone"}, rev : 0..MaxRevision,
                                      olds : SUBSET SegIds]],
                   mine : SUBSET SegIds, closed : BOOLEAN, stopped : BOOLEAN]
    /\ allotted \in SegIds \cup {0} /\ incremental \in BOOLEAN
    /\ logical \in [SegIds -> {"None", "Waiting", "Visible", "Retired", "Completed"}]
    /\ asked \in [SegIds -> 0..MaxPages] /\ bounds \in Explored

-----------------------------------------------------------------------------
(* What a call works on, and its commitment.                              *)
(* An operator commented "bug:" is not part of the model.  It is the definition  *)
(* below it with a plausible programming error; put in its place, it makes TLC   *)
(* find the property named violated.                                             *)
Call == [pool |-> pool, display |-> display, published |-> published,
         speech |-> speech, logical |-> logical, asked |-> asked]

Commit(x) == \E y \in {x} :
    /\ pool' = y.pool /\ display' = y.display /\ published' = y.published
    /\ speech' = y.speech /\ logical' = y.logical /\ asked' = y.asked /\ bounds' = bounds

Only(S) == CHOOSE e \in S : TRUE

WithState(x, state) == {s \in SegIds : x.speech.segs[s].state = state}
Kept(x) == WithState(x, "In") \cup WithState(x, "Gone")

\* The segments of current_utterance_: none when the segmenter holds none.
Current(x) == IF Kept(x) = {} THEN {} ELSE x.speech.mine

Retired(x) == {s \in SegIds : x.logical[s] \in {"Retired", "Completed"}}

\* record_retire: segmenter and logical_ learn that S is retired; the first reason stays.
Recorded(x, S, completed) ==
    [x EXCEPT
        !.speech.segs = [s \in SegIds |->
            IF s \in S /\ @[s].state = "In" THEN [@[s] EXCEPT !.state = "Gone"] ELSE @[s]],
        !.logical = [s \in SegIds |->
            IF s \in S /\ @[s] \in {"Waiting", "Visible"}
            THEN (IF s \in completed THEN "Completed" ELSE "Retired") ELSE @[s]]]

\* What was retired because its caption was read to the end (clear_slot, Completed).
ReadToTheEnd(old, d) ==
    IF d.slot.key = old.slot.key \/ Com!MorePages(old) THEN {}
    ELSE ({old.slot.key} \cup Com!Anchored(old)) \ Com!Stale(old)

\* The display becomes d, on the way to which the composer retired N.
HeardOf(x, d, N) ==
    [Recorded([x EXCEPT !.display = d], N, ReadToTheEnd(x.display, d))
        EXCEPT !.pool = IF N = {} THEN @ ELSE Sch!RetireSegments(@, N)]

\* bug: the scheduler does not hear of it (StatesAgree).
BackUnheard(x, d) ==
    LET N == Com!With(d, "Retired") \ Com!With(x.display, "Retired")
    IN Recorded([x EXCEPT !.display = d], N, ReadToTheEnd(x.display, d))
\* display_events for what the composer retired on its way to d.
Back(x, d) ==
    IF d = x.display THEN x
    ELSE HeardOf([x EXCEPT !.published.stale =
                      @ \/ (d.slot.key = x.display.slot.key /\ d.slot.final # x.display.slot.final)],
                 d, Com!With(d, "Retired") \ Com!With(x.display, "Retired"))

ExpiredNow(x) == Back(x, Com!Expire(x.display))

RetiredThere(x, N, reason) == Back(x, Com!RetireSegments(x.display, N, reason))

\* scheduler_effects for what was retired outside the composer: each of its operations
\* expires first.
Told(x, N, reason) ==
    IF N = {} THEN x
    ELSE RetiredThere(ExpiredNow(Recorded(x, N, {})), N, reason)

GivenUp(p, q) == Sch!WithDisplay(q, {"Retired"}) \ Sch!WithDisplay(p, {"Retired"})
Forward(x, p, reason) == Told([x EXCEPT !.pool = p], GivenUp(x.pool, p), reason)

\* scheduler_effects for the scheduler's own tick, which every operation of it begins with.
SchedulerTicked(x) == Forward(x, Sch!TickedPool(x.pool), "StaleBeforeDisplay")

-----------------------------------------------------------------------------
(* Pages and corrections *)

Token(x, s) == IF x.published.key = s THEN 1 ELSE 0
TimeLeft(d, s) ==
    IF d.slot.key # s THEN Sch!NoDeadline
    ELSE IF d.slot.hold >= d.config.hold THEN 0 ELSE d.config.hold - d.slot.hold

\* expect_job: the composer waits for the answer of the job.
Expects(x, s, job) == Back(x, Com!Expecting(x.display, s, job))
\* bug: the composer is not told which job the scheduler has (JobsStayAgreed).
ExpectsNothing(x, s) == x
ExpectsCurrent(x, s) ==
    Expects(x, s, [rev |-> x.pool.segs[s].rev, att |-> x.pool.segs[s].att])
Asked(x, s, p) ==
    IF p.segs[s].att = 1 THEN Forward(x, p, "SegmentLimit")
    ELSE ExpectsCurrent(ExpiredNow(Forward([x EXCEPT !.asked[s] = x.display.segs[s].index],
                                           p, "SegmentLimit")), s)
\* maybe_reserve_quality
Reserve(x, s) ==
    IF ~Sch!MayRetry(x.pool.segs[s]) THEN x
    ELSE Asked(x, s, Only(Sch!Requested(Sch!TickedPool(x.pool), s, Token(x, s),
                                        TimeLeft(x.display, s))))

\* note_display_page
NotePage(x, s) ==
    IF s \notin Sch!Live(x.pool) THEN x
    ELSE Forward(x, Sch!Noted(x.pool, s, Token(x, s), TimeLeft(x.display, s)), "SegmentLimit")

VisibleIn(t, s) == IF Sch!MayShow(t, s) THEN Sch!MarkedVisible(t, s) ELSE t
\* display_events for a page that was entered or replaced.
PageShown(x, s) ==
    IF s \notin Sch!Live(x.pool) THEN x
    ELSE Reserve([NotePage(Forward(x, VisibleIn(Sch!TickedPool(x.pool), s), "StaleBeforeDisplay"), s)
                    EXCEPT !.logical[s] = "Visible"], s)

-----------------------------------------------------------------------------
(* Metadata *)

Recent(x) ==
    LET completed == {s \in SegIds : x.logical[s] = "Completed"}
    IN {s \in completed : Cardinality({t \in completed : Order(t) > Order(s)}) < MaxRecent}

\* bug: the pipeline forgets what the composer still holds (MetadataReclaimable).
ForgettableUnasked(x) ==
    {s \in Retired(x) \ Recent(x) : x.speech.closed \/ s \notin Current(x)}
\* prune: not while its utterance is open, nor while its text is still on display.
Forgettable(x) ==
    {s \in Retired(x) \ Recent(x) :
        /\ x.speech.closed \/ s \notin Current(x)
        /\ s # x.display.slot.key /\ s \notin Com!Live(x.display)}

Prune(x) ==
    LET F == Forgettable(x) IN
    [x EXCEPT
        !.logical = [s \in SegIds |-> IF s \in F THEN "None" ELSE @[s]],
        !.display.segs = [s \in SegIds |->
            IF s \in F /\ s # x.display.slot.key THEN Com!Absent ELSE @[s]],
        !.pool.segs = [s \in SegIds |->
            IF s \in F /\ @[s].display = "Retired" THEN Sch!Absent ELSE @[s]]]

-----------------------------------------------------------------------------
(* What the segmenter reports of a transcript: a segment revised, segments    *)
(* replaced by new ones or dropped, or a change to a segment it knows to be   *)
(* retired, which it gives up.                                                *)

Nothing == [fresh |-> {}, olds |-> {}, revised |-> {}, gone |-> {}]

\* One stretch of the transcript: everything else is before it or after it.
Contiguous(x, S, olds) ==
    \A t \in Kept(x) \ olds :
        (\A s \in S : Order(t) < Order(s)) \/ (\A s \in S : Order(s) < Order(t))
InOrder(S) == \A s, t \in S : s < t => Order(s) < Order(t)

Reports(x) ==
    LET In == WithState(x, "In")
        Fresh == {F \in {allotted + 1..m : m \in allotted..Cardinality(SegIds)} :
                    F \subseteq bounds.ids /\ InOrder(F)}
        No == {{}}
    IN [fresh : No, olds : No, gone : No, revised :
           {{s} : s \in {s \in In \cap bounds.revised : x.speech.segs[s].rev < MaxRevision}}]
       \cup {r \in [fresh : Fresh, olds : SUBSET In, gone : No, revised : No] :
                r # Nothing /\ Contiguous(x, r.fresh \cup r.olds, r.olds)}
       \cup {r \in [fresh : No, olds : No, gone : SUBSET Kept(x), revised : No] :
                r.gone \cap WithState(x, "Gone") # {} /\ Contiguous(x, r.gone, r.gone)}

Heard(x, r) ==
    [x EXCEPT
        !.speech.segs = [s \in SegIds |->
            CASE s \in r.olds -> Unheard
              [] s \in r.fresh -> [state |-> "In", rev |-> 1, olds |-> r.olds]
              [] s \in r.revised -> [@[s] EXCEPT !.rev = @ + 1]
              [] s \in r.gone -> [@[s] EXCEPT !.state = "Gone"]
              [] OTHER -> @[s]],
        !.speech.mine = @ \cup r.fresh,
        !.speech.stopped = @ \/ r.gone # {}]

\* begin_utterance
Begun(x) == IF x.speech.closed THEN [x EXCEPT !.speech = [NoSpeech EXCEPT !.closed = FALSE]] ELSE x

\* What the segmenter hands over again although it is not new; with a final
\* transcript, all of it.
Upserts(x, r, final) ==
    LET kept == Kept(x) \ r.olds
    IN r.fresh \cup r.revised
       \cup (IF r.gone # {} THEN {} ELSE IF final THEN kept ELSE Com!Moved(kept, r.fresh, r.olds))

\* What register_segment makes of the segment s in the scheduler t.
RefusedIn(t, s) ==
    \/ t.segs[s].display = "Retired"
    \/ t.segs[s].display = "Absent" /\ Cardinality(Sch!Managed(t)) >= MaxManaged
RegisteredIn(t, s, new) ==
    LET known == s \in Sch!Live(t)
    IN CASE RefusedIn(t, s) -> t
         [] known /\ new.rev = t.segs[s].rev ->
                Sch!SetSegment(t, s, [t.segs[s] EXCEPT !.order = Order(s)])
         [] OTHER -> Only(Sch!Registered(t, s, new.rev, Order(s), IF known THEN {} ELSE new.olds))

\* One segment the composer took is registered with the scheduler, or given up there.
ScheduledIn(x, t, s) ==
    Told(Forward(x, RegisteredIn(t, s, x.speech.segs[s]), "SegmentLimit"),
         IF RefusedIn(t, s) THEN {s} ELSE {}, "SegmentLimit")
Scheduled(x, s) ==
    IF s \notin Com!Live(x.display) THEN x
    ELSE ScheduledIn(x, Sch!TickedPool(x.pool), s)

\* Those of V, in the order of their ids.
ScheduledAll(x, V) ==
    LET after[n \in 0..Cardinality(SegIds)] ==
            IF n = 0 THEN x
            ELSE IF n \in V THEN Scheduled(after[n - 1], n) ELSE after[n - 1]
    IN after[Cardinality(SegIds)]

\* What apply registers, known since prune would forget it: nothing retired comes back.
Registrable(x, S, tombstones) ==
    {s \in S \ tombstones : x.pool.segs[s].display # "Retired"}

\* The composer refuses them all when it has no room for the new ones.
NoRoom(x, V) == Recorded([x EXCEPT !.pool = Sch!RetireSegments(@, V)], V, {})

\* logical_ gets an entry for every segment the composer knows.
Listed(x, V) ==
    [x EXCEPT !.logical = [s \in SegIds |->
        IF s \notin V \cap Com!Managed(x.display) \/ @[s] # "None" THEN @[s]
        ELSE IF s \in Com!Live(x.display) THEN "Waiting" ELSE "Retired"]]

\* register_segments, of V; old ones among them only change.
Composes(x, V, fresh, final) ==
    LET olds == [s \in SegIds |->
                    IF x.pool.segs[s].display = "Absent" THEN x.speech.segs[s].olds ELSE {}]
        revs == [s \in SegIds |-> x.speech.segs[s].rev]
    IN Back(x, Com!Registered(x.display, fresh, olds, V \ fresh, revs, final))
Registers(x, V, fresh, final) ==
    IF ~Com!Refused(x.display, fresh, V \ fresh) /\ Com!Full(x.display, fresh)
    THEN NoRoom(Composes(x, V, fresh, final), V)
    ELSE Composes(x, V, fresh, final)

\* What the report says is lost is retired everywhere.
Loses(x, lost, reason) ==
    Told([x EXCEPT !.pool = Sch!RetireSegments(@, lost)], lost, reason)

ApplyTo(x, V, r, final) ==
    LET fresh == {s \in V : x.display.segs[s].display = "Absent"}
    IN [after |-> Prune(Loses(ScheduledAll(Listed(Registers(x, V, fresh, final), V), V),
                              r.olds \cup r.gone,
                              IF r.gone = {} THEN "Replaced" ELSE "ReconcileAmbiguous")),
        used |-> Com!UsedUp(x.display, fresh, V \ fresh)]
ApplyTicked(x, U, r, final, tombstones) ==
    ApplyTo(ExpiredNow(x), Registrable(x, U, tombstones), r, final)

\* apply: the report goes to the composer, then to the scheduler, and what it retires
\* to both.
Apply(x, U, r, final) == ApplyTicked(SchedulerTicked(Prune(x)), U, r, final, Retired(x))

\* A transcript arrives: its report is applied.
Transcribed(x, r, final) ==
    \E a \in {Apply(Heard(x, r), Upserts(x, r, final), r, final)} :
        /\ Commit(a.after)
        /\ used' = a.used
        /\ allotted' = allotted + Cardinality(r.fresh)

Cutting == incremental /\ ~speech.closed /\ ~speech.stopped

\* interim: the segmenter cuts stable text into segments while it is allowed to.
Interim(r) ==
    /\ generation > 0
    /\ r # Nothing => Cutting
    /\ Transcribed(Begun(Call), r, FALSE)
    /\ UNCHANGED << generation, lastUpdate, qualityOn, running, incremental >>

\* confirm_final
Confirms(x, s) == Back(x, Com!ConfirmedIf(x.display, s))

\* final: what is on display of this utterance is confirmed first.
Final(r) ==
    LET s == published.key
    IN /\ generation > 0
       /\ \E x \in {IF ~speech.closed /\ s \in Current(Call)
                     THEN Confirms(ExpiredNow(Call), s) ELSE Begun(Call)} :
            /\ r \in Reports(x) \cup {Nothing}
            /\ Transcribed([x EXCEPT !.speech.closed = TRUE], r, TRUE)
       /\ UNCHANGED << generation, lastUpdate, qualityOn, running, incremental >>

-----------------------------------------------------------------------------
(* Requests *)

Dispatch ==
    /\ Cardinality(running) < MaxInFlight
    /\ \E t \in {Sch!Ticked} : \E j \in Sch!Foremost(t) :
          LET s == j.id.seg
              x == Told([Call EXCEPT !.pool = Sch!Unqueue(t, {j})],
                        GivenUp(pool, t), "StaleBeforeDisplay")
          IN /\ \E z \in {Expects(ExpiredNow(x), s, [rev |-> j.id.rev, att |-> j.id.att])} :
                  Commit(IF s \in Sch!Live(z.pool) THEN z
                         ELSE [z EXCEPT !.pool = Sch!CancelIds(@, {j.id})])
             /\ running' = running \cup {j.id}
             /\ lastUpdate' = (j.kind = "SourceUpdate")
    /\ UNCHANGED << generation, qualityOn, used, allotted, incremental >>

\* A dispatch with no slot or nothing to send still ticks, and may drop a retry.
DispatchNothing ==
    /\ \E t \in {Sch!Ticked} :
          LET lost == {j \in Sch!Retries(t.queue) : ~Sch!RetryWorthwhile(t, j)}
              free == Cardinality(running) < MaxInFlight
          IN /\ free => Sch!Foremost(t) = {}
             /\ Commit(Forward(Call, IF free /\ Sch!RetryMayStart(t) THEN Sch!DropRetries(t, lost) ELSE t,
                               "StaleBeforeDisplay"))
    /\ UNCHANGED << generation, lastUpdate, qualityOn, running, used, allotted, incremental >>

\* What a corrected translation must satisfy to be shown: the page it was asked for is
\* still the one published, and neither deadline has passed.
Corrects(x, s, verdict) ==
    /\ qualityOn /\ published.key = s /\ verdict = "Normal"
    /\ x.pool.segs[s].page \in {0, 1}
    /\ x.pool.segs[s].left # 0 /\ TimeLeft(x.display, s) # 0

\* The page is shown, when there is a page to show.
PageShownIf(x, s, shown) == IF shown THEN PageShown(x, s) ELSE x
ReserveIf(x, s, due) == IF due THEN Reserve(x, s) ELSE x

\* The scheduler judges the first answer.
JudgedIn(x, id, ok, verdict) ==
    IF ok /\ id.att = 1 /\ id.seg \in Sch!Live(x.pool)
    THEN [x EXCEPT !.pool.segs[id.seg] =
              Sch!Judged(@, verdict # "Normal", verdict = "Suspected" /\ qualityOn)]
    ELSE x

\* The display becomes d: the page of s may have been replaced.
Replaces(x, d, s) ==
    PageShownIf(Back(x, d), s, d.slot # x.display.slot /\ d.slot.key = s /\ ~d.slot.placeholder)
AnsweredWith(x, s, job, shown, aligned) ==
    Replaces(x, Com!Answered(x.display, s, job, shown, aligned), s)

\* The scheduler has taken the answer: the composer is given it, or a failure.
Composed(x, id, ok, pages, aligned, verdict) ==
    LET shown == IF ok /\ (id.att > 1 => Corrects(x, id.seg, verdict)) THEN pages ELSE 0
    IN ReserveIf(AnsweredWith(ExpiredNow(JudgedIn(x, id, ok, verdict)), id.seg,
                              [rev |-> id.rev, att |-> id.att], shown, aligned),
                 id.seg, ok /\ id.att = 1)

\* bug: the slot is free, but the request still counts as cancelled (TypeOK).
EndedCancelled(x, id) == x
\* A request that has ended, in whatever way, is no longer among the cancelled.
Ended(x, id) == [x EXCEPT !.pool.cancelled = @ \ {id}]

\* complete
Complete(id, ok, pages, aligned, verdict) ==
    /\ id \in running
    /\ \E t \in {Sch!Ticked} :
       \E taken \in {Sch!Taken(t, id)} :
       \E p \in {IF taken THEN Sch!Answered(t, id, ok) ELSE t} :
       \E x \in {[Call EXCEPT !.pool = p]} :
          /\ taken \/ (~ok /\ aligned)
          /\ Commit(Ended(Prune(Told(
                IF taken THEN Composed(x, id, ok, pages, aligned, verdict) ELSE x,
                GivenUp(pool, p), "TranslationFailed")), id))
    /\ running' = running \ {id}
    /\ UNCHANGED << generation, lastUpdate, qualityOn, used, allotted, incremental >>

-----------------------------------------------------------------------------
(* The display *)

\* bug: turning a page does not count as a new frame (CorrectionInPlace).
FrameOfText(d) ==
    IF d.slot.key = 0 THEN NoFrame
    ELSE [key |-> d.slot.key, job |-> d.segs[d.slot.key].job, index |-> 0, stale |-> FALSE]
FrameOf(d) ==
    IF d.slot.key = 0 THEN NoFrame
    ELSE [key |-> d.slot.key, job |-> d.segs[d.slot.key].job,
          index |-> d.segs[d.slot.key].index, stale |-> FALSE]

\* A new frame makes every page noted so far an older one.
Published(x) ==
    IF FrameOf(x.display) = x.published THEN x
    ELSE [x EXCEPT !.published = FrameOf(x.display),
                   !.pool.segs = [s \in SegIds |->
                       IF @[s].page = 1 THEN [@[s] EXCEPT !.page = 2] ELSE @[s]]]

\* The display becomes d with the tick: the page of s may have been entered.
Enters(x, d, s) ==
    PageShownIf(Published(Back(x, d)), s,
        /\ s # 0 /\ FrameOf(d).key # 0
        /\ s # x.display.slot.key \/ FrameOf(d).index # FrameOf(x.display).index)
Noticed(x, s) == IF s = 0 THEN x ELSE Reserve(NotePage(x, s), s)
RenderedAs(x, d) == Noticed(Enters(x, d, d.slot.key), d.slot.key)

\* The composer's tick, with the page it may turn to.
RenderedNow(x, aligned) == RenderedAs(x, Com!Rendered(x.display, aligned))
Rendered(x, aligned) == RenderedNow(ExpiredNow(x), aligned)

\* tick, in every iteration of the session's loops.
Tick(r, aligned) ==
    /\ generation > 0
    /\ r # Nothing => Cutting
    /\ \E a \in {Apply(Heard(Call, r), Upserts(Call, r, FALSE), r, FALSE)} :
          /\ Commit(Prune(Rendered(SchedulerTicked(a.after), aligned)))
          /\ used' = a.used
          /\ allotted' = allotted + Cardinality(r.fresh)
    /\ UNCHANGED << generation, lastUpdate, qualityOn, running, incremental >>

-----------------------------------------------------------------------------
(* Settings *)

\* reset: the session starts, stops, reconnects or changes the translation.  What is
\* published stays so until the next tick.
Reset(g, config, quality, cut) ==
    /\ g > generation
    /\ generation' = g /\ lastUpdate' = FALSE /\ qualityOn' = quality
    /\ incremental' = cut
    /\ Commit([pool |-> [segs |-> [s \in SegIds |-> Sch!Absent], queue |-> {},
                         cancelled |-> Sch!RetireSegments(pool, SegIds).cancelled],
               display |-> Com!DisplayOf([s \in SegIds |-> Com!Absent], Com!NoSlot, << >>, config),
               published |-> published, speech |-> NoSpeech,
               logical |-> [s \in SegIds |-> "None"], asked |-> [s \in SegIds |-> 0]])
    /\ UNCHANGED << running, used, allotted >>

\* set_display_config; whether what is on display now reads differently is left open.
SetDisplayConfig(c, pages, same) ==
    /\ \E x \in {ExpiredNow(Call)} : \E y \in {Back(x, Com!ApplyConfig(x.display, c, pages))} :
          Commit([y EXCEPT !.published.stale = @ \/ c.hold # display.config.hold \/ ~same])
    /\ UNCHANGED << generation, lastUpdate, qualityOn, running, used, allotted, incremental >>

\* set_incremental: switched off, what has not been shown of the open utterance waits
\* for its final transcript.
SetIncremental(on) ==
    LET N == IF on \/ speech.closed THEN {}
             ELSE {s \in Current(Call) : logical[s] = "Waiting"}
    IN /\ generation > 0 /\ on # incremental
       /\ incremental' = on
       /\ Commit(Told([Call EXCEPT !.pool = Sch!RetireSegments(@, N)], N, "Replaced"))
       /\ UNCHANGED << generation, lastUpdate, qualityOn, running, used, allotted >>

SetQualityRetry(on) ==
    /\ generation > 0 /\ on # qualityOn
    /\ qualityOn' = on
    /\ Commit(Forward(Call, IF on THEN Sch!Ticked ELSE Sch!WithoutRetries(Sch!Ticked),
                      "StaleBeforeDisplay"))
    /\ UNCHANGED << generation, lastUpdate, running, used, allotted, incremental >>

\* Time passes between calls.
Advance ==
    /\ Commit([Call EXCEPT !.pool.segs = Sch!Aged(pool), !.display = Com!Aged(display)])
    /\ UNCHANGED << generation, lastUpdate, qualityOn, running, used, allotted, incremental >>

-----------------------------------------------------------------------------
Init ==
    /\ generation = 0 /\ lastUpdate = FALSE /\ qualityOn = TRUE /\ running = {}
    /\ pool = Sch!PoolOf([s \in SegIds |-> Sch!Absent], {}, {})
    /\ \E b \in Explored : bounds = b /\ \E c \in b.configs : display = Com!DisplayOf([s \in SegIds |-> Com!Absent], Com!NoSlot, << >>, c)
    /\ used = 0 /\ allotted = 0 /\ published = NoFrame
    /\ speech = NoSpeech /\ incremental = TRUE
    /\ logical = [s \in SegIds |-> "None"]
    /\ asked = [s \in SegIds |-> 0]

\* A translation of blanks has no page, and is never suspected: it has no letters.
Answers(ok) == IF ok THEN 0..bounds.pages ELSE {0}
Judgements(pages) == IF pages > 0 THEN {"Normal", "Suspected", "Truncated"} ELSE {"Normal"}

Next ==
    \/ \E g \in 1..MaxGeneration, c \in bounds.configs, quality, cut \in bounds.switches : Reset(g, c, quality, cut)
    \/ \E r \in Reports(Call) \cup {Nothing} : Interim(r)
    \/ \E r \in {Nothing} \cup Reports(Call) : \E a \in Com!Alignments : Tick(r, a)
    \/ \E r \in Reports(Call) \cup Reports(Begun(Call)) \cup {Nothing} : Final(r)
    \/ Dispatch \/ DispatchNothing
    \/ \E id \in running, ok \in BOOLEAN, a \in Com!Alignments :
          \E pages \in Answers(ok) : \E verdict \in Judgements(pages) : Complete(id, ok, pages, a, verdict)
    \/ \E c \in bounds.configs : \E same \in {TRUE, c.layout = display.config.layout} :
          \E n \in IF c.layout = display.config.layout THEN {1} ELSE 1..bounds.pages :
             SetDisplayConfig(c, [s \in SegIds |-> n], same)
    \/ \E on \in bounds.switches : SetIncremental(on) \/ SetQualityRetry(on)
    \/ Advance

Spec == Init /\ [][Next]_vars

-----------------------------------------------------------------------------
(* Properties *)

\* After every call scheduler, composer and pipeline agree which segments live and which
\* one is visible: no decision of one is lost on the way to the others
\* (scheduler_effects, display_events, apply).
StatesAgree ==
    /\ Sch!Live(pool) = Com!Live(display)
    /\ \A s \in SegIds :
          /\ logical[s] \in {"Waiting", "Visible"} <=> s \in Com!Live(display)
          /\ s \in Com!Live(display) =>
                pool.segs[s].display = display.segs[s].display /\ logical[s] = display.segs[s].display

JobsAgree ==
    \A s \in Com!Live(display) :
        /\ display.segs[s].expected = [rev |-> pool.segs[s].rev, att |-> pool.segs[s].att]
        /\ display.segs[s].processed = pool.segs[s].processed

\* The composer had no room for a segment that the segmenter still hands over.
SomeDropped == \E s \in Kept(Call) : logical[s] = "None"

\* The composer waits for the very job the scheduler has, and knows whether it was
\* answered, after every call: unless a segment of the utterance was refused for want of
\* room.  The final transcript then hands that id over again, the composer refuses the
\* whole report as a reused id, and the scheduler takes the rest of it (apply).
JobsStayAgreed == [][JobsAgree /\ ~SomeDropped => JobsAgree']_vars

\* Whatever scheduler or composer keep of a segment, the pipeline's own list has it too,
\* so that prune will find and free it: none of the 256 places is lost (prune, apply).
MetadataReclaimable ==
    /\ Com!Managed(display) = {s \in SegIds : logical[s] # "None"}
    /\ Sch!Managed(pool) \subseteq Com!Managed(display)

\* A correction changes the page it was asked for, on display and published, and nothing
\* else: not another page, not after the deadline, not another revision's text
\* (complete; spec 006 par. 4.5).
CorrectionInPlace ==
    [][\A s \in Com!Live(display) :
          /\ display'.segs[s].job.att = 2 /\ display'.segs[s].job # display.segs[s].job
          => /\ published.key = s /\ published.index = asked[s]
             /\ display'.slot.key = s /\ display'.segs[s].index = asked[s]
             /\ display.segs[s].job = [rev |-> display'.segs[s].job.rev, att |-> 1]
             /\ display.slot.hold < display.config.hold]_vars

\* A retry queued for the page on display stays while that page, its revision, the time
\* and the switch allow it: a republication of the same page is no reason to drop it.
RetryLivesWithItsPage ==
    [][\A j \in Sch!Retries(pool.queue) :
          LET s == j.id.seg IN
          /\ display.slot.key = s /\ display'.slot.key = s
          /\ display'.segs[s].index = display.segs[s].index
          /\ display'.segs[s].expected = display.segs[s].expected
          /\ display'.config.hold - display'.slot.hold >= MinRemaining
          /\ pool.segs[s].left >= MinRemaining
          /\ qualityOn' /\ pool'.queue \subseteq pool.queue
          => j \in pool'.queue \/ j.id \in running']_vars
=============================================================================
