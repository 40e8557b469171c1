# A TLA+ model of obs-live-translate-caption

The plugin is an OBS audio filter. It streams the sound of one source to a live
transcription service over a WebSocket, cuts the transcript into segments, has each
segment translated over HTTP by a few worker threads, and shows the translations, page
by page, in a text source. This directory holds TLA+ models of the parts where the
order of events decides whether that works, the TLC runs that check them, and proofs
about them for TLAPS.

Paths below are relative to the repository; a bare `file.cpp` is in its `src/`.

## 1. Inventory

| component | state | operations | modelled |
|---|---|---|---|
| **Translation scheduler** `translation-scheduler.*` | segments with revision, attempt, display state and quality-retry state; a bounded queue of jobs; the requests that hold a transport slot | reset, register, request retry, dispatch, complete, mark visible, retire, forget, quality settings and judgement, page note, tick | `TranslationScheduler` |
| **Caption composer** `caption-composer.*` | segments with pages and an anchor (the caption they replace); the display slot with its deadlines; the rolling window of texts; pending configuration | reset, register, confirm final, expect job, complete, retire, tick, set config, forget | `CaptionComposer` |
| **Caption session** `caption-session.*` | configuration, status, `running_`, socket epoch, the locals of the WebSocket thread, its callbacks and the translate workers, two mutexes and two condition variables | configure, stop, the loop of `run`, the callbacks, the worker loop, input and output notifications | `CaptionSession`; throttling of the interim transcript and the formats of the messages are not |
| **Audio filter** `filter.cpp` | settings, which filter drives the session | create, update, destroy, the audio callback | the part that drives the session, in `CaptionSession` |
| **Caption pipeline** `caption-pipeline.*` | the three reducers (segmenter, scheduler, composer), the list of known segments, the page published last | one entry per event of the session; forwards the decisions of one reducer to the others | `CaptionPipeline`, on top of the modules of scheduler and composer; the publication gate and the log are not |
| **Caption segmenter** `caption-segmenter.*` | the last texts of the utterance, the age of every code point, the segments cut so far | interim, final, tick, set display state, set incremental, reset | `CaptionSegmenter`; `CaptionFeed` is what it promises |
| **Pause policy** `pause-policy.*` | silence clock | configure, feed, poll, reset | its outcome, as the flag `blocked` of `CaptionSession` |
| **Output state** `output-state.*` | one atomic flag | front-end callback | its outcome, as the flag `blocked` |
| **Ring buffer**, **audio conversion** | samples not sent yet | push, pop, clear, convert | no |
| **Backoff** `backoff.*` | none | delay of an attempt | when it is awaited, not its length |
| **Quality detector**, **caption wrap** | none | pure functions of texts | any of their results is possible |
| **Protocols**, **base64** | none | JSON and base64 | any event, any outcome is possible |
| **Caption output** | none | sets the text of an OBS source | no |
| **Languages, plugin entry, build, installer** | none | tables, registration | no |

**How they interact.** The UI thread and the audio thread call the session
(`configure`, `stop`, `push_input_pcm`). The session owns a WebSocket thread, whose
library calls back on a thread of its own, and the translate workers. All of them call
the pipeline under `out_mtx_`, so that scheduler, composer and segmenter are
sequential; what runs concurrently with them is the transport: requests that were sent
before a segment changed and end after it did. Scheduler and composer report what they
retired, and the pipeline tells the other one.

**What is hard here.**
- *Late answers.* A request cannot be recalled. Between its dispatch and its end the
  segment may be revised, retried, replaced, shown, retired or forgotten, and the
  generation may be reset. Every answer is checked against what is current.
- *Bounds.* Queue, waiting segments, metadata, slots and the window are bounded, and
  the limits are enforced inside calls that do something else.
- *Order.* Answers arrive in any order; captions must appear in the order of speech,
  and a segment may be revised to an earlier place, or replaced by several others,
  while its text is on display.
- *Time.* A page has a minimum time, a hold and a lifetime; a waiting segment goes
  stale; a retry is worth its while only as long as its page. All of them can end
  inside the call that answers or revises.
- *Agreement.* Three reducers decide on their own, in the middle of each other's calls,
  that a segment is retired, shown or answered, and the pipeline keeps a list of its own.
- *Guesses.* Each interim transcript is a new guess at the whole utterance. What was cut
  from an earlier one is reconciled with it: kept, revised, replaced, or frozen when it
  was already shown and is over.
- *Threads.* `run`, callbacks and workers use copies of the key, the epoch and the
  generation made under a lock that is then released; `configure` and `stop` join
  threads while holding `lifecycle_mtx_`, which the audio callback takes as well.

What makes each component correct is stated by the properties of its module;
`PROJECT.json` lists under `hazards` what can go wrong at which line, and which
property would show it.

## 2. TranslationScheduler

Every public member function is an action, since every call is made under one lock and
starts with `tick`. `segments_` is the function `segs` over ids; `queued_` the set
`queue` (a job occurs once, and the code orders it at dispatch); `running_` the sets
`running` and `cancelled`. `sent`, a history variable, is what has ever been
dispatched. The helpers of the code (`retire_segment`, `drop_quality_job`,
`enforce_limits`, `enqueue`, ...) are operators from a pool `p = [segs, queue,
cancelled]` to the next, composed in the order of the code, as the code updates the
three in place.

Abstractions: a translation is the job that produced it; absolute times are the age of a
segment and the time its page has left; contexts, log fields and settings are left
out. Calls the code rejects leave what `Tick` leaves and have no action of their own.
Where equal ranks and orders are decided by queue position, any of them may be
sent. Bounds: `MaxGeneration`, and the sets of ids, revisions, orders, pages.

| run | checks | instance |
|---|---|---|
| `SchedulerLimits` | `TypeOK`, `QueuesBounded`, `NoSegmentStranded`, `RetiredForGood`, `WaitingSettles`, `QueuedJobsLeave` (the last two liveness) | 3 segments, no quality retries; one place each in queue, waiting set and slots, two of metadata: every limit is exceeded by a call, also by the segment just registered |
| `SchedulerRevisions` | `JobsAreCurrent`, `SlotsBounded`, `OneRetryQueued`, `DispatchedOnce`, `TextNeverGoesBack`, `RetriesYield` | 2 segments, 2 revisions, 2 generations, 2 slots of which 1 for retries, a queue of 2 with room for 2 retries or for a retry beside an ordinary job, page lifetimes below the minimum that a retry needs and none at all: answers of a replaced revision, of a retried one and of the generation before |
| `SchedulerRetryBudget` | `FreshRevisionKeepsItsRetry`, violated (section 8) | 1 segment, 2 revisions |

`SchedulerRevisions` explores a second generation only while a request of the first is on
the wire (`MCOutlived`): without one the second is like the first, and the state space
is cut in half. As in the code (`kQualityMaxRetryQueued` is 4), its limits have room for more than one
retry, so that `OneRetryQueued` does not hold by them, and for an ordinary job beside a
retry, so that `RetriesYield` has something to yield to. `SchedulerLimits` has one revision,
one generation and no retries: a segment that is updated for ever, and requests that
outlive their generation, are outside what its liveness properties show.

`JobsAreCurrent` is the heart of it: whatever is queued, or on the wire and not asked
to cancel, is the current job of a live segment that has no answer. It relates three
containers that six helpers update separately.

*Fairness.* `tick` is called by the session's loop every 100 ms, the workers dispatch
whenever a slot is free and a job eligible, and every request ends, because the HTTP
client has a timeout. Nothing is assumed about the speaker, who may register new
segments for ever.

## 3. CaptionComposer

Same style: `d = [segs, slot, window, config]` is handed from helper to helper, and an
action commits the result. `Tick` has one disjunct per branch of the code's `tick`
(`ShowReplacement`, `ShowCorrection`, `TurnPage`, `LeaveSlot`, `Follow`, `Stay`,
`FillSlot`), all of them after `apply_config` and `expire`. `Register` takes a batch as
the segmenter reports it: a new tail `fresh`, the old segments it replaces, and at
most one revised segment.

Abstractions: a translation is the number of its pages; whether a corrected text agrees
with the pages already read is a choice (`aligned`), since it depends on the words;
deadlines are elapsed times compared with the configuration in force, which is what
`apply_config` maintains; a retired segment keeps only its tombstone unless its text
is on display, because nothing else of it is read again. Bounds: ids, `MaxRevision`,
`MaxPages`.

| run | checks | instance |
|---|---|---|
| `CaptionComposer` | `TypeOK`, `DisplayOwnsSlot`, `ReplacementsAnchored`, `WindowFollowsSlot`, `ShownTextNeverGoesBack`, `CaptionsInOrder`, `ReplacedCaptionStays` | 3 segments of which the second belongs before the first, 2 revisions, room for 2 to wait: replacement of a shown caption by two, of those again, insertion before what is shown |
| `CaptionComposerPages` | `PageKeepsMinimum`, `CaptionLeaves`, `WaitingSettles` (the last two liveness) | 2 segments of up to 2 pages, two configurations with different hold and layout |

Two revisions are enough for an answer to be late, three segments for a replacement to be
replaced while a third waits; two pages for a page that is followed and one that is not.

*Fairness.* `render_and_publish` ticks in every iteration of the loops of `run`, while
connected, between connections and while paused; and time passes.

## 4. CaptionPipeline

The composition of the three reducers. `CaptionPipeline` instantiates the modules of
scheduler and composer (`Sch` and `Com`) on its own variables `pool` and `display`, and
puts their helpers together as `caption-pipeline.cpp` puts the member functions
together; it has no transition of theirs of its own. A call works on a record
`x = [pool, display, published, speech, logical, asked]` from the first line to the
last, and `Commit` makes it the next state.

| module | code |
|---|---|
| `Told` | `scheduler_effects`: what the scheduler gave up is retired in the other two |
| `Back`, `PageShown` | `display_events`: what the composer retired, entered or replaced is passed to the scheduler |
| `Reserve`, `NotePage`, `Corrects` | `maybe_reserve_quality`, `note_display_page`, the correction branch of `complete` |
| `Apply` | `apply`: a report of the segmenter goes to the composer, then segment by segment to the scheduler |
| `Prune` | `prune`, the only place where metadata is forgotten |
| `Interim`, `Final`, `Tick`, `Dispatch`, `DispatchNothing`, `Complete`, `Reset`, `SetDisplayConfig`, `SetIncremental`, `SetQualityRetry` | the calls of the session |

The segmenter is represented by what it reports (`Reports`): a segment revised, a
stretch replaced by new segments or dropped, a change to what it knows to be over. That
the real segmenter reports nothing else is what section 5 is about. `asked` remembers
the page a retry was reserved for. A publication is the token of a page: 1 for the frame
published last, 2 for an older one.

| run | checks | instance |
|---|---|---|
| `CaptionPipeline` | `TypeOK`, `StatesAgree`, `MetadataReclaimable`, `CorrectionInPlace`, `JobsStayAgreed` | four families of bounds, below |
| `CaptionPipelineRetry` | `RetryLivesWithItsPage`, violated (section 8) | 1 segment, 2 revisions |

No single choice of bounds has every case and stays small, so a behaviour keeps to one
of four (`Explored`, chosen initially): two segments of which the first is revised,
replaced or followed; three segments for two places of metadata, cut from final texts
alone; one revised segment while both switches are moved; one segment of two pages, its
retry and the turn of the page, under two configurations. Each hazard listed for the
pipeline occurs in one of them: that is what the mutants of this run show. Queue and
slots have one place, so that a limit is hit by every second call.

`StatesAgree` is the reason for the module: after every call scheduler, composer and
the pipeline's list have the same live segments and the same one visible, although a
segment may expire in the middle of the call that revises, shows or answers it.

`JobsStayAgreed` says the same of the job that is awaited or answered, with an exception
the code forces on it. When a segment was refused because all places were taken, the
segmenter goes on handing it over, and the last report of the utterance does so for certain,
since all of its segments become final. Its id is spent by then, so the composer refuses
the whole report as one of reused ids (`caption-composer.cpp:272`), while the scheduler
registers those of its segments that the composer already knows
(`caption-pipeline.cpp:343-347`). A segment revised in that report then has its new
revision in the scheduler and the old one in the composer: its translation is sent for
and never accepted. The property is about every step from a state without such a refused
segment (`SomeDropped`). Without that condition TLC finds the refused report in six states,
with three segments for two places, the first of them revised. The comment at
`caption-pipeline.cpp:296-298` names this danger and guards retired segments against it;
those that never got a place are in no list and are not guarded.

A final transcript that only repeats the last interim one reports no change
(`Nothing`), and still hands every segment over.

## 5. CaptionSegmenter and CaptionFeed

The algorithm as it is: normalisation, the choice of a cut (`split_caption_source`),
matching a new text with the segments cut so far (`match_prefix`), the ages of code
points, and `reconcile` with its branches: keep, revise, replace, freeze
(`ReconcileAmbiguous`), start anew (`SegmentLimit`). An action hears any text of the
vocabulary at any pace, or is told that a segment is over (`Retire`). `taken` is the
caller: it applies nothing but what the calls return.

Abstractions: a text is a sequence of code points of width one, so that UTF-8 and wide
code points are left out; the marks of one rank are one mark; the ages count ticks and
stop at `OpenAge`, above which nothing compares them; `first_seen_ms` is only handed on.
Keys are segment ids, which are unique by themselves.

`CaptionFeed` is the abstract specification: what whoever consumes segments may rely on.
An id is never used twice, a revision of a segment is one text, the segments on offer
have different places, new ones name exactly those that go for them, and a final
segment only goes. Nothing in it says how text is cut. `ImplementsFeed` is the
refinement, with `shown <- taken, issued <- nextId`.

| run | checks | instance |
|---|---|---|
| `CaptionSegmenter` | `TypeOK`, `ConsumerAgrees`, `TranscriptKept`, `NothingSaidTwice`, `OnlyStableTextCut`, `ImplementsFeed` | two vocabularies (`MCSentences`, `MCWords`), room for 2 segments, 4 ids, texts of up to 8 code points and `MaxSource` 7 |

The texts are chosen so that every branch is taken: sentences that change, go and come
back; two spaces in a row; a point between digits; a text longer than the source limit
and of more sentences than there is room for; a text without an end of sentence, which
is only cut by its age; a segment that ends inside a later, longer word. A behaviour
keeps to one vocabulary, as mixing them only multiplies states. Two segments are enough
for a prefix and a suffix around nothing, an insertion, a revision and a replacement of
one by two when a tombstone is there; with four ids a segment can be replaced twice.

## 6. CaptionSession

The UI thread, the audio thread, `run`, the callbacks and the workers, interleaved. A
critical section under `out_mtx_` is one step together with its notification; what the
code does between two of them is another step, with the copies it kept (`run.key`,
`worker[w].key`). `socket_epoch_` and `generation_` are only compared for equality with
a copy, so that a copy is the flag "still current", which a reset clears: no counter
needs a bound. `lifecycle_mtx_` is held by a caller that is `starting` or `stopping`.
Of the pipeline only matters whether it has segments and whether a job is queued.

| run | checks | instance |
|---|---|---|
| `CaptionSession` | `TypeOK`, `CredentialsCurrent`, `StatusSettles`, `RefusedKeyIsCurrent`, `AuthErrorIsKept` | 2 workers (symmetric), three settings: a good key, the same with another model, a bad key, so that a change reconnects, resets only, or changes nothing |
| `CaptionSessionEnds` | `OvertakenConnectionEnds`, `JoinsReturn` (liveness) | 1 worker, a good and a bad key |
| `CaptionSessionRefused` | `RefusedKeyIsNotRetried`, violated (section 8) | 1 worker |
| `CaptionSessionAudio` | `AudioNeverWaitsForConnection`, violated (section 8) | 1 worker |

One worker is enough where workers do not race with one another: they share nothing but
the pipeline, and its own model has the slots.

*Fairness.* The operating system runs the threads: weak fairness of `run`, of the
callbacks that have begun, of each worker, and of a join whose threads are gone. None
for the user, the sound or the network: a connection need not open, close or err.

## 7. What the runs show, in general

Passing runs are exhaustive for their instances. Each property of each passing run has a
*mutant* in `PROJECT.json`: a definition of the model replaced by a plausible
programming error (the operator marked `bug:` just before it), for which TLC finds the
property violated under the same configuration. So no property holds for lack of
behaviours. `OneRetryQueued` and `RetriesYield` have a second one, since the first breaks
only one of their conjuncts.

Deadlock is checked in every run: no state of any model is without a successor.

## 8. Disagreements found

- **A fresh revision may have no retry.** `enqueue` drops the queued retry of the old
  revision after `register_segment` has reset the quality state, and the drop marks the
  *new* revision's retry as consumed. Spec 006 gives every revision a budget of its own.
  Run `SchedulerRetryBudget`.
- **A refused key is tried again.** The pump decides to pause; a worker's request is
  refused and sets `AuthError`; the pause is announced over it and ends as `Idle`; the
  audio callback restarts the session with the same key. Run `CaptionSessionRefused`.
- **The audio callback can wait for a connection.** `configure` takes
  `lifecycle_mtx_`, which `stop` holds while it joins an open connection's threads.
  Run `CaptionSessionAudio`.
- **A retry is dropped although its page stays.** When the update of a visible segment
  is answered, the retry is reserved in the same call with the publication of the
  frame before; the next tick publishes the frame and takes the retry for another
  page's. Spec 006 ties a retry to the page it was reserved for, and that page is on
  display. Run `CaptionPipelineRetry`.

## 9. What is proved

TLAPS proves the following for every value of the constants. Of `TranslationScheduler`,
that is for any number of segments, revisions and generations and for any limits that
satisfy the module's two assumptions: ids, revisions and orders are numbers, and the
limits are natural numbers, those of slots, queue and retry slots positive, as they
are in `translation-scheduler.hpp`.

- `TranslationSchedulerProofs`: **TypeCorrect**, `Spec => []TypeOK`. `TypeOK` alone is
  not inductive, since a job is built from the revision of a live segment: `TypeInv`
  adds that a live segment has a revision and an attempt, and that the generation is
  then positive. `PoolTyped` says the same of a pool in the middle of a call, so that
  each helper has a lemma (`RetireTyped`, `DropTyped`, `EnqueueTyped`, ...), and an action
  is the composition of the lemmas of its helpers. Part of it is that a cancel mark
  never outlives its request (`cancelled \subseteq running`).
  Of the jobs it proves **JobsStayCurrent**, **OneRetryIsQueued**, **SentOnce**
  (an action property) and **SlotsStayBounded**. The first three follow from
  **CoreCorrect**, the invariance of `CoreInv`:
  - a queued job is the current, unanswered job of a live segment, one per segment, and
    a retry only of a visible one;
  - a request on the wire that was not asked to cancel is current as well;
  - at most one segment is visible;
  - what was ever sent is of an older generation, or of an allocated id and no newer
    than the segment's current job. This is what makes `SentOnce` inductive: a job that
    becomes current is newer than everything sent for its segment, and a new segment
    has an id above the high water, above which nothing was sent.

  Within a call the invariant does not hold: `register_segment` stores the new revision
  before `enqueue` replaces the old one's job. `Core(p, X, h)` therefore exempts the
  segments `X` under change, and takes the high water `h` the call will leave;
  `SetCore` puts the segment into `X`, `EnqueueCore` takes it out again, and
  `ReleaseCore` does so for an answer. `CoreInv` was checked with TLC on the instance of
  `SchedulerRevisions` before it was proved.
  `SlotsStayBounded` adds the finiteness of `running` and uses of `Core` that a job is a
  retry just when its attempt is the second.
- `TranslationSchedulerSteps`: **QueuesStayBounded**. `enforce_limits` retires waiting
  segments until the limits hold *or none waits any more*, so the invariant `Limits` is
  that disjunction: within the limits, or nothing waits, and then `CoreInv` leaves no
  room in the queue but for the visible segment's job. Every helper only takes away
  (`Shrinks`), except the registration of a segment and the enqueueing of a job, which end
  with `enforce_limits`; what that leaves is the lemma `EnforceEnforces`.
  Besides, **NoSegmentIsStranded**, and the action properties
  **TextsNeverGoBack**, **RetiredStaysRetired** and **RetriesAlwaysYield**.
  - `Served(p, X)` says of a pool in the middle of a call that each live segment outside
    `X` has its first attempt queued or on the wire until it is answered, and a text once
    it is answered, visible or retried. It needs one more conjunct, that a queued retry is
    not a first attempt: this is what makes it harmless that expiry, the settings and the
    limits drop retries.
  - `TextsOk` (**TextsAreOfTheirJobs**) is what makes a late answer harmless: the text of
    a live segment is that of an older job than the current one, or the current one's and
    then it is answered. An answer is only taken for the current, unanswered job
    (`CoreInv`), so it is newer than the text it replaces. `Carries` and `Goes` say what a
    call may do to the texts and to the live segments between two pools.
  - that a retired segment stays retired is the high water's doing: a registration of an
    id that is not live needs one above it;
  - that retries yield follows from what `dispatch` looks at after its own tick, whose
    expiry may take ordinary jobs from the queue only with their segments.

Of `CaptionSession`, for any settings, keys, bad keys and number of workers,
`CaptionSessionProofs` proves **TypeCorrect**, **CredentialsStayCurrent**,
**StatusAlwaysSettles** and the action properties **RefusedKeyStaysCurrent** and
**AuthErrorStays**, all from the invariance of `SessionInv` (**SessionCorrect**). Its parts,
besides the types:

  - `CopiesCurrent`: a copy of the key that counts as current is the key in use. It is kept
    by `configure` because it clears the flag of all copies whenever it changes the key;
  - `WorkIsOfConnection`: segments, and requests that count as current, exist only while the
    connection is open and current, so that a change of the key that clears the
    connection's flag leaves no request with the old key;
  - `Configured` and `CallsHaveSettings`: no thread runs before a configuration, and who is
    about to configure has one;
  - `OpenInConnection`, `ReconnectingEnds`, `StatusSettles`: where the flags of the
    connection mean something, who may end a session that reconnects, and what it says when
    it has ended.

`SessionInv` has one lemma for each of the 36 steps of the module, `StepKeeps` puts
them together, and `StatusWriters` names the few steps that write the status.

Of `CaptionComposer`, for any finite set of ids, any configurations and any limits,
`CaptionComposerProofs` proves **TypeCorrect**, **OneCaptionOnDisplay**,
**NoReplacementIsLost** and **WindowAgreesWithSlot** from the invariance of `ComposerInv`
(**ComposerCorrect**). `Steady(d, h)` is its part about a display `d` in the middle of a
call that will leave the high water `h`; every helper of the code has a lemma that it
keeps `Steady`, and every operation is a few of these in a row. Besides the properties
themselves it needs

  - `PagesFit`: the pages read and those left are no more than there may be, so that a
    change of the layout never leaves the visible text without a page;
  - `WaitingUnread`: what waits was not read, so a text that takes another's place begins
    where that one's reader is;
  - `LivesAllocated`: an id above the high water was never registered, so a new segment
    overwrites nothing, in particular not the owner of the slot;
  - that the owner of the slot waits for no replacement itself, or else `clear_slot`
    could leave a segment anchored to a slot that is gone.

`CaptionComposerSteps` proves what a step may never do to the caption on display:
**PagesKeepTheirMinimum**, **TextNeverGoesBackOnDisplay**, **CaptionsAppearInOrder** and
**ReplacedCaptionsStay**, from `StepInv` (**StepsCorrect**), which adds to `ComposerInv` that

  - a page is on display at least as long as its hold counts, up to the minimum, so that a
    caption whose hold is over has had its minimum time, whatever the configuration was;
  - a placeholder has no page left to turn;
  - no translation is of a later request than the one awaited.

A call is a chain of helpers, and each of them has a lemma that relates the displays
before and after it: `Untouched` (the caption on display stays with its text and page),
`Gone` (it left, and not before its time) and `OnTheWay` (one of the two). `Respects` is
what a whole step owes, and each action composes it from its helpers.

Of `CaptionSegmenter`, for any vocabularies and any limits that satisfy its assumption,
`CaptionSegmenterProofs` proves **SegmentsStayInOrder** (`TypeOK`), **CallerStaysInStep**
(`ConsumerAgrees`), **SegmentsHoldTheTranscript** (`TranscriptKept`), **WhatIsOverStays**
(`NothingSaidTwice`), **OnlyWhatIsStableIsCut** (`OnlyStableTextCut`) and the refinement
**RefinesCaptionFeed**, `Spec => Feed!Spec`.

  - What a text is cut into, how many segments it begins with and what normalizing leaves are
    folds over its places. The induction they need is made with sets rather than operators:
    `Induction` is the least element of the numbers that are missing from a set
    (`NatLessThanWellFounded`, `WFMin`), `FoldTable` shows that the function a fold is
    defined by exists, and `FoldKeeps` carries a set of results from place to place. From
    these come `SplitWhole` (no part is empty or wider than `MaxWidth`, and together the
    parts say what the text says), `MatchWhole` (the segments matched say what the text says
    up to where it goes on) and `NormalizedTyped`.
  - What a text says is its `Content`, the text without its spaces, and what parts say is
    their `Whole`. `FlattenConcat` shows that `FlattenSeq` of a concatenation is the
    concatenation of the two, so both are sums (`ContentConcat`, `WholeConcat`), and what is
    skipped or trimmed adds nothing to them (`ContentOfBlank`).
  - `TextLies`: the parts of a text say what it says, and they agree with the segments on a
    beginning and an end that do not overlap on either side (`Sources`: every kept place has
    one source, and no source is in the changed part).
  - `SegInv` is the invariant: the ids of the segments are different and among those issued,
    the orders are the places, the snapshots and ages fit, no segment is final before the
    utterance is closed, and `Agrees`, what the caller has. It was checked with TLC on the
    instance of `CaptionSegmenter` before it was proved.
  - `Outcome` is what each result of `reconcile` and `evaluate` owes the utterance it was
    called on: the invariant, `Continues` (each segment is new and reported, or goes on from
    one of the old ones, and is reported unless nothing about it changed) and `KeepsSaid`.
    `TakesOver` shows that a caller who is handed such a result agrees again and has been
    given one call of a feed (`Offers`).
  - `Says` is what such a result owes the text: the segments stay and the utterance is
    stopped, or they are cut from the text, whole or, at the segment limit, from its end.
    With it `Kept` is invariant: the segments stand for the transcript (`Stands`). It needs
    nothing of the texts heard, only that a call finds either no segments or those of the
    transcript (`Finds`).
  - `HeardOk` is the invariant behind the ages: while the utterance is not stopped, the
    current text is the same as every text of `recent` up to each code point that is a tick old.
    Hearing a text keeps the ages only of what it has in common with the one before
    (`HearsHeard`), so the settled text begins them all (`SettledBegins`), and the segments
    cut from it begin what they say (`SegmentsBegin`).

Of `CaptionPipeline`, for any finite set of segments and any limits, configurations and
bounds that satisfy its two assumptions, `CaptionPipelineProofs` proves **PipelineTypeOK**,
**PipelineStatesAgree** and **PipelineMetadataReclaimable** from the invariance of
`PipelineInv` (**PipelineCorrect**): the counters are in range, and `Sound` holds of the call
record with nothing exempted.

  - Within a call the parts disagree, and how much is what the arguments of
    `Sound(x, A, X, U, W)` say. `A` are the ids allotted so far. `X` are segments
    whose new visibility has not reached everybody yet. `U` are those the scheduler gave up,
    or has not been given, while the composer still has them. `W` are those of the
    report it will still be given.
  - `Linked` is the part of `Sound` about one segment: what the scheduler has alive the
    pipeline's list has alive, what that list has alive the composer has alive, and outside `U`
    the other way round; who is listed is known to the composer; a page to turn to has a
    text in the scheduler; and what is heard of again was allotted. The parts of the
    chain are kept one by one because each helper passes a decision on to one neighbour
    only.
  - `BackSound` says that what the composer shows anew joins `X`, until the scheduler and the
    list hear of it; `ToldSound` and `ForwardSound` that what was given up leaves `U` again;
    `ScheduledSound` takes a segment of the report out of `U`, and `ScheduledAllSound`
    carries that through the ids in turn. Each action has a lemma that composes these
    (`InterimKeeps`, `CompleteKeeps`, ...), and `NextKeeps` puts them together.
  - `CaptionPipelineParts` has what these lemmas need of the helpers of scheduler and
    composer, for a pool or a display in the middle of a call: `Fades` (segments are only
    retired), `Stays`, `NoneStale`, and that each helper keeps `GoodPool`. The composer's
    part is the lemmas of `CaptionComposerSteps` about any display, taken over for the
    instance of that module on the pipeline's variables (`Cap`, whose assumptions `CapAssumptions`
    proves from the pipeline's).

Only model-checked:

- all liveness properties, since fairness and `ENABLED` are out of TLAPS' reach;
- of `CaptionPipeline` the action properties `CorrectionInPlace` and `JobsStayAgreed`, which
  relate the jobs, pages and publications of two calls.

No operator is recursive; what is computed step by step (`ScheduledAll`, and the folds of the
segmenter) is a recursive function or a fold of the community modules.

## 10. What is not modelled, and what is left

A next step, in this order:

1. Abstract specifications of two more components: `TranslationPool` (a bounded pool of
   requests that are sent once, and answered or dropped) above `TranslationScheduler`, and
   `CaptionBox` (one caption at a time, each for its minimum time, in order) above
   `CaptionComposer`. Most of what they would say is stated as properties today.
2. `PausePolicy` (silence clock, waiting for the first signal) and `RingBuffer` (drops the
   oldest samples, keeps their order) as small modules with a refinement of a queue. Both
   are sequential and have a single caller each; the session sees them only as `blocked` and
   as sound that is or is not there.
3. The proofs listed above as missing.

Not modelled of modelled components:

- the pipeline's publication gate, which holds back a frame equal to the last, its log
  events and the contexts of a request: no decision is based on them but what is logged;
- `request_quality_retry` as the session's own call: it does what `Reserve` does for the
  pipeline;
- UTF-8 and the width of code points in the segmenter: its texts are sequences of code
  points of width one;
- the session's throttling of the interim transcript on screen, which only writes a text.

Left out for good: pure functions of texts (quality detector, wrapping, JSON, base64,
languages), which have no state and whose every result the models admit; calls into
OBS; the data races on the settings' strings between `filter_update` and
`filter_audio`, which are undefined behaviour rather than an order of events; build
and installation.
