--------------------------- MODULE CaptionSession ---------------------------
(***************************************************************************)
(* The session singleton (caption-session.cpp) with the part of the filter *)
(* that drives it (filter.cpp).  Five kinds of thread meet here:           *)
(*   - the OBS UI thread, which applies settings and tears filters down;   *)
(*   - the OBS audio thread, which takes the session over and restarts it; *)
(*   - the session's WebSocket thread, run();                              *)
(*   - the WebSocket library's callbacks, between ws.start and ws.stop;    *)
(*   - the translate workers, translate_worker().                          *)
(* A critical section under out_mtx_ is one step, with the notification    *)
(* that follows it: a worker cannot fall asleep on a condition that holds. *)
(*                                                                         *)
(* socket_epoch_ and generation_ are only ever compared for equality with  *)
(* a copy taken earlier, so a copy is the flag "still current" and a reset *)
(* clears the flags.  Of the pipeline it matters here only whether it has  *)
(* segments and whether a translation of one is queued.  That a request is *)
(* asked to cancel only makes it end sooner, and is left out.              *)
(***************************************************************************)
EXTENDS Naturals, FiniteSets

CONSTANTS
    Configs,    \* the settings a user enters: a key and whatever else matters
    Key(_),     \* the API key of one of them
    BadKeys,    \* the keys the servers reject
    Workers     \* the translate workers, kTranslateWorkers of them

ASSUME WorkersAssumption == IsFiniteSet(Workers)

VARIABLES
    settings,       \* the settings of the first filter, NoConfig without a key
    claimed,        \* that filter knows that it drives the session (caption_active)
    config,         \* cfg_
    running,        \* running_
    configChanged,  \* config_changed_
    status,         \* status_
    blocked,        \* current_pause_reason() would not be None
    pipeline,       \* no segments, nothing to translate, or a job is queued
    caller,         \* the UI and the audio thread
    run,            \* where the WebSocket thread is in run(), and its locals
    callback,       \* what a WebSocket callback has yet to do
    worker,         \* the translate workers
    refused         \* history: the key in use was refused, no user acted since

filter == << settings, claimed >>
vars == << filter, config, running, configChanged, status, blocked, pipeline,
           caller, run, callback, worker, refused >>

NoConfig == "none"

Callers == {"ui", "audio"}
CallerPcs == {"idle", "configure", "stop", "starting", "stopping"}
RunPcs == {"off", "top", "read", "gate", "announce", "waiting", "poll", "connect",
           "pump", "iterate", "close", "stopws", "reconnecting", "backoff", "exit"}
Statuses == {"Idle", "Connecting", "Connected", "Reconnecting", "AuthError", "Paused"}
WorkerPcs == {"off", "ready", "asleep", "busy"}
Keys == {Key(cfg) : cfg \in Configs} \cup {""}

\* The connection between ws.start and the return of ws.stop.
Connection == run.pc \in {"pump", "iterate", "close", "stopws"}

TypeOK ==
    /\ settings \in Configs \cup {NoConfig} /\ config \in Configs \cup {NoConfig}
    /\ claimed \in BOOLEAN /\ running \in BOOLEAN /\ configChanged \in BOOLEAN
    /\ status \in Statuses
    /\ blocked \in BOOLEAN /\ refused \in BOOLEAN
    /\ pipeline \in {"empty", "idle", "queued"}
    /\ caller \in [Callers -> [pc : CallerPcs, cfg : Configs \cup {NoConfig}]]
    /\ run \in [pc : RunPcs, key : Keys, current : BOOLEAN, open : BOOLEAN,
                closed : BOOLEAN, rejected : BOOLEAN, why : {"loop", "pause", "age"}]
    /\ callback \in {"none", "rejecting", "closing"}
    /\ worker \in [Workers -> [pc : WorkerPcs, key : Keys, current : BOOLEAN]]
    /\ run.open \/ callback # "none" => Connection

-----------------------------------------------------------------------------
Busy(w) == worker[w].pc = "busy"

\* lifecycle_mtx_ is held while its owner joins threads.
LifecycleFree == \A c \in Callers : caller[c].pc \notin {"starting", "stopping"}
ThreadsGone == run.pc = "off" /\ \A w \in Workers : worker[w].pc = "off"

Awake(ws) == [w \in Workers |->
    IF ws[w].pc = "asleep" THEN [ws[w] EXCEPT !.pc = "ready"] ELSE ws[w]]

\* reset_pipeline_locked(invalidate_socket), for the workers as they are in ws
\* and the WebSocket thread as it is in r: whatever is on the wire now belongs to
\* an older generation.
Reset(ws, r, invalidate) ==
    /\ pipeline' = "empty"
    /\ worker' = Awake([w \in Workers |-> [ws[w] EXCEPT !.current = FALSE]])
    /\ run' = IF invalidate THEN [r EXCEPT !.current = FALSE] ELSE r

\* A call into the pipeline that keeps the generation, and its notification: it
\* plans from the segments there are.
PipelineCall(ws) ==
    /\ pipeline' \in IF pipeline = "empty" THEN {"empty"} ELSE {"idle", "queued"}
    /\ worker' = Awake(ws)

-----------------------------------------------------------------------------
NoCall == [pc |-> "idle", cfg |-> NoConfig]
NoRequest == [pc |-> "ready", key |-> "", current |-> FALSE]

\* run() at pc, its locals gone.
RunAt(pc) == [pc |-> pc, key |-> "", current |-> FALSE, open |-> FALSE,
              closed |-> FALSE, rejected |-> FALSE, why |-> "loop"]

Init ==
    /\ settings = NoConfig /\ config = NoConfig
    /\ claimed = FALSE /\ running = FALSE /\ configChanged = FALSE
    /\ status = "Idle"
    /\ blocked \in BOOLEAN
    /\ pipeline = "empty" /\ refused = FALSE
    /\ caller = [c \in Callers |-> NoCall]
    /\ run = RunAt("off")
    /\ callback = "none"
    /\ worker = [w \in Workers |-> [NoRequest EXCEPT !.pc = "off"]]

(* The filter's threads.  The session itself does not move. *)

SessionRests == UNCHANGED << config, running, configChanged, status, blocked, pipeline,
                             run, callback, worker >>

\* filter_update of the first filter, with a key.
UpdateSettings(cfg) ==
    /\ caller["ui"].pc = "idle"
    /\ settings' = cfg /\ claimed' = TRUE
    /\ caller' = [caller EXCEPT !["ui"] = [pc |-> "configure", cfg |-> cfg]]
    /\ refused' = FALSE
    /\ SessionRests

\* filter_update without one: stop_caption_session_for_settings leaves a session
\* that stopped on an authentication error alone, to keep its message.
ClearKey ==
    /\ caller["ui"].pc = "idle"
    /\ settings # NoConfig
    /\ settings' = NoConfig /\ claimed' = FALSE
    /\ caller' = IF claimed /\ (running \/ status # "AuthError")
                 THEN [caller EXCEPT !["ui"].pc = "stop"] ELSE caller
    /\ refused' = FALSE
    /\ SessionRests

\* The first filter is removed from its source and destroyed; a second one, with the
\* settings next, may be the first from now on.
DestroyFilter(next) ==
    /\ caller["ui"].pc = "idle"
    /\ settings # NoConfig
    /\ settings' = next /\ claimed' = FALSE
    /\ caller' = IF claimed THEN [caller EXCEPT !["ui"].pc = "stop"] ELSE caller
    /\ refused' = FALSE
    /\ SessionRests

\* filter_audio: needs_start.
NeedsStart == ~running /\ status # "AuthError"

\* filter_audio: the filter takes the session over, or restarts it.  The settings
\* are copied before configure takes the lock.
AudioConfigures ==
    /\ caller["audio"].pc = "idle"
    /\ settings # NoConfig
    /\ ~claimed \/ NeedsStart
    /\ claimed' = TRUE
    /\ caller' = [caller EXCEPT !["audio"] = [pc |-> "configure", cfg |-> settings]]
    /\ refused' = (refused /\ claimed)
    /\ UNCHANGED settings /\ SessionRests

-----------------------------------------------------------------------------
(* configure() and stop(). *)

SameKey(cfg) == config # NoConfig /\ Key(config) = Key(cfg)

\* bug: a new key does not end the connection made with the old one.
ReconnectsNever(cfg) == FALSE
Reconnects(cfg) == ~SameKey(cfg)

ConfigureRunning(c) ==
    LET cfg == caller[c].cfg
    IN  /\ caller[c].pc = "configure" /\ LifecycleFree
        /\ running
        /\ config' = cfg
        /\ IF cfg # config THEN Reset(worker, run, Reconnects(cfg))
           ELSE PipelineCall(worker) /\ UNCHANGED run
        /\ configChanged' = (configChanged \/ Reconnects(cfg))
        /\ caller' = [caller EXCEPT ![c] = NoCall]
        /\ UNCHANGED << filter, running, status, blocked, callback, refused >>

ConfigureStopped(c) ==
    LET cfg == caller[c].cfg
    IN  /\ caller[c].pc = "configure" /\ LifecycleFree
        /\ ~running
        /\ config' = cfg
        /\ Reset(worker, run, TRUE)
        /\ configChanged' = (configChanged \/ Reconnects(cfg))
        /\ caller' = [caller EXCEPT ![c].pc = "starting"]
        /\ UNCHANGED << filter, running, status, blocked, callback, refused >>

\* The threads of the run before are joined, the detector starts idle (unless it
\* has no timeout) and the new threads are spawned.
StartThreads(c) ==
    /\ caller[c].pc = "starting" /\ ThreadsGone
    /\ running' = TRUE
    /\ blocked' \in BOOLEAN
    /\ run' = RunAt("top")
    /\ worker' = [w \in Workers |-> NoRequest]
    /\ caller' = [caller EXCEPT ![c] = NoCall]
    /\ UNCHANGED << filter, config, configChanged, status, pipeline, callback, refused >>

Stop(c) ==
    /\ caller[c].pc = "stop" /\ LifecycleFree
    /\ running' = FALSE
    /\ Reset(worker, run, TRUE)
    /\ refused' = FALSE
    /\ caller' = [caller EXCEPT ![c].pc = "stopping"]
    /\ UNCHANGED << filter, config, configChanged, status, blocked, callback >>

StopReturns(c) ==
    /\ caller[c].pc = "stopping" /\ ThreadsGone
    /\ status' = "Idle"
    /\ caller' = [caller EXCEPT ![c] = NoCall]
    /\ UNCHANGED << filter, config, running, configChanged, blocked, pipeline, run, callback,
                    worker, refused >>

-----------------------------------------------------------------------------
(* run(), the WebSocket thread. *)

Goto(pc) == run' = [run EXCEPT !.pc = pc]
Leave(pc) == run' = RunAt(pc)
RunOnly == UNCHANGED << filter, config, running, blocked, caller, callback, refused >>
RunMoves == UNCHANGED << configChanged, status, pipeline, worker >> /\ RunOnly

\* The head of the loop.
RunTop ==
    /\ run.pc = "top"
    /\ Leave(IF running THEN "read" ELSE "exit")
    /\ RunMoves

RunRead ==
    /\ run.pc = "read"
    /\ configChanged' = FALSE
    /\ run' = [run EXCEPT !.pc = "gate", !.key = Key(config), !.current = TRUE]
    /\ UNCHANGED << status, pipeline, worker >> /\ RunOnly

RunGate ==
    /\ run.pc = "gate"
    /\ IF blocked THEN Leave("announce") ELSE Goto("connect")
    /\ RunMoves

\* announce_pause writes the status whatever happened since the gate was read.
RunAnnounce ==
    /\ run.pc = "announce"
    /\ status' = "Paused"
    /\ Goto("waiting")
    /\ UNCHANGED << configChanged, pipeline, worker >> /\ RunOnly

\* wait_while_paused.
RunWaiting ==
    /\ run.pc = "waiting"
    /\ Goto(IF running THEN "poll" ELSE "exit")
    /\ RunMoves

RunPoll ==
    /\ run.pc = "poll"
    /\ IF blocked THEN Goto("announce") /\ PipelineCall(worker)
       ELSE Goto(IF running THEN "top" ELSE "exit") /\ UNCHANGED << pipeline, worker >>
    /\ UNCHANGED << configChanged, status >> /\ RunOnly

\* bug: the socket is opened for settings that were replaced meanwhile.
RunConnectUnchecked ==
    /\ run.pc = "connect"
    /\ status' = "Connecting" /\ Goto("pump")
    /\ UNCHANGED << configChanged, pipeline, worker >> /\ RunOnly

\* The connection is only started for the settings it was prepared with.
RunConnect ==
    /\ run.pc = "connect"
    /\ IF run.current /\ running THEN status' = "Connecting" /\ Goto("pump")
       ELSE UNCHANGED status /\ Leave("top")
    /\ UNCHANGED << configChanged, pipeline, worker >> /\ RunOnly

\* bug: the pump does not look at the settings.
PumpGoesOnRegardless == running /\ ~run.rejected /\ ~run.closed
\* The condition of the inner loop.
PumpGoesOn == running /\ ~run.rejected /\ ~configChanged /\ ~run.closed

RunPump ==
    /\ run.pc = "pump"
    /\ Goto(IF PumpGoesOn THEN "iterate" ELSE "close")
    /\ RunMoves

\* The rest of an iteration: a tick, the pause gate, and the age of the session,
\* which counts from the opening of the socket.
RunIterate ==
    /\ run.pc = "iterate"
    /\ \/ blocked /\ run' = [run EXCEPT !.pc = "close", !.why = "pause"]
       \/ ~blocked /\ run.open /\ run' = [run EXCEPT !.pc = "close", !.why = "age"]
       \/ ~blocked /\ Goto("pump")
    /\ PipelineCall(worker)
    /\ UNCHANGED << configChanged, status >> /\ RunOnly

\* invalidate_connection(epoch), whoever calls it: r is the WebSocket thread after
\* the caller's own step.
Invalidate(r) ==
    IF run.current THEN Reset(worker, r, TRUE)
    ELSE run' = r /\ UNCHANGED << pipeline, worker >>

RunClose ==
    /\ run.pc = "close"
    /\ Invalidate([run EXCEPT !.pc = "stopws"])
    /\ UNCHANGED << configChanged, status >> /\ RunOnly

\* Where run() goes after a connection.
AfterConnection ==
    CASE run.rejected -> "exit"
      [] ~run.rejected /\ run.why = "pause" -> "announce"
      [] ~run.rejected /\ run.why = "age" -> "top"
      [] ~run.rejected /\ run.why = "loop" /\ configChanged -> "top"
      [] OTHER -> IF running THEN "reconnecting" ELSE "exit"

\* bug: a callback may still be running when the connection is given up.
RunStopWsEarly ==
    /\ run.pc = "stopws"
    /\ Leave(AfterConnection)
    /\ RunMoves

\* ws.stop() returns when no callback runs any more; then run() looks for the
\* reason the connection ended.  A rejected connection has already cleared running_.
RunStopWs ==
    /\ run.pc = "stopws" /\ callback = "none"
    /\ Leave(AfterConnection)
    /\ RunMoves

RunReconnecting ==
    /\ run.pc = "reconnecting"
    /\ status' = "Reconnecting"
    /\ Goto("backoff")
    /\ UNCHANGED << configChanged, pipeline, worker >> /\ RunOnly

\* The wait ends on its own or for a reason to stop waiting.
RunBackoff ==
    /\ run.pc = "backoff"
    /\ Goto("top")
    /\ PipelineCall(worker)
    /\ UNCHANGED << configChanged, status >> /\ RunOnly

\* bug: the thread that ends hides why it ended.
RunExitClears ==
    /\ run.pc = "exit"
    /\ status' = "Idle"
    /\ Leave("off")
    /\ PipelineCall(worker)
    /\ UNCHANGED configChanged /\ RunOnly

\* bug: only the status of a live connection is taken back.
RunExitIfConnected ==
    /\ run.pc = "exit"
    /\ status' = IF status = "Connected" THEN "Idle" ELSE status
    /\ Leave("off")
    /\ PipelineCall(worker)
    /\ UNCHANGED configChanged /\ RunOnly

\* Nobody else writes the status once running_ is clear, so that the test and the
\* write of the last line are one step.
RunExit ==
    /\ run.pc = "exit"
    /\ status' = IF status = "AuthError" THEN status ELSE "Idle"
    /\ Leave("off")
    /\ PipelineCall(worker)
    /\ UNCHANGED configChanged /\ RunOnly

-----------------------------------------------------------------------------
(* The callbacks of the WebSocket, none of which acts for another connection. *)

CallbackFree == Connection /\ callback = "none"

OnOpen ==
    /\ CallbackFree /\ ~run.open /\ ~run.closed
    /\ run.current /\ running
    /\ status' = "Connected"
    /\ run' = [run EXCEPT !.open = TRUE]
    /\ UNCHANGED << filter, config, running, configChanged, blocked, pipeline, caller,
                    callback, worker, refused >>

\* A transcript: the pipeline has segments from now on.
OnTranscript ==
    /\ CallbackFree /\ run.open
    /\ run.current /\ running
    /\ pipeline' \in {"idle", "queued"}
    /\ worker' = Awake(worker)
    /\ UNCHANGED << filter, config, running, configChanged, status, blocked, caller, run,
                    callback, refused >>

\* The server refuses the key.
OnError ==
    /\ CallbackFree /\ run.open /\ run.key \in BadKeys
    /\ run.current /\ running
    /\ status' = "AuthError" /\ running' = FALSE /\ refused' = TRUE
    /\ run' = [run EXCEPT !.rejected = TRUE]
    /\ callback' = "rejecting"
    /\ UNCHANGED << filter, config, configChanged, blocked, pipeline, caller, worker >>

\* invalidate_connection after an error or a close.
OnErrorInvalidates ==
    /\ callback = "rejecting"
    /\ Invalidate(run)
    /\ callback' = "none"
    /\ UNCHANGED << filter, config, running, configChanged, status, blocked, caller, refused >>

OnClose ==
    /\ CallbackFree /\ ~run.closed
    /\ Invalidate(run)
    /\ callback' = "closing"
    /\ UNCHANGED << filter, config, running, configChanged, status, blocked, caller, refused >>

OnCloseSeen ==
    /\ callback = "closing"
    /\ run' = [run EXCEPT !.open = FALSE, !.closed = TRUE]
    /\ callback' = "none"
    /\ UNCHANGED << filter, config, running, configChanged, status, blocked, pipeline, caller,
                    worker, refused >>

-----------------------------------------------------------------------------
(* The translate workers. *)

WorkerOnly == UNCHANGED << filter, config, configChanged, blocked, caller, callback >>
WorkerMoves == UNCHANGED << running, status, run, refused >> /\ WorkerOnly

\* pop_job: a worker leaves when the session stops, takes a job when one is
\* eligible (dispatch may also drop what is queued, or find nothing), and sleeps
\* otherwise.  The key is the one in use when the job is taken.
WorkerLeaves(w) ==
    /\ worker[w].pc = "ready" /\ ~running
    /\ worker' = [worker EXCEPT ![w].pc = "off"]
    /\ UNCHANGED pipeline /\ WorkerMoves

WorkerTakesJob(w) ==
    /\ worker[w].pc = "ready" /\ running
    /\ pipeline = "queued" /\ pipeline' \in {"idle", "queued"}
    /\ worker' = [worker EXCEPT ![w] = [pc |-> "busy", key |-> Key(config), current |-> TRUE]]
    /\ WorkerMoves

WorkerFindsNothing(w) ==
    /\ worker[w].pc = "ready" /\ running
    /\ pipeline = "queued" /\ pipeline' = "idle"
    /\ UNCHANGED worker /\ WorkerMoves

\* bug: the condition a worker waits for leaves the end of the session out.
WorkerSleepsRegardless(w) ==
    /\ worker[w].pc = "ready" /\ pipeline # "queued"
    /\ worker' = [worker EXCEPT ![w].pc = "asleep"]
    /\ UNCHANGED pipeline /\ WorkerMoves

WorkerSleeps(w) ==
    /\ worker[w].pc = "ready" /\ running /\ pipeline # "queued"
    /\ worker' = [worker EXCEPT ![w].pc = "asleep"]
    /\ UNCHANGED pipeline /\ WorkerMoves

\* bug: a refusal that answers a request of an older generation counts.
RefusalAcceptedLate(w) == worker[w].key \in BadKeys /\ running
\* complete accepts a refusal only of what was asked in this generation.
RefusalAccepted(w) == worker[w].key \in BadKeys /\ worker[w].current /\ running

\* The server refuses the key of the request.
WorkerRefused(w) ==
    /\ Busy(w) /\ RefusalAccepted(w)
    /\ status' = "AuthError" /\ running' = FALSE /\ refused' = TRUE
    /\ Reset([worker EXCEPT ![w] = NoRequest], run, TRUE)
    /\ WorkerOnly

\* The request ends in any other way: answered, failed, cancelled, timed out after
\* kHttpTimeoutSec, or its segment has gone.
WorkerCompletes(w) ==
    /\ Busy(w)
    /\ PipelineCall([worker EXCEPT ![w] = NoRequest])
    /\ WorkerMoves

-----------------------------------------------------------------------------
\* Sound comes and goes, an OBS output starts or stops.
ToggleBlocked ==
    /\ blocked' = ~blocked
    /\ UNCHANGED << filter, config, running, configChanged, status, pipeline, caller, run,
                    callback, worker, refused >>

RunStep ==
    \/ RunTop \/ RunRead \/ RunGate \/ RunAnnounce \/ RunWaiting \/ RunPoll \/ RunConnect
    \/ RunPump \/ RunIterate \/ RunClose \/ RunStopWs \/ RunReconnecting \/ RunBackoff \/ RunExit
CallbackStep == OnErrorInvalidates \/ OnCloseSeen
WorkerStep(w) ==
    \/ WorkerLeaves(w) \/ WorkerTakesJob(w) \/ WorkerFindsNothing(w) \/ WorkerSleeps(w)
    \/ WorkerRefused(w) \/ WorkerCompletes(w)
CallReturns(c) == StartThreads(c) \/ StopReturns(c)

Next ==
    \/ \E cfg \in Configs : UpdateSettings(cfg)
    \/ ClearKey
    \/ \E next \in Configs \cup {NoConfig} : DestroyFilter(next)
    \/ AudioConfigures
    \/ \E c \in Callers :
          ConfigureRunning(c) \/ ConfigureStopped(c) \/ Stop(c) \/ CallReturns(c)
    \/ RunStep
    \/ OnOpen \/ OnTranscript \/ OnError \/ OnClose \/ CallbackStep
    \/ \E w \in Workers : WorkerStep(w)
    \/ ToggleBlocked

Spec == Init /\ [][Next]_vars

\* The threads run: the loop of run() takes its steps, a callback returns, every
\* request ends within its timeout, and a join returns when its threads are gone.
Fairness ==
    /\ WF_vars(RunStep) /\ WF_vars(CallbackStep)
    /\ \A w \in Workers : WF_vars(WorkerStep(w))
    /\ \A c \in Callers : WF_vars(CallReturns(c))

FairSpec == Spec /\ Fairness

-----------------------------------------------------------------------------
\* Whatever is on the wire for the current settings carries their key, although the
\* key is copied long before it is used (run, pop_job: "Captured atomically with
\* this generation's job").
CredentialsCurrent ==
    /\ Connection /\ run.current => run.key = Key(config)
    /\ \A w \in Workers : Busy(w) /\ worker[w].current => worker[w].key = Key(config)

\* A session whose threads have ended says so; the properties panel shows no
\* connection that is not there (run's last line, stop).
StatusSettles ==
    run.pc = "off" => status \in {"Idle", "AuthError"}

\* A key is refused only while it is the configured one: an answer to an earlier
\* key never stops a session that was given a new one (the epoch and generation
\* checks of the callbacks and of complete).
RefusedKeyIsCurrent ==
    [][status' = "AuthError" /\ status # "AuthError" => Key(config) \in BadKeys]_vars

\* An authentication error stays on display until the session is started again or
\* stopped, or the WebSocket thread announces a pause it had already decided on
\* (run: "if (status() != ConnStatus::AuthError)", stop_caption_session_for_settings).
AuthErrorIsKept ==
    [][status = "AuthError" /\ status' \notin {"AuthError", "Paused"} =>
          running \/ \E c \in Callers : caller[c].pc = "stopping"]_vars

\* A connection whose epoch has passed is closed: it does not go on streaming audio
\* while all its callbacks are ignored (invalidate_connection, run's inner loop).
OvertakenConnectionEnds == Connection /\ ~run.current ~> ~Connection

\* configure and stop return: no join waits for a thread that sleeps for ever or goes
\* round without an end.
JoinsReturn ==
    \A c \in Callers : caller[c].pc \in {"starting", "stopping"} ~> caller[c].pc = "idle"

\* "Skip when it stopped on an auth error, so a bad key doesn't spin-restart"
\* (filter_audio): the filter that drives the session does not restart it with the
\* key that was refused, until the user acts.
RefusedKeyIsNotRetried ==
    [][caller["audio"].pc = "idle" /\ caller'["audio"].pc = "configure" /\ claimed => ~refused]_vars

\* "it never joins a live connection, so it won't stall the audio callback"
\* (filter_audio): configure does not hold up the audio callback while stop joins
\* the threads of an open connection.
AudioNeverWaitsForConnection ==
    caller["audio"].pc = "configure" /\ caller["ui"].pc = "stopping" =>
        ~(Connection /\ run.open)
=============================================================================
