------------------------ MODULE CaptionSessionProofs ------------------------
(* Proofs about CaptionSession for every value of its constants: any settings,  *)
(* keys and number of workers.                                                  *)
EXTENDS CaptionSession, TLAPS

RunStates == [pc : RunPcs, key : Keys, current : BOOLEAN, open : BOOLEAN,
              closed : BOOLEAN, rejected : BOOLEAN, why : {"loop", "pause", "age"}]
WorkerStates == [pc : WorkerPcs, key : Keys, current : BOOLEAN]

-----------------------------------------------------------------------------
(* The inductive invariant, part by part. *)

\* Who is about to configure the session has a key.
CallsHaveSettings ==
    \A c \in Callers : caller[c].pc = "configure" => caller[c].cfg \in Configs

\* Nothing runs before the first configuration, and no thread starts without one.
Configured ==
    \/ config \in Configs
    \/ /\ ~running /\ run.pc = "off"
       /\ \A w \in Workers : worker[w].pc = "off"
       /\ \A c \in Callers : caller[c].pc # "starting"

\* Whatever is planned, or on the wire for the current settings, belongs to the
\* connection that is open and current.
WorkIsOfConnection ==
    /\ pipeline # "empty" => Connection /\ run.current
    /\ \A w \in Workers : worker[w].current => Connection /\ run.current
    /\ run.pc = "stopws" => ~run.current

\* A copy of the key that counts as current is the key in use.
CopiesCurrent ==
    /\ run.current => run.key = Key(config)
    /\ \A w \in Workers : worker[w].current => worker[w].key = Key(config)

\* While it reconnects the session is only ever ended by stop.
ReconnectingEnds ==
    run.pc = "reconnecting" => running \/ \E c \in Callers : caller[c].pc = "stopping"

\* The types of the flags, of the calls under way and of the threads.
FlagsTyped ==
    /\ claimed \in BOOLEAN /\ running \in BOOLEAN /\ configChanged \in BOOLEAN
    /\ blocked \in BOOLEAN /\ refused \in BOOLEAN

CallsTyped ==
    /\ settings \in Configs \cup {NoConfig} /\ config \in Configs \cup {NoConfig}
    /\ status \in Statuses
    /\ pipeline \in {"empty", "idle", "queued"}
    /\ caller \in [Callers -> [pc : CallerPcs, cfg : Configs \cup {NoConfig}]]
    /\ callback \in {"none", "rejecting", "closing"}

ThreadsTyped ==
    /\ run \in RunStates
    /\ worker \in [Workers -> WorkerStates]

\* Only a connection that exists is open or runs a callback.
OpenInConnection ==
    run.open \/ callback # "none" => Connection

SessionInv ==
    /\ FlagsTyped
    /\ CallsTyped
    /\ ThreadsTyped
    /\ OpenInConnection
    /\ CallsHaveSettings
    /\ Configured
    /\ WorkIsOfConnection
    /\ CopiesCurrent
    /\ ReconnectingEnds
    /\ StatusSettles

-----------------------------------------------------------------------------
(* What the helpers do to the workers and to the WebSocket thread. *)

\* The workers ws and us differ at most in who sleeps.
SameButSleep(ws, us) ==
    \A w \in Workers :
        /\ us[w].key = ws[w].key
        /\ us[w].pc = "off" <=> ws[w].pc = "off"
        /\ us[w].pc = "busy" <=> ws[w].pc = "busy"

LEMMA AwakeFacts ==
  ASSUME NEW ws \in [Workers -> WorkerStates]
  PROVE  /\ Awake(ws) \in [Workers -> WorkerStates]
         /\ SameButSleep(ws, Awake(ws))
         /\ \A w \in Workers : Awake(ws)[w].current = ws[w].current
  BY DEF Awake, WorkerStates, WorkerPcs, SameButSleep

LEMMA PipelineCallFacts ==
  ASSUME CallsTyped, NEW ws \in [Workers -> WorkerStates], PipelineCall(ws)
  PROVE  /\ worker' \in [Workers -> WorkerStates]
         /\ pipeline' \in {"empty", "idle", "queued"}
         /\ pipeline = "empty" => pipeline' = "empty"
         /\ SameButSleep(ws, worker')
         /\ \A w \in Workers : worker'[w].current = ws[w].current
  BY AwakeFacts DEF PipelineCall, CallsTyped

\* The WebSocket thread r and t differ at most in whether the connection is current.
SameButCurrent(r, t) ==
    /\ t.pc = r.pc /\ t.key = r.key /\ t.open = r.open /\ t.closed = r.closed
    /\ t.rejected = r.rejected /\ t.why = r.why
    /\ t.current => r.current

LEMMA ResetFacts ==
  ASSUME NEW ws \in [Workers -> WorkerStates], NEW r \in RunStates,
         NEW invalidate \in BOOLEAN, Reset(ws, r, invalidate)
  PROVE  /\ pipeline' = "empty"
         /\ worker' \in [Workers -> WorkerStates]
         /\ SameButSleep(ws, worker')
         /\ \A w \in Workers : ~worker'[w].current
         /\ run' \in RunStates
         /\ SameButCurrent(r, run')
         /\ invalidate => ~run'.current
  <1> DEFINE us == [w \in Workers |-> [ws[w] EXCEPT !.current = FALSE]]
  <1>1. /\ us \in [Workers -> WorkerStates]
        /\ \A w \in Workers : us[w].key = ws[w].key /\ us[w].pc = ws[w].pc /\ ~us[w].current
    BY DEF WorkerStates
  <1>2. worker' = Awake(us) /\ pipeline' = "empty"
    BY DEF Reset
  <1>3. /\ worker' \in [Workers -> WorkerStates]
        /\ SameButSleep(us, worker')
        /\ \A w \in Workers : worker'[w].current = us[w].current
    <2> HIDE DEF us
    <2> QED BY <1>1, <1>2, AwakeFacts
  <1>4. run' \in RunStates /\ SameButCurrent(r, run') /\ (invalidate => ~run'.current)
    BY DEF Reset, RunStates, SameButCurrent
  <1> HIDE DEF us
  <1> QED
    BY <1>1, <1>2, <1>3, <1>4 DEF SameButSleep

LEMMA InvalidateFacts ==
  ASSUME CallsTyped, ThreadsTyped, NEW r \in RunStates, r.current = run.current, Invalidate(r)
  PROVE  /\ worker' \in [Workers -> WorkerStates]
         /\ SameButSleep(worker, worker')
         /\ run' \in RunStates
         /\ SameButCurrent(r, run')
         /\ ~run'.current
         /\ \/ pipeline' = "empty" /\ \A w \in Workers : ~worker'[w].current
            \/ pipeline' = pipeline /\ worker' = worker /\ ~run.current
  <1> worker \in [Workers -> WorkerStates]
    BY DEF ThreadsTyped
  <1>1. CASE run.current
    <2>1. Reset(worker, r, TRUE)
      BY <1>1 DEF Invalidate
    <2> QED BY <2>1, ResetFacts
  <1>2. CASE ~run.current
    BY <1>2 DEF Invalidate, CallsTyped, SameButSleep, SameButCurrent
  <1> QED
    BY <1>1, <1>2

LEMMA UpdateSettingsKeeps ==
  ASSUME SessionInv, NEW cfg \in Configs, UpdateSettings(cfg)
  PROVE  SessionInv'
  <1> USE DEF SessionInv
  <1>1. FlagsTyped'
    BY DEF FlagsTyped, UpdateSettings, SessionRests
  <1>2. CallsTyped' /\ CallsHaveSettings' /\ Configured'
    BY DEF CallsTyped, CallsHaveSettings, Configured, CallerPcs, UpdateSettings,
           SessionRests
  <1>3. ThreadsTyped'
    BY DEF ThreadsTyped, UpdateSettings, SessionRests
  <1>4. /\ OpenInConnection' /\ ReconnectingEnds' /\ StatusSettles'
        /\ WorkIsOfConnection' /\ CopiesCurrent'
    BY DEF OpenInConnection, ReconnectingEnds, StatusSettles, WorkIsOfConnection,
           CopiesCurrent, Connection, UpdateSettings, SessionRests
  <1> QED BY <1>1, <1>2, <1>3, <1>4 DEF SessionInv

LEMMA ClearKeyKeeps ==
  ASSUME SessionInv, ClearKey
  PROVE  SessionInv'
  <1> USE DEF SessionInv
  <1>1. FlagsTyped'
    BY DEF FlagsTyped, ClearKey, SessionRests
  <1>2. CallsTyped' /\ CallsHaveSettings' /\ Configured'
    BY DEF CallsTyped, CallsHaveSettings, Configured, CallerPcs, ClearKey, SessionRests
  <1>3. ThreadsTyped'
    BY DEF ThreadsTyped, ClearKey, SessionRests
  <1>4. /\ OpenInConnection' /\ ReconnectingEnds' /\ StatusSettles'
        /\ WorkIsOfConnection' /\ CopiesCurrent'
    BY DEF OpenInConnection, ReconnectingEnds, StatusSettles, WorkIsOfConnection,
           CopiesCurrent, Connection, ClearKey, SessionRests
  <1> QED BY <1>1, <1>2, <1>3, <1>4 DEF SessionInv

LEMMA DestroyFilterKeeps ==
  ASSUME SessionInv, NEW next \in Configs \cup {NoConfig}, DestroyFilter(next)
  PROVE  SessionInv'
  <1> USE DEF SessionInv
  <1>1. FlagsTyped'
    BY DEF FlagsTyped, DestroyFilter, SessionRests
  <1>2. CallsTyped' /\ CallsHaveSettings' /\ Configured'
    BY DEF CallsTyped, CallsHaveSettings, Configured, CallerPcs, DestroyFilter,
           SessionRests
  <1>3. ThreadsTyped'
    BY DEF ThreadsTyped, DestroyFilter, SessionRests
  <1>4. /\ OpenInConnection' /\ ReconnectingEnds' /\ StatusSettles'
        /\ WorkIsOfConnection' /\ CopiesCurrent'
    BY DEF OpenInConnection, ReconnectingEnds, StatusSettles, WorkIsOfConnection,
           CopiesCurrent, Connection, DestroyFilter, SessionRests
  <1> QED BY <1>1, <1>2, <1>3, <1>4 DEF SessionInv

LEMMA AudioConfiguresKeeps ==
  ASSUME SessionInv, AudioConfigures
  PROVE  SessionInv'
  <1> USE DEF SessionInv
  <1>1. FlagsTyped'
    BY DEF FlagsTyped, AudioConfigures, SessionRests
  <1>2. CallsTyped' /\ CallsHaveSettings' /\ Configured'
    BY DEF CallsTyped, CallsHaveSettings, Configured, CallerPcs, AudioConfigures,
           SessionRests
  <1>3. ThreadsTyped'
    BY DEF ThreadsTyped, AudioConfigures, SessionRests
  <1>4. /\ OpenInConnection' /\ ReconnectingEnds' /\ StatusSettles'
        /\ WorkIsOfConnection' /\ CopiesCurrent'
    BY DEF OpenInConnection, ReconnectingEnds, StatusSettles, WorkIsOfConnection,
           CopiesCurrent, Connection, AudioConfigures, SessionRests
  <1> QED BY <1>1, <1>2, <1>3, <1>4 DEF SessionInv

LEMMA ConfigureRunningKeeps ==
  ASSUME SessionInv, NEW c \in Callers, ConfigureRunning(c)
  PROVE  SessionInv'
  <1> USE DEF SessionInv
  <1>1. config' = caller[c].cfg /\ config' \in Configs
    BY DEF ConfigureRunning, CallsHaveSettings
  <1>2. \/ /\ config' = config /\ run' = run
           /\ worker' \in [Workers -> WorkerStates] /\ SameButSleep(worker, worker')
           /\ pipeline' \in {"empty", "idle", "queued"}
           /\ pipeline = "empty" => pipeline' = "empty"
           /\ \A w \in Workers : worker'[w].current = worker[w].current
        \/ /\ pipeline' = "empty"
           /\ worker' \in [Workers -> WorkerStates] /\ SameButSleep(worker, worker')
           /\ \A w \in Workers : ~worker'[w].current
           /\ run' \in RunStates /\ SameButCurrent(run, run')
           /\ (run'.current => Key(config) = Key(config'))
    <2>1. CASE config' = config
      BY <1>1, <2>1, PipelineCallFacts DEF ConfigureRunning, ThreadsTyped
    <2>2. CASE config' # config
      <3>1. Reset(worker, run, Reconnects(config'))
        BY <1>1, <2>2 DEF ConfigureRunning
      <3>2. Reconnects(config') \in BOOLEAN /\ (~Reconnects(config') => Key(config) = Key(config'))
        BY DEF Reconnects, SameKey
      <3> QED BY <3>1, <3>2, ResetFacts DEF ThreadsTyped
    <2> QED BY <2>1, <2>2
  <1>3. FlagsTyped'
    BY <1>1, <1>2 DEF FlagsTyped, ConfigureRunning, filter
  <1>4. CallsTyped' /\ CallsHaveSettings' /\ Configured'
    BY <1>1, <1>2
       DEF CallsTyped, CallsHaveSettings, Configured, CallerPcs, ConfigureRunning,
           NoCall, filter
  <1>5. ThreadsTyped'
    BY <1>1, <1>2 DEF ThreadsTyped
  <1>6. /\ OpenInConnection' /\ ReconnectingEnds' /\ StatusSettles'
        /\ WorkIsOfConnection' /\ CopiesCurrent'
    BY <1>1, <1>2
       DEF OpenInConnection, ReconnectingEnds, StatusSettles, WorkIsOfConnection,
           CopiesCurrent, Connection, SameButSleep, SameButCurrent, ConfigureRunning
  <1> QED BY <1>3, <1>4, <1>5, <1>6 DEF SessionInv

LEMMA ConfigureStoppedKeeps ==
  ASSUME SessionInv, NEW c \in Callers, ConfigureStopped(c)
  PROVE  SessionInv'
  <1> USE DEF SessionInv
  <1>1. /\ pipeline' = "empty"
        /\ worker' \in [Workers -> WorkerStates] /\ SameButSleep(worker, worker')
        /\ \A w \in Workers : ~worker'[w].current
        /\ run' \in RunStates /\ SameButCurrent(run, run') /\ ~run'.current
    BY ResetFacts DEF ConfigureStopped, ThreadsTyped
  <1>2. FlagsTyped'
    BY <1>1 DEF FlagsTyped, ConfigureStopped, filter
  <1>3. CallsTyped' /\ CallsHaveSettings' /\ Configured'
    BY <1>1
       DEF CallsTyped, CallsHaveSettings, Configured, CallerPcs, ConfigureStopped,
           filter
  <1>4. ThreadsTyped'
    BY <1>1 DEF ThreadsTyped
  <1>5. /\ OpenInConnection' /\ ReconnectingEnds' /\ StatusSettles'
        /\ WorkIsOfConnection' /\ CopiesCurrent'
    BY <1>1
       DEF OpenInConnection, ReconnectingEnds, StatusSettles, WorkIsOfConnection,
           CopiesCurrent, Connection, SameButCurrent, ConfigureStopped
  <1> QED BY <1>2, <1>3, <1>4, <1>5 DEF SessionInv

LEMMA StartThreadsKeeps ==
  ASSUME SessionInv, NEW c \in Callers, StartThreads(c)
  PROVE  SessionInv'
  <1> USE DEF SessionInv
  <1>1. FlagsTyped'
    BY DEF FlagsTyped, StartThreads, filter
  <1>2. CallsTyped' /\ CallsHaveSettings' /\ Configured'
    BY DEF CallsTyped, CallsHaveSettings, Configured, CallerPcs, StartThreads, NoCall,
           filter
  <1>3. ThreadsTyped'
    BY DEF ThreadsTyped, RunStates, WorkerStates, RunPcs, WorkerPcs, Keys, StartThreads,
           RunAt, NoRequest
  <1>4. /\ OpenInConnection' /\ ReconnectingEnds' /\ StatusSettles'
        /\ WorkIsOfConnection' /\ CopiesCurrent'
    BY DEF OpenInConnection, ReconnectingEnds, StatusSettles, WorkIsOfConnection,
           CopiesCurrent, Connection, StartThreads, ThreadsGone, RunAt, NoRequest
  <1> QED BY <1>1, <1>2, <1>3, <1>4 DEF SessionInv

LEMMA StopKeeps ==
  ASSUME SessionInv, NEW c \in Callers, Stop(c)
  PROVE  SessionInv'
  <1> USE DEF SessionInv
  <1>1. /\ pipeline' = "empty"
        /\ worker' \in [Workers -> WorkerStates] /\ SameButSleep(worker, worker')
        /\ \A w \in Workers : ~worker'[w].current
        /\ run' \in RunStates /\ SameButCurrent(run, run') /\ ~run'.current
    BY ResetFacts DEF Stop, ThreadsTyped
  <1>2. FlagsTyped'
    BY <1>1 DEF FlagsTyped, Stop, filter
  <1>3. CallsTyped' /\ CallsHaveSettings' /\ Configured'
    BY <1>1
       DEF CallsTyped, CallsHaveSettings, Configured, CallerPcs, SameButSleep,
           SameButCurrent, Stop, filter
  <1>4. ThreadsTyped'
    BY <1>1 DEF ThreadsTyped
  <1>5. /\ OpenInConnection' /\ ReconnectingEnds' /\ StatusSettles'
        /\ WorkIsOfConnection' /\ CopiesCurrent'
    BY <1>1
       DEF OpenInConnection, ReconnectingEnds, StatusSettles, WorkIsOfConnection,
           CopiesCurrent, Connection, CallsTyped, SameButCurrent, Stop
  <1> QED BY <1>2, <1>3, <1>4, <1>5 DEF SessionInv

LEMMA StopReturnsKeeps ==
  ASSUME SessionInv, NEW c \in Callers, StopReturns(c)
  PROVE  SessionInv'
  <1> USE DEF SessionInv
  <1>1. FlagsTyped'
    BY DEF FlagsTyped, StopReturns, filter
  <1>2. CallsTyped' /\ CallsHaveSettings' /\ Configured'
    BY DEF CallsTyped, CallsHaveSettings, Configured, CallerPcs, Statuses, StopReturns,
           NoCall, filter
  <1>3. ThreadsTyped'
    BY DEF ThreadsTyped, StopReturns
  <1>4. /\ OpenInConnection' /\ ReconnectingEnds' /\ StatusSettles'
        /\ WorkIsOfConnection' /\ CopiesCurrent'
    BY DEF OpenInConnection, ReconnectingEnds, StatusSettles, WorkIsOfConnection,
           CopiesCurrent, Connection, StopReturns, ThreadsGone
  <1> QED BY <1>1, <1>2, <1>3, <1>4 DEF SessionInv

LEMMA RunTopKeeps ==
  ASSUME SessionInv, RunTop
  PROVE  SessionInv'
  <1> USE DEF SessionInv
  <1>1. FlagsTyped'
    BY DEF FlagsTyped, RunTop, filter, RunMoves, RunOnly
  <1>2. CallsTyped' /\ CallsHaveSettings' /\ Configured'
    BY DEF CallsTyped, CallsHaveSettings, Configured, RunTop, RunMoves, RunOnly, filter
  <1>3. ThreadsTyped'
    BY DEF ThreadsTyped, RunStates, RunPcs, Keys, RunTop, RunMoves, Leave, RunAt
  <1>4. /\ OpenInConnection' /\ ReconnectingEnds' /\ StatusSettles'
        /\ WorkIsOfConnection' /\ CopiesCurrent'
    BY DEF OpenInConnection, ReconnectingEnds, StatusSettles, WorkIsOfConnection,
           CopiesCurrent, Connection, RunTop, RunMoves, RunOnly, Leave, RunAt
  <1> QED BY <1>1, <1>2, <1>3, <1>4 DEF SessionInv

LEMMA RunReadKeeps ==
  ASSUME SessionInv, RunRead
  PROVE  SessionInv'
  <1> USE DEF SessionInv
  <1>1. FlagsTyped'
    BY DEF FlagsTyped, RunRead, filter, RunOnly
  <1>2. CallsTyped' /\ CallsHaveSettings' /\ Configured'
    BY DEF CallsTyped, CallsHaveSettings, Configured, RunRead, RunOnly, filter
  <1>3. ThreadsTyped'
    BY DEF ThreadsTyped, RunStates, RunPcs, Keys, Configured, RunRead
  <1>4. /\ OpenInConnection' /\ ReconnectingEnds' /\ StatusSettles'
        /\ WorkIsOfConnection' /\ CopiesCurrent'
    BY DEF OpenInConnection, ReconnectingEnds, StatusSettles, WorkIsOfConnection,
           CopiesCurrent, Connection, RunRead, RunOnly
  <1> QED BY <1>1, <1>2, <1>3, <1>4 DEF SessionInv

LEMMA RunGateKeeps ==
  ASSUME SessionInv, RunGate
  PROVE  SessionInv'
  <1> USE DEF SessionInv
  <1>1. run.pc = "gate" /\ RunMoves
    BY DEF RunGate
  <1>2. run' \in RunStates /\ run'.pc \in {"announce", "connect"} /\ ~run'.open
        /\ (run'.current => run.current /\ run'.key = run.key)
    <2>1. CASE run' = RunAt("announce")
      BY <1>1, <2>1 DEF RunAt, RunStates, RunPcs, Keys
    <2>2. CASE run' = [run EXCEPT !.pc = "connect"]
      BY <1>1, <2>2 DEF ThreadsTyped, RunStates, RunPcs, OpenInConnection, Connection
    <2> QED BY <2>1, <2>2 DEF RunGate, Leave, Goto
  <1>3. FlagsTyped'
    BY <1>1, <1>2 DEF FlagsTyped, RunMoves, RunOnly, filter
  <1>4. CallsTyped' /\ CallsHaveSettings' /\ Configured'
    BY <1>1, <1>2 DEF CallsTyped, CallsHaveSettings, Configured, RunMoves, RunOnly, filter
  <1>5. ThreadsTyped'
    BY <1>1, <1>2 DEF ThreadsTyped, RunMoves
  <1>6. /\ OpenInConnection' /\ ReconnectingEnds' /\ StatusSettles'
        /\ WorkIsOfConnection' /\ CopiesCurrent'
    BY <1>1, <1>2
       DEF OpenInConnection, ReconnectingEnds, StatusSettles, WorkIsOfConnection,
           CopiesCurrent, Connection, RunMoves, RunOnly
  <1> QED BY <1>3, <1>4, <1>5, <1>6 DEF SessionInv

LEMMA RunAnnounceKeeps ==
  ASSUME SessionInv, RunAnnounce
  PROVE  SessionInv'
  <1> USE DEF SessionInv
  <1>1. FlagsTyped'
    BY DEF FlagsTyped, RunAnnounce, filter, RunOnly
  <1>2. CallsTyped' /\ CallsHaveSettings' /\ Configured'
    BY DEF CallsTyped, CallsHaveSettings, Configured, Statuses, RunAnnounce, RunOnly,
           filter
  <1>3. ThreadsTyped'
    BY DEF ThreadsTyped, RunStates, RunPcs, RunAnnounce, Goto
  <1>4. /\ OpenInConnection' /\ ReconnectingEnds' /\ StatusSettles'
        /\ WorkIsOfConnection' /\ CopiesCurrent'
    BY DEF OpenInConnection, ReconnectingEnds, StatusSettles, WorkIsOfConnection,
           CopiesCurrent, Connection, RunAnnounce, RunOnly, Goto
  <1> QED BY <1>1, <1>2, <1>3, <1>4 DEF SessionInv

LEMMA RunWaitingKeeps ==
  ASSUME SessionInv, RunWaiting
  PROVE  SessionInv'
  <1> USE DEF SessionInv
  <1>1. FlagsTyped'
    BY DEF FlagsTyped, RunWaiting, filter, RunMoves, RunOnly
  <1>2. CallsTyped' /\ CallsHaveSettings' /\ Configured'
    BY DEF CallsTyped, CallsHaveSettings, Configured, RunWaiting, RunMoves, RunOnly,
           filter
  <1>3. ThreadsTyped'
    BY DEF ThreadsTyped, RunStates, RunPcs, RunWaiting, RunMoves, Goto
  <1>4. /\ OpenInConnection' /\ ReconnectingEnds' /\ StatusSettles'
        /\ WorkIsOfConnection' /\ CopiesCurrent'
    BY DEF OpenInConnection, ReconnectingEnds, StatusSettles, WorkIsOfConnection,
           CopiesCurrent, Connection, RunWaiting, RunMoves, RunOnly, Goto
  <1> QED BY <1>1, <1>2, <1>3, <1>4 DEF SessionInv

LEMMA RunPollKeeps ==
  ASSUME SessionInv, RunPoll
  PROVE  SessionInv'
  <1> USE DEF SessionInv
  <1>1. run.pc = "poll" /\ UNCHANGED << configChanged, status >> /\ RunOnly
    BY DEF RunPoll
  <1>2. run' \in {[run EXCEPT !.pc = pc] : pc \in {"announce", "top", "exit"}}
    BY DEF RunPoll, Goto
  <1>3. worker' \in [Workers -> WorkerStates] /\ pipeline' \in {"empty", "idle", "queued"}
        /\ (pipeline = "empty" => pipeline' = "empty") /\ SameButSleep(worker, worker')
        /\ \A w \in Workers : worker'[w].current = worker[w].current
    BY PipelineCallFacts DEF RunPoll, ThreadsTyped, CallsTyped, SameButSleep
  <1>4. FlagsTyped'
    BY <1>1, <1>2, <1>3 DEF FlagsTyped, RunOnly, filter
  <1>5. CallsTyped' /\ CallsHaveSettings' /\ Configured'
    BY <1>1, <1>2, <1>3 DEF CallsTyped, CallsHaveSettings, Configured, RunOnly, filter
  <1>6. ThreadsTyped'
    BY <1>1, <1>2, <1>3 DEF ThreadsTyped, RunStates, RunPcs
  <1>7. /\ OpenInConnection' /\ ReconnectingEnds' /\ StatusSettles'
        /\ WorkIsOfConnection' /\ CopiesCurrent'
    BY <1>1, <1>2, <1>3
       DEF OpenInConnection, ReconnectingEnds, StatusSettles, WorkIsOfConnection,
           CopiesCurrent, Connection, ThreadsTyped, RunStates, RunOnly
  <1> QED BY <1>4, <1>5, <1>6, <1>7 DEF SessionInv

LEMMA RunConnectKeeps ==
  ASSUME SessionInv, RunConnect
  PROVE  SessionInv'
  <1> USE DEF SessionInv
  <1>1. run.pc = "connect" /\ UNCHANGED << configChanged, pipeline, worker >> /\ RunOnly
    BY DEF RunConnect
  <1>2. run' \in RunStates /\ run'.pc \in {"top", "pump"} /\ ~run'.open
        /\ (run'.current => run.current /\ run'.key = run.key)
    <2>1. CASE run' = RunAt("top")
      BY <1>1, <2>1 DEF RunAt, RunStates, RunPcs, Keys
    <2>2. CASE run' = [run EXCEPT !.pc = "pump"]
      BY <1>1, <2>2 DEF ThreadsTyped, RunStates, RunPcs, OpenInConnection, Connection
    <2> QED BY <2>1, <2>2 DEF RunConnect, Leave, Goto
  <1>3. status' \in Statuses
    BY DEF RunConnect, CallsTyped, Statuses
  <1>4. FlagsTyped'
    BY <1>1, <1>2, <1>3 DEF FlagsTyped, RunOnly, filter
  <1>5. CallsTyped' /\ CallsHaveSettings' /\ Configured'
    BY <1>1, <1>2, <1>3 DEF CallsTyped, CallsHaveSettings, Configured, RunOnly, filter
  <1>6. ThreadsTyped'
    BY <1>1, <1>2, <1>3 DEF ThreadsTyped
  <1>7. /\ OpenInConnection' /\ ReconnectingEnds' /\ StatusSettles'
        /\ WorkIsOfConnection' /\ CopiesCurrent'
    BY <1>1, <1>2, <1>3
       DEF OpenInConnection, ReconnectingEnds, StatusSettles, WorkIsOfConnection,
           CopiesCurrent, Connection, RunOnly
  <1> QED BY <1>4, <1>5, <1>6, <1>7 DEF SessionInv

LEMMA RunPumpKeeps ==
  ASSUME SessionInv, RunPump
  PROVE  SessionInv'
  <1> USE DEF SessionInv
  <1>1. FlagsTyped'
    BY DEF FlagsTyped, RunPump, filter, RunMoves, RunOnly
  <1>2. CallsTyped' /\ CallsHaveSettings' /\ Configured'
    BY DEF CallsTyped, CallsHaveSettings, Configured, RunPump, RunMoves, RunOnly, filter
  <1>3. ThreadsTyped'
    BY DEF ThreadsTyped, RunStates, RunPcs, RunPump, RunMoves, Goto
  <1>4. /\ OpenInConnection' /\ ReconnectingEnds' /\ StatusSettles'
        /\ WorkIsOfConnection' /\ CopiesCurrent'
    BY DEF OpenInConnection, ReconnectingEnds, StatusSettles, WorkIsOfConnection,
           CopiesCurrent, Connection, RunPump, RunMoves, RunOnly, Goto
  <1> QED BY <1>1, <1>2, <1>3, <1>4 DEF SessionInv

LEMMA RunIterateKeeps ==
  ASSUME SessionInv, RunIterate
  PROVE  SessionInv'
  <1> USE DEF SessionInv
  <1>1. run' \in RunStates /\ run'.pc \in {"close", "pump"}
        /\ run'.open = run.open /\ run'.current = run.current /\ run'.key = run.key
    BY DEF RunIterate, Goto, ThreadsTyped, RunStates, RunPcs
  <1>2. worker' \in [Workers -> WorkerStates] /\ pipeline' \in {"empty", "idle", "queued"}
        /\ (pipeline = "empty" => pipeline' = "empty") /\ SameButSleep(worker, worker')
        /\ \A w \in Workers : worker'[w].current = worker[w].current
    BY PipelineCallFacts DEF RunIterate, ThreadsTyped
  <1>3. run.pc = "iterate" /\ UNCHANGED << configChanged, status >> /\ RunOnly
    BY DEF RunIterate
  <1>4. FlagsTyped'
    BY <1>1, <1>2, <1>3 DEF FlagsTyped, RunOnly, filter
  <1>5. CallsTyped' /\ CallsHaveSettings' /\ Configured'
    BY <1>1, <1>2, <1>3 DEF CallsTyped, CallsHaveSettings, Configured, RunOnly, filter
  <1>6. ThreadsTyped'
    BY <1>1, <1>2, <1>3 DEF ThreadsTyped
  <1>7. /\ OpenInConnection' /\ ReconnectingEnds' /\ StatusSettles'
        /\ WorkIsOfConnection' /\ CopiesCurrent'
    BY <1>1, <1>2, <1>3
       DEF OpenInConnection, ReconnectingEnds, StatusSettles, WorkIsOfConnection,
           CopiesCurrent, Connection, SameButSleep, RunOnly
  <1> QED BY <1>4, <1>5, <1>6, <1>7 DEF SessionInv

LEMMA RunCloseKeeps ==
  ASSUME SessionInv, RunClose
  PROVE  SessionInv'
  <1> USE DEF SessionInv
  <1>1. [run EXCEPT !.pc = "stopws"] \in RunStates
    BY DEF ThreadsTyped, RunStates, RunPcs
  <1>2. worker' \in [Workers -> WorkerStates] /\ SameButSleep(worker, worker')
        /\ run' \in RunStates /\ SameButCurrent([run EXCEPT !.pc = "stopws"], run') /\ ~run'.current
        /\ \/ pipeline' = "empty" /\ \A w \in Workers : ~worker'[w].current
           \/ pipeline' = pipeline /\ worker' = worker /\ ~run.current
    BY <1>1, InvalidateFacts DEF RunClose, RunStates
  <1>3. FlagsTyped'
    BY <1>1, <1>2 DEF FlagsTyped, RunClose, filter, RunOnly
  <1>4. CallsTyped' /\ CallsHaveSettings' /\ Configured'
    BY <1>1, <1>2 DEF CallsTyped, CallsHaveSettings, Configured, RunClose, RunOnly, filter
  <1>5. ThreadsTyped'
    BY <1>1, <1>2 DEF ThreadsTyped
  <1>6. /\ OpenInConnection' /\ ReconnectingEnds' /\ StatusSettles'
        /\ WorkIsOfConnection' /\ CopiesCurrent'
    BY <1>1, <1>2
       DEF OpenInConnection, ReconnectingEnds, StatusSettles, WorkIsOfConnection,
           CopiesCurrent, Connection, SameButCurrent
  <1> QED BY <1>3, <1>4, <1>5, <1>6 DEF SessionInv

LEMMA RunStopWsKeeps ==
  ASSUME SessionInv, RunStopWs
  PROVE  SessionInv'
  <1> USE DEF SessionInv
  <1>1. FlagsTyped'
    BY DEF FlagsTyped, RunStopWs, filter, RunMoves, RunOnly
  <1>2. CallsTyped' /\ CallsHaveSettings' /\ Configured'
    BY DEF CallsTyped, CallsHaveSettings, Configured, RunStopWs, RunMoves, RunOnly, filter
  <1>3. ThreadsTyped'
    BY DEF ThreadsTyped, RunStates, RunPcs, Keys, RunStopWs, RunMoves, Leave, RunAt,
           AfterConnection
  <1>4. /\ OpenInConnection' /\ ReconnectingEnds' /\ StatusSettles'
        /\ WorkIsOfConnection' /\ CopiesCurrent'
    BY DEF OpenInConnection, ReconnectingEnds, StatusSettles, WorkIsOfConnection,
           CopiesCurrent, RunStopWs, RunMoves, RunOnly, Leave, RunAt, AfterConnection
  <1> QED BY <1>1, <1>2, <1>3, <1>4 DEF SessionInv

LEMMA RunReconnectingKeeps ==
  ASSUME SessionInv, RunReconnecting
  PROVE  SessionInv'
  <1> USE DEF SessionInv
  <1>1. FlagsTyped'
    BY DEF FlagsTyped, RunReconnecting, filter, RunOnly
  <1>2. CallsTyped' /\ CallsHaveSettings' /\ Configured'
    BY DEF CallsTyped, CallsHaveSettings, Configured, Statuses, RunReconnecting,
           RunOnly, filter
  <1>3. ThreadsTyped'
    BY DEF ThreadsTyped, RunStates, RunPcs, RunReconnecting, Goto
  <1>4. /\ OpenInConnection' /\ ReconnectingEnds' /\ StatusSettles'
        /\ WorkIsOfConnection' /\ CopiesCurrent'
    BY DEF OpenInConnection, ReconnectingEnds, StatusSettles, WorkIsOfConnection,
           CopiesCurrent, Connection, RunReconnecting, RunOnly, Goto
  <1> QED BY <1>1, <1>2, <1>3, <1>4 DEF SessionInv

LEMMA RunBackoffKeeps ==
  ASSUME SessionInv, RunBackoff
  PROVE  SessionInv'
  <1> USE DEF SessionInv
  <1>1. worker' \in [Workers -> WorkerStates] /\ pipeline' \in {"empty", "idle", "queued"}
        /\ (pipeline = "empty" => pipeline' = "empty") /\ SameButSleep(worker, worker')
        /\ \A w \in Workers : worker'[w].current = worker[w].current
    BY PipelineCallFacts DEF RunBackoff, ThreadsTyped
  <1>2. FlagsTyped'
    BY <1>1 DEF FlagsTyped, RunBackoff, filter, RunOnly
  <1>3. CallsTyped' /\ CallsHaveSettings' /\ Configured'
    BY <1>1 DEF CallsTyped, CallsHaveSettings, Configured, RunBackoff, RunOnly, filter
  <1>4. ThreadsTyped'
    BY <1>1 DEF ThreadsTyped, RunStates, RunPcs, RunBackoff, Goto
  <1>5. /\ OpenInConnection' /\ ReconnectingEnds' /\ StatusSettles'
        /\ WorkIsOfConnection' /\ CopiesCurrent'
    BY <1>1
       DEF OpenInConnection, ReconnectingEnds, StatusSettles, WorkIsOfConnection,
           CopiesCurrent, Connection, RunBackoff, RunOnly, Goto
  <1> QED BY <1>2, <1>3, <1>4, <1>5 DEF SessionInv

LEMMA RunExitKeeps ==
  ASSUME SessionInv, RunExit
  PROVE  SessionInv'
  <1> USE DEF SessionInv
  <1>1. worker' \in [Workers -> WorkerStates] /\ pipeline' \in {"empty", "idle", "queued"}
        /\ (pipeline = "empty" => pipeline' = "empty") /\ SameButSleep(worker, worker')
        /\ \A w \in Workers : worker'[w].current = worker[w].current
    BY PipelineCallFacts DEF RunExit, ThreadsTyped
  <1>2. FlagsTyped'
    BY <1>1 DEF FlagsTyped, RunExit, filter, RunOnly
  <1>3. CallsTyped' /\ CallsHaveSettings' /\ Configured'
    BY <1>1
       DEF CallsTyped, CallsHaveSettings, Configured, Statuses, RunExit, RunOnly, filter
  <1>4. ThreadsTyped'
    BY <1>1 DEF ThreadsTyped, RunStates, RunPcs, Keys, RunExit, Leave, RunAt
  <1>5. /\ OpenInConnection' /\ ReconnectingEnds' /\ StatusSettles'
        /\ WorkIsOfConnection' /\ CopiesCurrent'
    BY <1>1
       DEF OpenInConnection, ReconnectingEnds, StatusSettles, WorkIsOfConnection,
           CopiesCurrent, Connection, RunExit, RunOnly, Leave, RunAt
  <1> QED BY <1>2, <1>3, <1>4, <1>5 DEF SessionInv

LEMMA OnOpenKeeps ==
  ASSUME SessionInv, OnOpen
  PROVE  SessionInv'
  <1> USE DEF SessionInv
  <1>1. FlagsTyped'
    BY DEF FlagsTyped, OnOpen, filter
  <1>2. CallsTyped' /\ CallsHaveSettings' /\ Configured'
    BY DEF CallsTyped, CallsHaveSettings, Configured, Statuses, OnOpen, filter
  <1>3. ThreadsTyped'
    BY DEF ThreadsTyped, RunStates, OnOpen
  <1>4. /\ OpenInConnection' /\ ReconnectingEnds' /\ StatusSettles'
        /\ WorkIsOfConnection' /\ CopiesCurrent'
    BY DEF OpenInConnection, ReconnectingEnds, StatusSettles, WorkIsOfConnection,
           CopiesCurrent, Connection, OnOpen, CallbackFree
  <1> QED BY <1>1, <1>2, <1>3, <1>4 DEF SessionInv

LEMMA OnTranscriptKeeps ==
  ASSUME SessionInv, OnTranscript
  PROVE  SessionInv'
  <1> USE DEF SessionInv
  <1>1. worker' \in [Workers -> WorkerStates] /\ SameButSleep(worker, worker')
        /\ \A w \in Workers : worker'[w].current = worker[w].current
    BY AwakeFacts DEF OnTranscript, ThreadsTyped
  <1>2. FlagsTyped'
    BY <1>1 DEF FlagsTyped, OnTranscript, filter
  <1>3. CallsTyped' /\ CallsHaveSettings' /\ Configured'
    BY <1>1 DEF CallsTyped, CallsHaveSettings, Configured, OnTranscript, filter
  <1>4. ThreadsTyped'
    BY <1>1 DEF ThreadsTyped, OnTranscript
  <1>5. /\ OpenInConnection' /\ ReconnectingEnds' /\ StatusSettles'
        /\ WorkIsOfConnection' /\ CopiesCurrent'
    BY <1>1
       DEF OpenInConnection, ReconnectingEnds, StatusSettles, WorkIsOfConnection,
           CopiesCurrent, Connection, SameButSleep, OnTranscript
  <1> QED BY <1>2, <1>3, <1>4, <1>5 DEF SessionInv

LEMMA OnErrorKeeps ==
  ASSUME SessionInv, OnError
  PROVE  SessionInv'
  <1> USE DEF SessionInv
  <1>1. FlagsTyped'
    BY DEF FlagsTyped, OnError, filter
  <1>2. CallsTyped' /\ CallsHaveSettings' /\ Configured'
    BY DEF CallsTyped, CallsHaveSettings, Configured, Statuses, OnError, filter
  <1>3. ThreadsTyped'
    BY DEF ThreadsTyped, RunStates, OnError
  <1>4. /\ OpenInConnection' /\ ReconnectingEnds' /\ StatusSettles'
        /\ WorkIsOfConnection' /\ CopiesCurrent'
    BY DEF OpenInConnection, ReconnectingEnds, StatusSettles, WorkIsOfConnection,
           CopiesCurrent, Connection, OnError
  <1> QED BY <1>1, <1>2, <1>3, <1>4 DEF SessionInv

LEMMA OnErrorInvalidatesKeeps ==
  ASSUME SessionInv, OnErrorInvalidates
  PROVE  SessionInv'
  <1> USE DEF SessionInv
  <1>1. worker' \in [Workers -> WorkerStates] /\ SameButSleep(worker, worker')
        /\ run' \in RunStates /\ SameButCurrent(run, run') /\ ~run'.current
        /\ \/ pipeline' = "empty" /\ \A w \in Workers : ~worker'[w].current
           \/ pipeline' = pipeline /\ worker' = worker /\ ~run.current
    BY InvalidateFacts DEF OnErrorInvalidates, ThreadsTyped
  <1>2. FlagsTyped'
    BY <1>1 DEF FlagsTyped, OnErrorInvalidates, filter
  <1>3. CallsTyped' /\ CallsHaveSettings' /\ Configured'
    BY <1>1
       DEF CallsTyped, CallsHaveSettings, Configured, SameButSleep, SameButCurrent,
           OnErrorInvalidates, filter
  <1>4. ThreadsTyped'
    BY <1>1 DEF ThreadsTyped
  <1>5. /\ OpenInConnection' /\ ReconnectingEnds' /\ StatusSettles'
        /\ WorkIsOfConnection' /\ CopiesCurrent'
    BY <1>1
       DEF OpenInConnection, ReconnectingEnds, StatusSettles, WorkIsOfConnection,
           CopiesCurrent, Connection, SameButCurrent, OnErrorInvalidates
  <1> QED BY <1>2, <1>3, <1>4, <1>5 DEF SessionInv

LEMMA OnCloseKeeps ==
  ASSUME SessionInv, OnClose
  PROVE  SessionInv'
  <1> USE DEF SessionInv
  <1>1. worker' \in [Workers -> WorkerStates] /\ SameButSleep(worker, worker')
        /\ run' \in RunStates /\ SameButCurrent(run, run') /\ ~run'.current
        /\ \/ pipeline' = "empty" /\ \A w \in Workers : ~worker'[w].current
           \/ pipeline' = pipeline /\ worker' = worker /\ ~run.current
    BY InvalidateFacts DEF OnClose, ThreadsTyped
  <1>2. FlagsTyped'
    BY <1>1 DEF FlagsTyped, OnClose, filter
  <1>3. CallsTyped' /\ CallsHaveSettings' /\ Configured'
    BY <1>1
       DEF CallsTyped, CallsHaveSettings, Configured, SameButSleep, SameButCurrent,
           OnClose, filter
  <1>4. ThreadsTyped'
    BY <1>1 DEF ThreadsTyped
  <1>5. /\ OpenInConnection' /\ ReconnectingEnds' /\ StatusSettles'
        /\ WorkIsOfConnection' /\ CopiesCurrent'
    BY <1>1
       DEF OpenInConnection, ReconnectingEnds, StatusSettles, WorkIsOfConnection,
           CopiesCurrent, Connection, SameButCurrent, OnClose, CallbackFree
  <1> QED BY <1>2, <1>3, <1>4, <1>5 DEF SessionInv

LEMMA OnCloseSeenKeeps ==
  ASSUME SessionInv, OnCloseSeen
  PROVE  SessionInv'
  <1> USE DEF SessionInv
  <1>1. FlagsTyped'
    BY DEF FlagsTyped, OnCloseSeen, filter
  <1>2. CallsTyped' /\ CallsHaveSettings' /\ Configured'
    BY DEF CallsTyped, CallsHaveSettings, Configured, OnCloseSeen, filter
  <1>3. ThreadsTyped'
    BY DEF ThreadsTyped, RunStates, OnCloseSeen
  <1>4. /\ OpenInConnection' /\ ReconnectingEnds' /\ StatusSettles'
        /\ WorkIsOfConnection' /\ CopiesCurrent'
    BY DEF OpenInConnection, ReconnectingEnds, StatusSettles, WorkIsOfConnection,
           CopiesCurrent, Connection, OnCloseSeen
  <1> QED BY <1>1, <1>2, <1>3, <1>4 DEF SessionInv

LEMMA WorkerLeavesKeeps ==
  ASSUME SessionInv, NEW w \in Workers, WorkerLeaves(w)
  PROVE  SessionInv'
  <1> USE DEF SessionInv
  <1>1. worker' \in [Workers -> WorkerStates]
    BY DEF WorkerLeaves, ThreadsTyped, WorkerStates, WorkerPcs
  <1>2. FlagsTyped'
    BY <1>1 DEF FlagsTyped, WorkerLeaves, filter, WorkerMoves, WorkerOnly
  <1>3. CallsTyped' /\ CallsHaveSettings' /\ Configured'
    BY <1>1
       DEF CallsTyped, CallsHaveSettings, Configured, WorkerLeaves, WorkerMoves,
           WorkerOnly, filter
  <1>4. ThreadsTyped'
    BY <1>1 DEF ThreadsTyped, WorkerLeaves, WorkerMoves
  <1>5. /\ OpenInConnection' /\ ReconnectingEnds' /\ StatusSettles'
        /\ WorkIsOfConnection' /\ CopiesCurrent'
    BY <1>1
       DEF OpenInConnection, ReconnectingEnds, StatusSettles, WorkIsOfConnection,
           CopiesCurrent, Connection, WorkerLeaves, WorkerMoves, WorkerOnly
  <1> QED BY <1>2, <1>3, <1>4, <1>5 DEF SessionInv

LEMMA WorkerTakesJobKeeps ==
  ASSUME SessionInv, NEW w \in Workers, WorkerTakesJob(w)
  PROVE  SessionInv'
  <1> USE DEF SessionInv
  <1>1. FlagsTyped'
    BY DEF FlagsTyped, WorkerTakesJob, filter, WorkerMoves, WorkerOnly
  <1>2. CallsTyped' /\ CallsHaveSettings' /\ Configured'
    BY DEF CallsTyped, CallsHaveSettings, Configured, WorkerTakesJob, WorkerMoves,
           WorkerOnly, filter
  <1>3. ThreadsTyped'
    BY DEF ThreadsTyped, WorkerStates, WorkerPcs, Keys, Configured, WorkerTakesJob,
           WorkerMoves
  <1>4. /\ OpenInConnection' /\ ReconnectingEnds' /\ StatusSettles'
        /\ WorkIsOfConnection' /\ CopiesCurrent'
    BY DEF OpenInConnection, ReconnectingEnds, StatusSettles, WorkIsOfConnection,
           CopiesCurrent, Connection, WorkerTakesJob, WorkerMoves, WorkerOnly
  <1> QED BY <1>1, <1>2, <1>3, <1>4 DEF SessionInv

LEMMA WorkerFindsNothingKeeps ==
  ASSUME SessionInv, NEW w \in Workers, WorkerFindsNothing(w)
  PROVE  SessionInv'
  <1> USE DEF SessionInv
  <1>1. FlagsTyped'
    BY DEF FlagsTyped, WorkerFindsNothing, filter, WorkerMoves, WorkerOnly
  <1>2. CallsTyped' /\ CallsHaveSettings' /\ Configured'
    BY DEF CallsTyped, CallsHaveSettings, Configured, WorkerFindsNothing, WorkerMoves,
           WorkerOnly, filter
  <1>3. ThreadsTyped'
    BY DEF ThreadsTyped, WorkerFindsNothing, WorkerMoves
  <1>4. /\ OpenInConnection' /\ ReconnectingEnds' /\ StatusSettles'
        /\ WorkIsOfConnection' /\ CopiesCurrent'
    BY DEF OpenInConnection, ReconnectingEnds, StatusSettles, WorkIsOfConnection,
           CopiesCurrent, Connection, WorkerFindsNothing, WorkerMoves, WorkerOnly
  <1> QED BY <1>1, <1>2, <1>3, <1>4 DEF SessionInv

LEMMA WorkerSleepsKeeps ==
  ASSUME SessionInv, NEW w \in Workers, WorkerSleeps(w)
  PROVE  SessionInv'
  <1> USE DEF SessionInv
  <1>1. worker' \in [Workers -> WorkerStates]
    BY DEF WorkerSleeps, ThreadsTyped, WorkerStates, WorkerPcs
  <1>2. FlagsTyped'
    BY <1>1 DEF FlagsTyped, WorkerSleeps, filter, WorkerMoves, WorkerOnly
  <1>3. CallsTyped' /\ CallsHaveSettings' /\ Configured'
    BY <1>1
       DEF CallsTyped, CallsHaveSettings, Configured, WorkerSleeps, WorkerMoves,
           WorkerOnly, filter
  <1>4. ThreadsTyped'
    BY <1>1 DEF ThreadsTyped, WorkerSleeps, WorkerMoves
  <1>5. /\ OpenInConnection' /\ ReconnectingEnds' /\ StatusSettles'
        /\ WorkIsOfConnection' /\ CopiesCurrent'
    BY <1>1
       DEF OpenInConnection, ReconnectingEnds, StatusSettles, WorkIsOfConnection,
           CopiesCurrent, Connection, WorkerSleeps, WorkerMoves, WorkerOnly
  <1> QED BY <1>2, <1>3, <1>4, <1>5 DEF SessionInv

LEMMA WorkerRefusedKeeps ==
  ASSUME SessionInv, NEW w \in Workers, WorkerRefused(w)
  PROVE  SessionInv'
  <1> USE DEF SessionInv
  <1>1. [worker EXCEPT ![w] = NoRequest] \in [Workers -> WorkerStates]
    BY DEF ThreadsTyped, WorkerStates, WorkerPcs, Keys, NoRequest
  <1>2. /\ pipeline' = "empty" /\ worker' \in [Workers -> WorkerStates]
        /\ SameButSleep([worker EXCEPT ![w] = NoRequest], worker')
        /\ \A v \in Workers : ~worker'[v].current
        /\ run' \in RunStates /\ SameButCurrent(run, run') /\ ~run'.current
    BY <1>1, ResetFacts DEF WorkerRefused, ThreadsTyped
  <1>3. Connection
    BY DEF WorkerRefused, RefusalAccepted, WorkIsOfConnection
  <1>4. FlagsTyped'
    BY <1>1, <1>2, <1>3 DEF FlagsTyped, WorkerRefused, filter, WorkerOnly
  <1>5. CallsTyped' /\ CallsHaveSettings' /\ Configured'
    BY <1>1, <1>2, <1>3
       DEF CallsTyped, CallsHaveSettings, Configured, Statuses, WorkerRefused,
           WorkerOnly, Busy, filter
  <1>6. ThreadsTyped'
    BY <1>1, <1>2, <1>3 DEF ThreadsTyped
  <1>7. /\ OpenInConnection' /\ ReconnectingEnds' /\ StatusSettles'
        /\ WorkIsOfConnection' /\ CopiesCurrent'
    BY <1>1, <1>2, <1>3
       DEF OpenInConnection, ReconnectingEnds, StatusSettles, WorkIsOfConnection,
           CopiesCurrent, Connection, SameButCurrent
  <1> QED BY <1>4, <1>5, <1>6, <1>7 DEF SessionInv

LEMMA WorkerCompletesKeeps ==
  ASSUME SessionInv, NEW w \in Workers, WorkerCompletes(w)
  PROVE  SessionInv'
  <1> USE DEF SessionInv
  <1> DEFINE ws == [worker EXCEPT ![w] = NoRequest]
  <1>1. /\ ws \in [Workers -> WorkerStates] /\ PipelineCall(ws) /\ WorkerMoves
        /\ \A v \in Workers : ws[v].current => worker[v].current /\ ws[v].key = worker[v].key
        /\ \A v \in Workers : ws[v].pc = "off" <=> worker[v].pc = "off"
    BY DEF WorkerCompletes, Busy, ThreadsTyped, WorkerStates, WorkerPcs, Keys, NoRequest
  <1> HIDE DEF ws
  <1>2. worker' \in [Workers -> WorkerStates] /\ pipeline' \in {"empty", "idle", "queued"}
        /\ (pipeline = "empty" => pipeline' = "empty") /\ SameButSleep(ws, worker')
        /\ \A v \in Workers : worker'[v].current = ws[v].current
    BY <1>1, PipelineCallFacts
  <1>3. FlagsTyped'
    BY <1>1, <1>2 DEF FlagsTyped, WorkerMoves, WorkerOnly, filter
  <1>4. CallsTyped' /\ CallsHaveSettings' /\ Configured'
    BY <1>1, <1>2
       DEF CallsTyped, CallsHaveSettings, Configured, SameButSleep, WorkerMoves,
           WorkerOnly, filter
  <1>5. ThreadsTyped'
    BY <1>1, <1>2 DEF ThreadsTyped, WorkerMoves
  <1>6. /\ OpenInConnection' /\ ReconnectingEnds' /\ StatusSettles'
        /\ WorkIsOfConnection' /\ CopiesCurrent'
    BY <1>1, <1>2
       DEF OpenInConnection, ReconnectingEnds, StatusSettles, WorkIsOfConnection,
           CopiesCurrent, Connection, SameButSleep, WorkerMoves, WorkerOnly
  <1> QED BY <1>3, <1>4, <1>5, <1>6 DEF SessionInv

LEMMA ToggleBlockedKeeps ==
  ASSUME SessionInv, ToggleBlocked
  PROVE  SessionInv'
  <1> USE DEF SessionInv
  <1>1. FlagsTyped'
    BY DEF FlagsTyped, ToggleBlocked, filter
  <1>2. CallsTyped' /\ CallsHaveSettings' /\ Configured'
    BY DEF CallsTyped, CallsHaveSettings, Configured, ToggleBlocked, filter
  <1>3. ThreadsTyped'
    BY DEF ThreadsTyped, ToggleBlocked
  <1>4. /\ OpenInConnection' /\ ReconnectingEnds' /\ StatusSettles'
        /\ WorkIsOfConnection' /\ CopiesCurrent'
    BY DEF OpenInConnection, ReconnectingEnds, StatusSettles, WorkIsOfConnection,
           CopiesCurrent, Connection, ToggleBlocked
  <1> QED BY <1>1, <1>2, <1>3, <1>4 DEF SessionInv
-----------------------------------------------------------------------------
(* The state the session is created in satisfies the inductive invariant. *)
THEOREM InitKeeps == Init => SessionInv
  <1> SUFFICES ASSUME Init PROVE SessionInv
    OBVIOUS
  <1>1. run \in RunStates /\ run.pc = "off" /\ ~run.open /\ ~run.current /\ callback = "none"
    BY DEF Init, RunAt, RunStates, RunPcs, Keys
  <1>2. /\ worker \in [Workers -> WorkerStates]
        /\ \A w \in Workers : worker[w].pc = "off" /\ ~worker[w].current
    BY DEF Init, NoRequest, WorkerStates, WorkerPcs, Keys
  <1>3. /\ caller \in [Callers -> [pc : CallerPcs, cfg : Configs \cup {NoConfig}]]
        /\ \A c \in Callers : caller[c].pc = "idle"
    BY DEF Init, NoCall, CallerPcs
  <1>4. FlagsTyped /\ CallsTyped /\ ThreadsTyped
    BY <1>1, <1>2, <1>3 DEF Init, FlagsTyped, CallsTyped, ThreadsTyped, Statuses
  <1>5. OpenInConnection /\ ReconnectingEnds /\ StatusSettles
    BY <1>1 DEF Init, OpenInConnection, ReconnectingEnds, StatusSettles
  <1>6. CallsHaveSettings /\ Configured /\ WorkIsOfConnection /\ CopiesCurrent
    BY <1>1, <1>2, <1>3
       DEF Init, CallsHaveSettings, Configured, WorkIsOfConnection, CopiesCurrent
  <1> QED
    BY <1>4, <1>5, <1>6 DEF SessionInv

LEMMA RestKeeps ==
  ASSUME SessionInv, UNCHANGED vars
  PROVE  SessionInv'
  <1>1. FlagsTyped' /\ CallsTyped' /\ ThreadsTyped'
    BY DEF SessionInv, vars, filter, FlagsTyped, CallsTyped, ThreadsTyped
  <1>2. OpenInConnection' /\ ReconnectingEnds' /\ StatusSettles'
    BY DEF SessionInv, vars, OpenInConnection, ReconnectingEnds, StatusSettles, Connection
  <1>3. CallsHaveSettings' /\ Configured' /\ WorkIsOfConnection' /\ CopiesCurrent'
    BY DEF SessionInv, vars, CallsHaveSettings, Configured, WorkIsOfConnection,
           CopiesCurrent,
           Connection
  <1> QED
    BY <1>1, <1>2, <1>3 DEF SessionInv

(* Every step of a caller, of the WebSocket thread, of a callback and of a worker keeps
   the inductive invariant. *)
THEOREM StepKeeps == SessionInv /\ [Next]_vars => SessionInv'
  <1> SUFFICES ASSUME SessionInv, [Next]_vars PROVE SessionInv'
    OBVIOUS
  <1>1. CASE UNCHANGED vars
    BY <1>1, RestKeeps
  <1>2. ASSUME NEW cfg \in Configs, UpdateSettings(cfg) PROVE SessionInv'
    BY <1>2, UpdateSettingsKeeps
  <1>3. ASSUME NEW next \in Configs \cup {NoConfig}, DestroyFilter(next) PROVE SessionInv'
    BY <1>3, DestroyFilterKeeps
  <1>4. CASE ClearKey \/ AudioConfigures \/ ToggleBlocked
    BY <1>4, ClearKeyKeeps, AudioConfiguresKeeps, ToggleBlockedKeeps
  <1>5. ASSUME NEW c \in Callers,
               ConfigureRunning(c) \/ ConfigureStopped(c) \/ Stop(c) \/ CallReturns(c)
        PROVE  SessionInv'
    BY <1>5, ConfigureRunningKeeps, ConfigureStoppedKeeps, StopKeeps, StartThreadsKeeps,
       StopReturnsKeeps
       DEF CallReturns
  <1>6. CASE RunStep
    BY <1>6, RunTopKeeps, RunReadKeeps, RunGateKeeps, RunAnnounceKeeps, RunWaitingKeeps,
       RunPollKeeps, RunConnectKeeps, RunPumpKeeps, RunIterateKeeps, RunCloseKeeps,
       RunStopWsKeeps, RunReconnectingKeeps, RunBackoffKeeps, RunExitKeeps
       DEF RunStep
  <1>7. CASE OnOpen \/ OnTranscript \/ OnError \/ OnClose \/ CallbackStep
    BY <1>7, OnOpenKeeps, OnTranscriptKeeps, OnErrorKeeps, OnErrorInvalidatesKeeps,
           OnCloseKeeps,
       OnCloseSeenKeeps
       DEF CallbackStep
  <1>8. ASSUME NEW w \in Workers, WorkerStep(w) PROVE SessionInv'
    BY <1>8, WorkerLeavesKeeps, WorkerTakesJobKeeps, WorkerFindsNothingKeeps,
           WorkerSleepsKeeps,
       WorkerRefusedKeeps, WorkerCompletesKeeps
       DEF WorkerStep
  <1> QED
    BY <1>1, <1>2, <1>3, <1>4, <1>5, <1>6, <1>7, <1>8 DEF Next

(* The inductive invariant of the session: see its parts above. *)
THEOREM SessionCorrect == Spec => []SessionInv
  BY InitKeeps, StepKeeps, PTL DEF Spec

(* Every variable keeps its type, and only a connection that exists is open or runs a
   callback (run, the callbacks). *)
THEOREM TypeCorrect == Spec => []TypeOK
  <1>1. SessionInv => TypeOK
    BY DEF SessionInv, FlagsTyped, CallsTyped, ThreadsTyped, OpenInConnection, TypeOK,
           RunStates,
           WorkerStates
  <1> QED
    BY SessionCorrect, <1>1, PTL

(* Whatever is on the wire for the current settings carries their key, although the key
   is copied long before it is used (run, pop_job). *)
THEOREM CredentialsStayCurrent == Spec => []CredentialsCurrent
  <1>1. SessionInv => CredentialsCurrent
    BY DEF SessionInv, CopiesCurrent, CredentialsCurrent
  <1> QED
    BY SessionCorrect, <1>1, PTL

(* A session whose threads have ended says so (run's last line, stop). *)
THEOREM StatusAlwaysSettles == Spec => []StatusSettles
  <1>1. SessionInv => StatusSettles
    BY DEF SessionInv
  <1> QED
    BY SessionCorrect, <1>1, PTL

-----------------------------------------------------------------------------
(* Who writes the status. *)

LEMMA StatusWriters ==
  ASSUME Next, status' # status
  PROVE  \/ \E c \in Callers : StopReturns(c)
         \/ RunAnnounce \/ RunConnect \/ RunReconnecting \/ RunExit
         \/ OnOpen \/ OnError
         \/ \E w \in Workers : WorkerRefused(w)
  <1>1. \A cfg : ~UpdateSettings(cfg)
    BY DEF UpdateSettings, SessionRests
  <1>2. \A next : ~DestroyFilter(next)
    BY DEF DestroyFilter, SessionRests
  <1>3. ~ClearKey /\ ~AudioConfigures /\ ~ToggleBlocked
    BY DEF ClearKey, AudioConfigures, SessionRests, ToggleBlocked
  <1>4. \A c : ~ConfigureRunning(c) /\ ~ConfigureStopped(c) /\ ~Stop(c) /\ ~StartThreads(c)
    BY DEF ConfigureRunning, ConfigureStopped, Stop, StartThreads
  <1>5. ~RunTop /\ ~RunRead /\ ~RunGate /\ ~RunWaiting /\ ~RunPoll /\ ~RunPump
    BY DEF RunTop, RunRead, RunGate, RunWaiting, RunPoll, RunPump, RunMoves
  <1>6. ~RunIterate /\ ~RunClose /\ ~RunStopWs /\ ~RunBackoff
    BY DEF RunIterate, RunClose, RunStopWs, RunBackoff, RunMoves
  <1>7. ~OnTranscript /\ ~OnClose /\ ~OnErrorInvalidates /\ ~OnCloseSeen
    BY DEF OnTranscript, OnClose, OnErrorInvalidates, OnCloseSeen
  <1>8. \A w : ~WorkerLeaves(w) /\ ~WorkerTakesJob(w) /\ ~WorkerFindsNothing(w)
               /\ ~WorkerSleeps(w) /\ ~WorkerCompletes(w)
    BY DEF WorkerLeaves, WorkerTakesJob, WorkerFindsNothing, WorkerSleeps,
           WorkerCompletes,
           WorkerMoves
  <1> QED
    BY <1>1, <1>2, <1>3, <1>4, <1>5, <1>6, <1>7, <1>8
       DEF Next, RunStep, CallbackStep, CallReturns, WorkerStep

(* A key is refused only while it is the configured one: an answer to an earlier key
   never stops a session that was given a new one (the epoch and generation checks of
   the callbacks and of complete). *)
THEOREM RefusedKeyStaysCurrent == Spec => RefusedKeyIsCurrent
  <1> DEFINE Refused == status' = "AuthError" /\ status # "AuthError" => Key(config) \in BadKeys
  <1>1. SessionInv /\ [Next]_vars => [Refused]_vars
    <2> SUFFICES ASSUME SessionInv, Next, status' = "AuthError", status # "AuthError"
                 PROVE  Key(config) \in BadKeys
      OBVIOUS
    <2>1. CASE OnError
      BY <2>1 DEF OnError, SessionInv, CopiesCurrent
    <2>2. ASSUME NEW w \in Workers, WorkerRefused(w) PROVE Key(config) \in BadKeys
      BY <2>2 DEF WorkerRefused, RefusalAccepted, SessionInv, CopiesCurrent
    <2>3. \A c \in Callers : ~StopReturns(c)
      BY DEF StopReturns
    <2>4. ~RunAnnounce /\ ~RunConnect /\ ~RunReconnecting /\ ~RunExit /\ ~OnOpen
      BY DEF RunAnnounce, RunConnect, RunReconnecting, RunExit, OnOpen
    <2> QED
      BY <2>1, <2>2, <2>3, <2>4, StatusWriters
  <1> QED
    BY SessionCorrect, <1>1, PTL DEF Spec, RefusedKeyIsCurrent

(* An authentication error stays on display until the session is started again or
   stopped, or a pause that was already decided on is announced (run,
   stop_caption_session_for_settings). *)
THEOREM AuthErrorStays == Spec => AuthErrorIsKept
  <1> DEFINE Ends == running \/ \E c \in Callers : caller[c].pc = "stopping"
             Kept == status = "AuthError" /\ status' \notin {"AuthError", "Paused"} => Ends
  <1>1. SessionInv /\ [Next]_vars => [Kept]_vars
    <2> SUFFICES ASSUME SessionInv, Next, status = "AuthError", status' \notin {"AuthError", "Paused"}
                 PROVE  Ends
      OBVIOUS
    <2>1. ASSUME NEW c \in Callers, StopReturns(c) PROVE Ends
      BY <2>1 DEF StopReturns
    <2>2. RunConnect \/ OnOpen => running
      BY DEF RunConnect, OnOpen
    <2>3. RunReconnecting => Ends
      BY DEF RunReconnecting, SessionInv, ReconnectingEnds
    <2>4. ~RunAnnounce /\ ~RunExit /\ ~OnError /\ \A w : ~WorkerRefused(w)
      BY DEF RunAnnounce, RunExit, OnError, WorkerRefused
    <2> QED
      BY <2>1, <2>2, <2>3, <2>4, StatusWriters
  <1> QED
    BY SessionCorrect, <1>1, PTL DEF Spec, AuthErrorIsKept
=============================================================================
