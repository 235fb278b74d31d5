------------------------------ MODULE PoolState ------------------------------
(***************************************************************************)
(* The state every component of the pool shares (internal_types.go, the    *)
(* pool struct of pool.go, the counters of metrics.go), its initial value, *)
(* and the operators on it that more than one component uses.              *)
(*                                                                         *)
(* A task stands for one call of Submit, SubmitTask or TrySubmit together  *)
(* with the job it carries; a worker for a slot a worker goroutine can     *)
(* occupy, reused once the goroutine has exited; a caller for one call of  *)
(* Shutdown.                                                               *)
(***************************************************************************)
EXTENDS Integers, Sequences, FiniteSets

CONSTANTS
  Tasks,          \* the submissions made during the life of the pool
  TryTasks,       \* those made with TrySubmit: they never wait
  OwnCtxTasks,    \* those whose Task.Context is set
  NilTasks,       \* those whose Run is nil
  CtxEnds,        \* how a submit context may end: "canceled", "deadline"
  Workers,        \* the slots for worker goroutines
  Callers,        \* the calls of Shutdown
  MinWorkers, MaxWorkers, QueueSize,  \* the Config fields of those names
  ThresholdPct,   \* scaleUpThreshold, in percent
  None            \* no task

\* What Config.validate accepts, and the bounds of the model: a slot for each
\* worker the pool may have.
ASSUME ConfigAssumption ==
  /\ MinWorkers \in Nat \ {0}
  /\ MaxWorkers \in Nat /\ MaxWorkers >= MinWorkers
  /\ QueueSize \in Nat \ {0}
  /\ ThresholdPct \in 0..100

ASSUME TasksAssumption ==
  /\ None \notin Tasks
  /\ TryTasks \subseteq Tasks /\ OwnCtxTasks \subseteq Tasks /\ NilTasks \subseteq Tasks
  /\ CtxEnds \subseteq {"canceled", "deadline"}

ASSUME WorkersAssumption ==
  IsFiniteSet(Workers) /\ Cardinality(Workers) >= MaxWorkers

VARIABLES
  call,           \* call[t]: where the submission of t is
  ctx,            \* ctx[t]: the state of the context it was made with
  answer,         \* answer[t]: the error it returns ("nil" for none)
  queue,          \* the buffer of the channel jobQueue
  queueClosed,    \* jobQueue has been closed
  worker,         \* worker[w]: where the goroutine in slot w is
  job,            \* job[w]: the job it received last
  timer,          \* timer[w]: its idleTimer
  workerCount, busyWorkers,
  booting,        \* the workers New has still to spawn
  dispatcher,     \* where runDispatcher is
  dispatcherCtx, 
  toAdd,          \* the workers scaleUp has still to spawn
  cooling,        \* scaleCooldown has not passed since lastScaleUp
  shut,           \* shut[c]: where the Shutdown call c is
  callerCtx,      \* callerCtx[c]: its context
  result,         \* result[c]: what it returned
  shutdownStarted, shutdownState, closing, forceStop, shutdownDone, shutdownErr,
  workersDone, drained,
  reportedDropped,  \* Dropped of the ShutdownError
  detachPending,  \* the goroutine of detachRecorder waits for workersDone
  detached,
  jobsProcessed, jobsRejected, jobsDropped,
  runs,           \* runs[t]: how often the job of t was started
  drops,          \* drops[t]: how often dropJob was called for t
  notices,        \* notices[t]: how often OnTaskDone was called for t
  late            \* the kinds of event reported to a detached recorder

submitVars  == <<call, ctx, answer>>
queueVars   == <<queue, queueClosed>>
workerVars  == <<worker, job, timer, workerCount, busyWorkers>>
scalingVars == <<booting, dispatcher, toAdd, cooling>>
shutdownVars == <<shut, callerCtx, result, dispatcherCtx, shutdownStarted,
                  shutdownState, closing, forceStop, shutdownDone, shutdownErr,
                  workersDone, drained, reportedDropped, detachPending, detached>>
counterVars == <<jobsProcessed, jobsRejected, jobsDropped>>
fateVars    == <<runs, drops, notices>>

vars == <<submitVars, queueVars, workerVars, scalingVars, shutdownVars,
          counterVars, fateVars, late>>

Init ==
  /\ call = [t \in Tasks |-> "new"]
  /\ ctx = [t \in Tasks |-> "live"]
  /\ answer = [t \in Tasks |-> "none"]
  /\ queue = <<>> /\ queueClosed = FALSE
  /\ worker = [w \in Workers |-> "none"]
  /\ job = [w \in Workers |-> None]
  /\ timer = [w \in Workers |-> "armed"]
  /\ workerCount = 0 /\ busyWorkers = 0
  /\ booting = MinWorkers
  /\ dispatcher = "select" /\ toAdd = 0 /\ cooling = FALSE
  /\ shut = [c \in Callers |-> "new"]
  /\ callerCtx = [c \in Callers |-> "live"]
  /\ result = [c \in Callers |-> "none"]
  /\ dispatcherCtx = "live"
  /\ shutdownStarted = FALSE /\ shutdownState = "running"
  /\ closing = FALSE /\ forceStop = FALSE
  /\ shutdownDone = FALSE /\ shutdownErr = "nil"
  /\ workersDone = FALSE /\ drained = FALSE /\ reportedDropped = 0
  /\ detachPending = FALSE /\ detached = FALSE
  /\ jobsProcessed = 0 /\ jobsRejected = 0 /\ jobsDropped = 0
  /\ runs = [t \in Tasks |-> 0]
  /\ drops = [t \in Tasks |-> 0]
  /\ notices = [t \in Tasks |-> 0]
  /\ late = {}

-----------------------------------------------------------------------------
(***************************************************************************)
(* The types, component by component.                                      *)
(***************************************************************************)
SubmitAnswers == {"nil", "nilJob", "shutdown", "queueFull", "timeout", "canceled"}
ShutdownErrors == {"nil", "ctxErr", "dropped"}
WorkerPlaces == {"none", "loop", "taken", "running", "reportDone", "notifyDone",
                 "reportDrop", "notifyDrop", "retiring", "stopping"}
ShutdownPlaces == {"new", "won", "dispatcher", "lock", "wait", "drop", "grace",
                   "finish", "check", "await", "returned"}

SubmitTypeOK ==
  /\ call \in [Tasks -> {"new", "locked", "sending", "waiting", "reporting", "returned"}]
  /\ ctx \in [Tasks -> {"live"} \union CtxEnds]
  /\ answer \in [Tasks -> {"none"} \union SubmitAnswers]

QueueTypeOK ==
  /\ queue \in Seq(Tasks) /\ Len(queue) <= QueueSize
  /\ queueClosed \in BOOLEAN

WorkerTypeOK ==
  /\ worker \in [Workers -> WorkerPlaces]
  /\ job \in [Workers -> Tasks \union {None}]
  /\ timer \in [Workers -> {"armed", "expired", "overrun"}]
  /\ workerCount \in Int /\ busyWorkers \in Int

ScalingTypeOK ==
  /\ booting \in 0..MinWorkers
  /\ dispatcher \in {"select", "scale", "spawn", "report", "stopped"}
  /\ toAdd \in Nat /\ cooling \in BOOLEAN

ShutdownTypeOK ==
  /\ shut \in [Callers -> ShutdownPlaces]
  /\ callerCtx \in [Callers -> {"live", "done"}]
  /\ result \in [Callers -> {"none", "ownCtxErr"} \union ShutdownErrors]
  /\ dispatcherCtx \in {"live", "done"}
  /\ shutdownState \in {"running", "draining", "terminated"}
  /\ shutdownErr \in ShutdownErrors /\ reportedDropped \in Nat
  /\ shutdownStarted \in BOOLEAN /\ closing \in BOOLEAN /\ forceStop \in BOOLEAN
  /\ shutdownDone \in BOOLEAN /\ workersDone \in BOOLEAN /\ drained \in BOOLEAN
  /\ detachPending \in BOOLEAN /\ detached \in BOOLEAN

RecordTypeOK ==
  /\ jobsProcessed \in Nat /\ jobsRejected \in Nat /\ jobsDropped \in Nat
  /\ runs \in [Tasks -> Nat] /\ drops \in [Tasks -> Nat] /\ notices \in [Tasks -> Nat]
  /\ late \subseteq {"submitted", "rejected", "completed", "dropped", "scaledUp"}

-----------------------------------------------------------------------------
\* The goroutines that have been spawned and have not called workerWg.Done.
Live == {w \in Workers : worker[w] # "none"}

\* The submissions that hold submitMu for reading.
Readers == {t \in Tasks : call[t] \in {"locked", "sending", "waiting", "reporting"}}

\* Shutdown is blocked in submitMu.Lock: new readers wait behind it.
WriterWaits == \E c \in Callers : shut[c] = "lock"

\* New has returned: the pool can be used.
Built == booting = 0

isShutdown == shutdownState # "running"

\* Mutant of BusyDepth: the division rounds down, for QueueSize = 1 to 0.
BusyDepthRoundedDown == (ThresholdPct * QueueSize) \div 100

\* The least depth at which getQueueUtilization reaches scaleUpThreshold.
BusyDepth == (ThresholdPct * QueueSize + 99) \div 100

Backlogged == Len(queue) >= BusyDepth

\* A call of a method of the recorder, after the test of detached.
Report(kind) == late' = IF detached THEN late \union {kind} ELSE late

\* spawnWorker: the increment, workerWg.Add and the go statement.
SpawnWorker(w) ==
  /\ worker[w] = "none"
  /\ worker' = [worker EXCEPT ![w] = "loop"]
  /\ timer' = [timer EXCEPT ![w] = "armed"]
  /\ workerCount' = workerCount + 1
  /\ UNCHANGED <<job, busyWorkers>>
=============================================================================
