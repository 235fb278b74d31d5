---------------------------- MODULE AdaptivePool ----------------------------
(***************************************************************************)
(* The pool: its components composed, the fairness of its goroutines, and  *)
(* the properties they must have together.                                 *)
(***************************************************************************)
EXTENDS Submission, Workers, Scaling, ShutdownProtocol

\* Every call has returned: what remains may rest.
Finished ==
  /\ \A t \in Tasks : call[t] = "returned"
  /\ \A c \in Callers : shut[c] = "returned"
  /\ UNCHANGED vars

Next ==
  \/ \E t \in Tasks : SubmitStep(t) \/ SubmitCtxEnds(t)
  \/ \E w \in Workers : WorkerStep(w) \/ TimerFires(w)
  \/ ScalingStep
  \/ \E c \in Callers : Call(c) \/ CallerCtxEnds(c) \/ LeaderStep(c) \/ FollowerStep(c)
  \/ WatchWorkers \/ DetachLater
  \/ Finished

Spec == Init /\ [][Next]_vars

-----------------------------------------------------------------------------
(***************************************************************************)
(* Fairness. The runtime keeps scheduling a goroutine that can go on, and  *)
(* a select takes a case that stays ready. The dispatcher's select chooses *)
(* at random between a tick and a done context, hence the strong fairness. *)
(* No timer and no context has to fire, and no job has to end, unless a    *)
(* specification says so.                                                  *)
(***************************************************************************)
WorkerProceeds(w) ==
  \/ StartJob(w) \/ DropTaken(w) \/ ReportJob(w) \/ NotifyJob(w) \/ Exit(w)

GoroutineFairness ==
  /\ \A t \in Tasks : WF_vars(SubmitStep(t))
  /\ \A w \in Workers : /\ WF_vars(Receive(w))
                        /\ WF_vars(StopForced(w) \/ StopClosed(w))
                        /\ WF_vars(WorkerProceeds(w))
  /\ WF_vars(SpawnMinimum) /\ WF_vars(ScaleUpStep) /\ SF_vars(StopDispatcher)
  /\ \A c \in Callers : WF_vars(LeaderStep(c)) /\ WF_vars(FollowerStep(c))
  /\ WF_vars(WatchWorkers) /\ WF_vars(DetachLater)

FairSpec == Spec /\ GoroutineFairness

\* What a liveness property may ask of the jobs, and of who calls Shutdown.
JobsEnd == \A w \in Workers : WF_vars(EndJob(w))
CallersGiveUp == \A c \in Callers : WF_vars(CallerCtxEnds(c))

\* The dispatcher ticks and cooldowns pass; jobs may hang. A worker's select
\* chooses at random too, so not every worker that finds both a job and its
\* idle timer retires.
TickingSpec ==
  /\ Spec /\ GoroutineFairness
  /\ WF_vars(checkScaling) /\ WF_vars(CooldownEnds)
  /\ SF_vars(\E w \in Workers : Receive(w))

-----------------------------------------------------------------------------
\* Every variable has its type: the queue never holds more than QueueSize jobs,
\* the work of New and scaleUp that is left is never negative.
TypeOK ==
  /\ SubmitTypeOK /\ QueueTypeOK /\ WorkerTypeOK /\ ScalingTypeOK
  /\ ShutdownTypeOK /\ RecordTypeOK

-----------------------------------------------------------------------------
(***************************************************************************)
(* Safety                                                                  *)
(***************************************************************************)
In(t, q) == \E i \in DOMAIN q : q[i] = t
Distinct(q) == \A i, j \in DOMAIN q : q[i] = q[j] => i = j

Queued(t) == In(t, queue)
HeldBy(t, w) == worker[w] = "taken" /\ job[w] = t
Held(t) == \E w \in Workers : HeldBy(t, w)

\* No Submit is about to send, or blocked sending, on a closed queue: either
\* would panic in the caller. It is what submitMu and closing are for.
NoSendOnClosedQueue ==
  queueClosed => \A t \in Tasks : call[t] \notin {"sending", "waiting"}

\* An accepted job is in exactly one place: queued once, in the hands of one
\* worker, started, or dropped. A job that was not accepted is in none.
OnePlace ==
  /\ Distinct(queue)
  /\ \A v, w \in Workers : \A t \in Tasks : HeldBy(t, v) /\ HeldBy(t, w) => v = w
  /\ \A t \in Tasks :
       IF answer[t] = "nil"
       THEN \/ Queued(t) /\ ~Held(t) /\ runs[t] = 0 /\ drops[t] = 0
            \/ ~Queued(t) /\ Held(t) /\ runs[t] = 0 /\ drops[t] = 0
            \/ ~Queued(t) /\ ~Held(t) /\ runs[t] = 1 /\ drops[t] = 0
            \/ ~Queued(t) /\ ~Held(t) /\ runs[t] = 0 /\ drops[t] = 1
       ELSE ~Queued(t) /\ ~Held(t) /\ runs[t] = 0 /\ drops[t] = 0

\* OnTaskDone is called at most once for a task, and only once the task has
\* been started or dropped.
OneNotice == \A t \in Tasks : notices[t] <= runs[t] + drops[t] /\ notices[t] <= 1

\* Both together: no task is lost, done twice or reported twice.
TaskConservation == OnePlace /\ OneNotice

\* The counters that decisions and reports are taken from say the truth.
CountersExact ==
  /\ workerCount = Cardinality(Live)
  /\ busyWorkers = Cardinality({w \in Workers :
                                  worker[w] \in {"running", "reportDone", "notifyDone"}})
  /\ jobsDropped = Cardinality({t \in Tasks : drops[t] > 0})

\* New and the dispatcher never start more workers than MaxWorkers together,
\* though each counts on its own (pool.go:126 does not count at all).
WorkersWithinMax == workerCount + toAdd <= MaxWorkers

\* workerWg.Wait is not reached while a goroutine may still be added: once the
\* queue is closed nothing spawns, and once Wait has returned nothing is live.
WorkersGoneForGood ==
  /\ queueClosed => booting = 0 /\ dispatcher = "stopped"
  /\ workersDone => Live = {}

\* A Shutdown that returns nil has let every accepted job run: nothing queued
\* is abandoned. (It needs MinWorkers = MaxWorkers, see the README.)
NilMeansAllRan ==
  \A c \in Callers : result[c] = "nil" =>
    \A t \in Tasks : answer[t] = "nil" => runs[t] = 1 /\ notices[t] = 1

\* The Dropped of the ShutdownError, read before Shutdown returns, is the
\* number of jobs ever dropped, provided every worker had exited.
DroppedExact ==
  shutdownDone /\ drained =>
    /\ reportedDropped = Cardinality({t \in Tasks : drops[t] > 0})
    /\ shutdownErr = IF reportedDropped > 0 THEN "dropped" ELSE "nil"

\* Detach comes after the last event of a job or of the dispatcher, also when
\* Shutdown returns before its workers have exited.
JobEventsBeforeDetach == late \subseteq {"rejected"}

\* All calls of Shutdown that have returned agree, but for the later calls
\* whose own context ended first.
ResultsAgree ==
  \A c \in Callers : result[c] \in {"none", "ownCtxErr", shutdownErr}

\* Once a Shutdown that saw all workers exit has ended, the pool is inert: no
\* job starts, no hook is called, nothing is queued, no worker appears.
InertOnceDrained ==
  [][shutdownDone /\ drained =>
       UNCHANGED <<queue, runs, drops, notices, worker, jobsProcessed, jobsDropped>>]_vars

-----------------------------------------------------------------------------
(***************************************************************************)
(* Who can go on without a timer, a context, a job or a caller of the pool *)
(* doing anything: the guards of the steps, for each kind of goroutine.    *)
(***************************************************************************)
SubmitReady(t) ==
  \/ call[t] = "new" /\ Built /\ (t \in NilTasks \/ ~WriterWaits)
  \/ call[t] \in {"locked", "reporting"}
  \/ call[t] = "sending" /\ ~queueClosed
  \/ /\ call[t] = "waiting"
     /\ closing \/ ctx[t] # "live" \/ (~queueClosed /\ Len(queue) < QueueSize)

WorkerReady(w) ==
  \/ worker[w] = "loop" /\ (forceStop \/ queueClosed \/ queue # <<>>)
  \/ worker[w] \notin {"none", "loop", "running"}

ScalingReady ==
  \/ booting > 0
  \/ dispatcher \in {"scale", "spawn", "report"}
  \/ dispatcher = "select" /\ dispatcherCtx = "done"

ShutdownReady(c) ==
  \/ shut[c] \in {"won", "finish", "check"}
  \/ shut[c] = "dispatcher" /\ dispatcher = "stopped"
  \/ shut[c] = "lock" /\ Readers = {}
  \/ shut[c] = "wait" /\ (workersDone \/ callerCtx[c] = "done")
  \/ shut[c] = "drop" /\ (queue # <<>> \/ queueClosed)
  \/ shut[c] = "grace" /\ workersDone
  \/ shut[c] = "await" /\ (shutdownDone \/ callerCtx[c] = "done")

\* No job runs, and no goroutine of the pool can go on.
Resting ==
  /\ \A t \in Tasks : ~SubmitReady(t)
  /\ \A w \in Workers : ~WorkerReady(w) /\ worker[w] # "running"
  /\ ~ScalingReady
  /\ \A c \in Callers : ~ShutdownReady(c)
  /\ ~(queueClosed /\ Live = {} /\ ~workersDone)    \* the goroutine of WatchWorkers
  /\ ~(detachPending /\ workersDone)                \* that of DetachLater

\* Nobody waits for somebody who waits. When the pool rests every submission and
\* every Shutdown has returned, every accepted task has been notified, and after
\* a Shutdown the workers are gone and the recorder is detached. The one way to
\* be stuck is that all workers have retired with jobs queued, unforced.
NobodyStuck ==
  Resting =>
    /\ \A t \in Tasks : call[t] = "returned" \/ (call[t] = "waiting" /\ Len(queue) = QueueSize)
    /\ \A t \in Tasks : answer[t] = "nil" => notices[t] = 1 \/ Queued(t)
    /\ queue # <<>> => Live = {} /\ ~forceStop
    /\ \A c \in Callers : shut[c] \in {"new", "returned"}
    /\ shutdownStarted => /\ shutdownDone /\ Live = {} /\ detached
                          /\ \A t \in Tasks : call[t] = "returned"

-----------------------------------------------------------------------------
(***************************************************************************)
(* The pool implements the ledger of tasks.                                *)
(***************************************************************************)
StatusOf(t) ==
  LET decided == runs[t] + drops[t]
  IN  CASE decided > 1                                       -> "broken"
        [] decided = 1 /\ drops[t] = 1                       -> "dropped"
        [] decided = 1 /\ runs[t] = 1 /\ notices[t] = 0      -> "running"
        [] decided = 1 /\ runs[t] = 1 /\ notices[t] > 0      -> "ran"
        [] decided = 0 /\ answer[t] = "nil"                  -> "accepted"
        [] decided = 0 /\ answer[t] = "none"                 -> "new"
        [] decided = 0 /\ answer[t] \notin {"nil", "none"}   -> "refused"

Phase == IF forceStop THEN "forced" ELSE IF queueClosed THEN "closed" ELSE "open"

Ledger == INSTANCE TaskLedger WITH status <- [t \in Tasks |-> StatusOf(t)],
                                   phase <- Phase

\* Every step of the pool is a step of the ledger or leaves it as it is.
ImplementsLedger == Ledger!Spec

-----------------------------------------------------------------------------
(***************************************************************************)
(* Liveness                                                                *)
(***************************************************************************)
\* If jobs end every submission returns, those that wait for room included.
SubmissionsReturn == JobsEnd => <>(\A t \in Tasks : call[t] = "returned")

\* If jobs end every accepted one comes to its OnTaskDone call: time and again
\* none is left without.
AcceptedIsSettled ==
  JobsEnd => []<>(\A t \in Tasks : answer[t] = "nil" => notices[t] = 1)

\* Every call of Shutdown returns if jobs end, and also if they hang for ever
\* but the contexts of the calls end.
ShutdownReturns ==
  JobsEnd \/ CallersGiveUp =>
    \A c \in Callers : (shut[c] # "new") ~> (shut[c] = "returned")

\* Once Shutdown has been called no submission stays blocked, whatever the
\* jobs do.
ShutdownReleasesSubmits ==
  shutdownStarted ~> \A t \in Tasks : call[t] = "returned"

\* The recorder is detached if jobs end, also when Shutdown gave up on workers.
RecorderDetached == JobsEnd => (shutdownDone ~> detached)

\* A queue at or over the threshold gets the pool to MaxWorkers, unless it
\* falls below the threshold or the pool shuts down.
BacklogScalesUp ==
  (Built /\ Backlogged) ~> (workerCount >= MaxWorkers \/ ~Backlogged \/ shutdownStarted)

-----------------------------------------------------------------------------
(***************************************************************************)
(* A claim of the documentation that the code does not keep.               *)
(***************************************************************************)
\* A worker that retires has been idle since its timer was set.
OnlyIdleRetire == \A w \in Workers : worker[w] = "retiring" => timer[w] = "expired"
=============================================================================
