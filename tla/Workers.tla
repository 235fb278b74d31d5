------------------------------- MODULE Workers -------------------------------
(***************************************************************************)
(* The worker goroutine: runWorker (pool.go) with executeJob and dropJob   *)
(* (execute.go). How the job ends, retries and panics included, is no part *)
(* of the state: the worker records the outcome and calls OnTaskDone in    *)
(* every case.                                                             *)
(***************************************************************************)
EXTENDS PoolState

workerFrame == <<submitVars, queueClosed, scalingVars, shutdownVars, jobsRejected>>

At(w, pc) == worker[w] = pc

Goto(w, pc) == worker' = [worker EXCEPT ![w] = pc]

\* The cases of the select that end the goroutine.
StopForced(w) ==
  /\ At(w, "loop") /\ forceStop
  /\ Goto(w, "stopping")
  /\ UNCHANGED <<job, timer, workerCount, busyWorkers, queue, workerFrame,
                 jobsProcessed, jobsDropped, fateVars, late>>

\* Mutant of StopClosed: the worker stops with jobs still in the queue.
StopClosedAtOnce(w) ==
  /\ At(w, "loop") /\ queueClosed
  /\ Goto(w, "stopping")
  /\ UNCHANGED <<job, timer, workerCount, busyWorkers, queue, workerFrame,
                 jobsProcessed, jobsDropped, fateVars, late>>

StopClosed(w) ==
  /\ At(w, "loop") /\ queueClosed /\ queue = <<>>
  /\ Goto(w, "stopping")
  /\ UNCHANGED <<job, timer, workerCount, busyWorkers, queue, workerFrame,
                 jobsProcessed, jobsDropped, fateVars, late>>

\* The receive case.
Receive(w) ==
  /\ At(w, "loop") /\ queue # <<>>
  /\ job' = [job EXCEPT ![w] = Head(queue)]
  /\ queue' = Tail(queue)
  /\ Goto(w, "taken")
  /\ UNCHANGED <<timer, workerCount, busyWorkers, workerFrame,
                 jobsProcessed, jobsDropped, fateVars, late>>

\* After the second look at forceStop: the idle timer is reset, then
\* executeJob starts the job.
StartJob(w) ==
  /\ At(w, "taken") /\ ~forceStop
  /\ Goto(w, "running")
  /\ timer' = [timer EXCEPT ![w] = "armed"]
  /\ busyWorkers' = busyWorkers + 1
  /\ runs' = [runs EXCEPT ![job[w]] = @ + 1]
  /\ UNCHANGED <<job, workerCount, queue, workerFrame,
                 jobsProcessed, jobsDropped, drops, notices, late>>

\* recordJobDone up to its test of detached.
EndJob(w) ==
  /\ At(w, "running")
  /\ jobsProcessed' = jobsProcessed + 1
  /\ Goto(w, IF detached THEN "notifyDone" ELSE "reportDone")
  /\ UNCHANGED <<job, timer, workerCount, busyWorkers, queue, workerFrame,
                 jobsDropped, fateVars, late>>

\* Mutant of DropTaken: the worker stops without a word of the job it took.
DiscardTaken(w) ==
  /\ At(w, "taken") /\ forceStop
  /\ Goto(w, "stopping")
  /\ UNCHANGED <<job, timer, workerCount, busyWorkers, queue, workerFrame,
                 jobsProcessed, jobsDropped, fateVars, late>>

\* Mutant of DropTaken: without the return, the dropped job is run as well.
DropAndRun(w) ==
  /\ At(w, "taken") /\ forceStop
  /\ jobsDropped' = jobsDropped + 1
  /\ drops' = [drops EXCEPT ![job[w]] = @ + 1]
  /\ notices' = [notices EXCEPT ![job[w]] = @ + 1]
  /\ runs' = [runs EXCEPT ![job[w]] = @ + 1]
  /\ busyWorkers' = busyWorkers + 1
  /\ Goto(w, "running")
  /\ UNCHANGED <<job, timer, workerCount, queue, workerFrame, jobsProcessed, late>>

\* dropJob, likewise.
DropTaken(w) ==
  /\ At(w, "taken") /\ forceStop
  /\ jobsDropped' = jobsDropped + 1
  /\ drops' = [drops EXCEPT ![job[w]] = @ + 1]
  /\ Goto(w, IF detached THEN "notifyDrop" ELSE "reportDrop")
  /\ UNCHANGED <<job, timer, workerCount, busyWorkers, queue, workerFrame,
                 jobsProcessed, runs, notices, late>>

ReportJob(w) ==
  /\ \/ At(w, "reportDone") /\ Report("completed") /\ Goto(w, "notifyDone")
     \/ At(w, "reportDrop") /\ Report("dropped") /\ Goto(w, "notifyDrop")
  /\ UNCHANGED <<job, timer, workerCount, busyWorkers, queue, workerFrame,
                 jobsProcessed, jobsDropped, fateVars>>

\* notifyTaskDone: back to the loop after a run, out of it after a drop.
NotifyJob(w) ==
  /\ \/ At(w, "notifyDone") /\ Goto(w, "loop") /\ busyWorkers' = busyWorkers - 1
     \/ At(w, "notifyDrop") /\ Goto(w, "stopping") /\ UNCHANGED busyWorkers
  /\ notices' = [notices EXCEPT ![job[w]] = @ + 1]
  /\ job' = [job EXCEPT ![w] = None]
  /\ UNCHANGED <<timer, workerCount, queue, workerFrame,
                 jobsProcessed, jobsDropped, runs, drops, late>>

\* The idle timer expires: while the worker waits in the select, or during
\* a job, after StartJob reset it. StartJob discards any other expiry.
TimerFires(w) ==
  /\ timer[w] = "armed"
  /\ \/ At(w, "loop") /\ timer' = [timer EXCEPT ![w] = "expired"]
     \/ At(w, "running") /\ timer' = [timer EXCEPT ![w] = "overrun"]
  /\ UNCHANGED <<worker, job, workerCount, busyWorkers, queue, workerFrame,
                 jobsProcessed, jobsDropped, fateVars, late>>

\* Mutant of IdleCheck: the bound off by one.
IdleCheckAtMinimum(w) ==
  /\ At(w, "loop") /\ timer[w] # "armed"
  /\ workerCount >= MinWorkers /\ Goto(w, "retiring")
  /\ UNCHANGED <<job, timer, workerCount, busyWorkers, queue, workerFrame,
                 jobsProcessed, jobsDropped, fateVars, late>>

\* The idle case: the decision is taken on the count read here. The count is
\* decremented later, by Exit.
IdleCheck(w) ==
  /\ At(w, "loop") /\ timer[w] # "armed"
  /\ \/ workerCount > MinWorkers /\ Goto(w, "retiring") /\ UNCHANGED timer
     \/ /\ workerCount <= MinWorkers
        /\ timer' = [timer EXCEPT ![w] = "armed"]
        /\ UNCHANGED worker
  /\ UNCHANGED <<job, workerCount, busyWorkers, queue, workerFrame,
                 jobsProcessed, jobsDropped, fateVars, late>>

\* Mutant of Exit: the deferred decrement is missing.
ExitUncounted(w) ==
  /\ worker[w] \in {"retiring", "stopping"}
  /\ Goto(w, "none")
  /\ timer' = [timer EXCEPT ![w] = "armed"]
  /\ UNCHANGED <<job, workerCount, busyWorkers, queue, workerFrame,
                 jobsProcessed, jobsDropped, fateVars, late>>

\* The deferred calls: idleTimer.Stop, decrementWorkerCount, workerWg.Done.
Exit(w) ==
  /\ worker[w] \in {"retiring", "stopping"}
  /\ Goto(w, "none")
  /\ timer' = [timer EXCEPT ![w] = "armed"]
  /\ workerCount' = workerCount - 1
  /\ UNCHANGED <<job, busyWorkers, queue, workerFrame,
                 jobsProcessed, jobsDropped, fateVars, late>>

WorkerStep(w) ==
  \/ StopForced(w) \/ StopClosed(w)
  \/ Receive(w) \/ StartJob(w) \/ EndJob(w) \/ DropTaken(w)
  \/ ReportJob(w) \/ NotifyJob(w)
  \/ IdleCheck(w) \/ Exit(w)
=============================================================================
