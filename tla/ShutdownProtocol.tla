-------------------------- MODULE ShutdownProtocol --------------------------
(***************************************************************************)
(* Shutdown and detachRecorder (shutdown.go). The call that wins the       *)
(* compare-and-swap, the leader, goes through                              *)
(*   won, dispatcher, lock, wait, and if its context ends drop and grace,  *)
(* to finish; every other call goes through check and await.               *)
(***************************************************************************)
EXTENDS PoolState

shutdownFrame == <<submitVars, workerVars, scalingVars, jobsProcessed,
                   jobsRejected, runs>>

calls   == <<callerCtx, result>>
signals == <<dispatcherCtx, shutdownState, closing, forceStop, queueClosed>>
waits   == <<workersDone, drained>>
verdict == <<shutdownDone, shutdownErr, reportedDropped, detachPending, detached>>

\* What only the drain loop touches.
dropFrame == <<queue, jobsDropped, drops, notices, late>>

Move(c, from, to) == shut[c] = from /\ shut' = [shut EXCEPT ![c] = to]

Call(c) ==
  /\ Built
  /\ IF shutdownStarted THEN Move(c, "new", "check") ELSE Move(c, "new", "won")
  /\ shutdownStarted' = TRUE
  /\ UNCHANGED <<calls, signals, verdict, waits, dropFrame, shutdownFrame>>

\* Mutant of Announce: the dispatcher is not told to stop.
AnnounceToSubmits(c) ==
  /\ Move(c, "won", "dispatcher")
  /\ shutdownState' = "draining"
  /\ closing' = TRUE
  /\ UNCHANGED <<calls, shutdownStarted, dispatcherCtx, forceStop, verdict, waits,
                 queueClosed, dropFrame, shutdownFrame>>

\* The draining state, close(closing) and dispatcherCancel: no step of
\* another goroutine reads two of them.
Announce(c) ==
  /\ Move(c, "won", "dispatcher")
  /\ shutdownState' = "draining"
  /\ closing' = TRUE
  /\ dispatcherCtx' = "done"
  /\ UNCHANGED <<calls, shutdownStarted, forceStop, verdict, waits,
                 queueClosed, dropFrame, shutdownFrame>>

\* Mutant of DispatcherGone: Shutdown does not wait for the dispatcher.
LeaveDispatcher(c) ==
  /\ Move(c, "dispatcher", "lock")
  /\ UNCHANGED <<calls, signals, shutdownStarted, verdict, waits, dropFrame,
                 shutdownFrame>>

\* dispatcherWg.Wait returns; Shutdown goes on to block in submitMu.Lock.
DispatcherGone(c) ==
  /\ dispatcher = "stopped"
  /\ Move(c, "dispatcher", "lock")
  /\ UNCHANGED <<calls, signals, shutdownStarted, verdict, waits, dropFrame,
                 shutdownFrame>>

\* Mutant of CloseQueue: the queue is closed without the lock.
CloseUnlocked(c) ==
  /\ Move(c, "lock", "wait")
  /\ queueClosed' = TRUE
  /\ UNCHANGED <<calls, dispatcherCtx, shutdownStarted, shutdownState, closing,
                 forceStop, verdict, waits, dropFrame, shutdownFrame>>

\* The write lock is free once the readers have left; the critical section.
CloseQueue(c) ==
  /\ Readers = {}
  /\ Move(c, "lock", "wait")
  /\ queueClosed' = TRUE
  /\ UNCHANGED <<calls, dispatcherCtx, shutdownStarted, shutdownState,
                 closing, forceStop, verdict, waits, dropFrame,
                 shutdownFrame>>

\* The goroutine that waits for workerWg, started after the queue is closed.
WatchWorkers ==
  /\ queueClosed /\ Live = {} /\ ~workersDone
  /\ workersDone' = TRUE
  /\ UNCHANGED <<shut, calls, signals, shutdownStarted, verdict, drained,
                 dropFrame, shutdownFrame>>

\* The first select: workersDone, or the leader's context.
AllWorkersLeft(c) ==
  /\ workersDone
  /\ Move(c, "wait", "finish") \/ Move(c, "grace", "finish")
  /\ drained' = TRUE
  /\ UNCHANGED <<calls, signals, shutdownStarted, verdict, workersDone,
                 dropFrame, shutdownFrame>>

ForceWorkers(c) ==
  /\ callerCtx[c] = "done"
  /\ Move(c, "wait", "drop")
  /\ forceStop' = TRUE
  /\ UNCHANGED <<calls, dispatcherCtx, shutdownStarted, shutdownState,
                 closing, verdict, waits, queueClosed, dropFrame,
                 shutdownFrame>>

\* One turn of the loop over the closed queue, with the whole of dropJob: the
\* leader, which is the one to detach, has no rival in it.
DropQueued(c) ==
  /\ Move(c, "drop", "drop")
  /\ queue # <<>>
  /\ queue' = Tail(queue)
  /\ jobsDropped' = jobsDropped + 1
  /\ drops' = [drops EXCEPT ![Head(queue)] = @ + 1]
  /\ notices' = [notices EXCEPT ![Head(queue)] = @ + 1]
  /\ Report("dropped")
  /\ UNCHANGED <<calls, signals, shutdownStarted, verdict, waits,
                 shutdownFrame>>

QueueDropped(c) ==
  /\ queue = <<>> /\ queueClosed
  /\ Move(c, "drop", "grace")
  /\ UNCHANGED <<calls, signals, shutdownStarted, verdict, waits, dropFrame,
                 shutdownFrame>>

\* Mutants of GraceTimeout: the wait has no timeout; the timeout counts as a
\* drained pool.
GraceWithoutEnd(c) ==
  /\ workersDone
  /\ Move(c, "grace", "finish")
  /\ shutdownErr' = "ctxErr"
  /\ UNCHANGED <<calls, signals, shutdownStarted, shutdownDone, waits,
                 reportedDropped, detachPending, detached, dropFrame, shutdownFrame>>

GraceTakenForDrained(c) ==
  /\ Move(c, "grace", "finish")
  /\ shutdownErr' = "ctxErr"
  /\ drained' = TRUE
  /\ UNCHANGED <<calls, signals, shutdownStarted, shutdownDone, workersDone,
                 reportedDropped, detachPending, detached, dropFrame, shutdownFrame>>

\* The second has passed: the workers still live are left to themselves.
GraceTimeout(c) ==
  /\ Move(c, "grace", "finish")
  /\ shutdownErr' = "ctxErr"
  /\ UNCHANGED <<calls, signals, shutdownStarted, shutdownDone, waits,
                 reportedDropped, detachPending, detached, dropFrame,
                 shutdownFrame>>

\* The end of the first call: the error, detachRecorder, the terminated state.
EndWith(c, err, detach, later) ==
  /\ Move(c, "finish", "returned")
  /\ reportedDropped' = jobsDropped
  /\ shutdownErr' = err
  /\ detached' = detach
  /\ detachPending' = later
  /\ shutdownState' = "terminated"
  /\ shutdownDone' = TRUE
  /\ result' = [result EXCEPT ![c] = err]
  /\ UNCHANGED <<callerCtx, dispatcherCtx, shutdownStarted, closing, forceStop,
                 waits, queueClosed, dropFrame, shutdownFrame>>

ErrorWhen(b) == IF b THEN "dropped" ELSE shutdownErr

\* Mutants of Finish: the recorder is detached under the workers; only if they
\* have left; a drained pool does not mention the jobs it dropped.
FinishDetaching(c) == EndWith(c, ErrorWhen(jobsDropped > 0), TRUE, FALSE)
FinishForgetting(c) == EndWith(c, ErrorWhen(jobsDropped > 0), drained, FALSE)
FinishSilently(c) == EndWith(c, ErrorWhen(jobsDropped > 0 /\ ~drained), drained, ~drained)

Finish(c) == EndWith(c, ErrorWhen(jobsDropped > 0), drained, ~drained)

\* The goroutine detachRecorder leaves behind.
DetachLater ==
  /\ detachPending /\ workersDone
  /\ detached' = TRUE /\ detachPending' = FALSE
  /\ UNCHANGED <<shut, calls, signals, shutdownStarted, shutdownDone,
                 shutdownErr, waits, reportedDropped, dropFrame,
                 shutdownFrame>>

\* Mutant of FindDone: a call that comes too late is told all is well.
FindDoneNil(c) ==
  /\ IF shutdownDone THEN Move(c, "check", "returned") ELSE Move(c, "check", "await")
  /\ result' = [result EXCEPT ![c] = IF shutdownDone THEN "nil" ELSE @]
  /\ UNCHANGED <<callerCtx, signals, shutdownStarted, verdict, waits, dropFrame,
                 shutdownFrame>>

\* A later call: first a look at shutdownDone, then a select.
FindDone(c) ==
  /\ IF shutdownDone THEN Move(c, "check", "returned") ELSE Move(c, "check", "await")
  /\ result' = [result EXCEPT ![c] = IF shutdownDone THEN shutdownErr ELSE @]
  /\ UNCHANGED <<callerCtx, signals, shutdownStarted, verdict, waits,
                 dropFrame, shutdownFrame>>

StopAwaiting(c) ==
  /\ Move(c, "await", "returned")
  /\ \/ shutdownDone /\ result' = [result EXCEPT ![c] = shutdownErr]
     \/ callerCtx[c] = "done" /\ result' = [result EXCEPT ![c] = "ownCtxErr"]
  /\ UNCHANGED <<callerCtx, signals, shutdownStarted, verdict, waits,
                 dropFrame, shutdownFrame>>

\* The context of a Shutdown call ends; nothing reads it after the call.
CallerCtxEnds(c) ==
  /\ shut[c] # "returned"
  /\ callerCtx[c] = "live"
  /\ callerCtx' = [callerCtx EXCEPT ![c] = "done"]
  /\ UNCHANGED <<shut, result, signals, shutdownStarted, verdict, waits,
                 dropFrame, shutdownFrame>>

LeaderStep(c) ==
  \/ Announce(c) \/ DispatcherGone(c) \/ CloseQueue(c)
  \/ AllWorkersLeft(c) \/ ForceWorkers(c)
  \/ DropQueued(c) \/ QueueDropped(c) \/ GraceTimeout(c)
  \/ Finish(c)

FollowerStep(c) == FindDone(c) \/ StopAwaiting(c)
=============================================================================
