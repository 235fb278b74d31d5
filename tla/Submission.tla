----------------------------- MODULE Submission -----------------------------
(***************************************************************************)
(* Submit, SubmitTask and TrySubmit (submit.go): one submission is a       *)
(* sequence of steps that hold submitMu for reading from Enter to the end. *)
(***************************************************************************)
EXTENDS PoolState

submitFrame == <<workerVars, scalingVars, shutdownVars, fateVars>>

\* A nil job is refused before the pool is touched.
RefuseNil(t) ==
  /\ call[t] = "new" /\ Built
  /\ t \in NilTasks
  /\ call' = [call EXCEPT ![t] = "returned"]
  /\ answer' = [answer EXCEPT ![t] = "nilJob"]
  /\ UNCHANGED <<ctx, queueVars, submitFrame, counterVars, late>>

\* submitMu.RLock: it waits while Shutdown waits for the write lock.
Enter(t) ==
  /\ call[t] = "new" /\ Built
  /\ t \notin NilTasks
  /\ ~WriterWaits
  /\ call' = [call EXCEPT ![t] = "locked"]
  /\ UNCHANGED <<ctx, answer, queueVars, submitFrame, counterVars, late>>

\* A rejection counts itself and tests detached; the report is a later step.
Reject(t, reason) ==
  /\ answer' = [answer EXCEPT ![t] = reason]
  /\ jobsRejected' = jobsRejected + 1
  /\ call' = [call EXCEPT ![t] = IF detached THEN "returned" ELSE "reporting"]
  /\ UNCHANGED <<ctx, queueVars, submitFrame, jobsProcessed, jobsDropped, late>>

\* Mutant of Accept: the bound of the queue off by one.
AcceptOneTooMany(t) ==
  /\ ~queueClosed
  /\ Len(queue) <= QueueSize
  /\ queue' = Append(queue, t)
  /\ answer' = [answer EXCEPT ![t] = "nil"]
  /\ call' = [call EXCEPT ![t] = IF detached THEN "returned" ELSE "reporting"]
  /\ UNCHANGED <<ctx, queueClosed, submitFrame, counterVars, late>>

\* A send that succeeds, and the test of detached in recordJobSubmitted.
Accept(t) ==
  /\ ~queueClosed
  /\ Len(queue) < QueueSize
  /\ queue' = Append(queue, t)
  /\ answer' = [answer EXCEPT ![t] = "nil"]
  /\ call' = [call EXCEPT ![t] = IF detached THEN "returned" ELSE "reporting"]
  /\ UNCHANGED <<ctx, queueClosed, submitFrame, counterVars, late>>

DoneReason(t) == IF ctx[t] = "deadline" THEN "timeout" ELSE "canceled"

DoneAtEntry(t) == t \notin OwnCtxTasks /\ ctx[t] # "live"

RejectAtEntry(t) ==
  /\ call[t] = "locked"
  /\ \/ isShutdown /\ Reject(t, "shutdown")
     \/ ~isShutdown /\ DoneAtEntry(t) /\ Reject(t, DoneReason(t))

PassChecks(t) ==
  /\ call[t] = "locked"
  /\ ~isShutdown /\ ~DoneAtEntry(t)
  /\ call' = [call EXCEPT ![t] = "sending"]
  /\ UNCHANGED <<ctx, answer, queueVars, submitFrame, counterVars, late>>

\* The first select: the send, or its default case.
SendAtOnce(t) == call[t] = "sending" /\ Accept(t)

\* Mutant of FindFull: without the return, TrySubmit waits after its rejection.
FindFullAndGoOn(t) ==
  /\ call[t] = "sending"
  /\ ~queueClosed /\ Len(queue) = QueueSize
  /\ call' = [call EXCEPT ![t] = "waiting"]
  /\ answer' = [answer EXCEPT ![t] = IF t \in TryTasks THEN "queueFull" ELSE @]
  /\ jobsRejected' = jobsRejected + (IF t \in TryTasks THEN 1 ELSE 0)
  /\ UNCHANGED <<ctx, queueVars, submitFrame, jobsProcessed, jobsDropped, late>>

FindFull(t) ==
  /\ call[t] = "sending"
  /\ ~queueClosed /\ Len(queue) = QueueSize
  /\ \/ t \in TryTasks /\ Reject(t, "queueFull")
     \/ /\ t \notin TryTasks
        /\ call' = [call EXCEPT ![t] = "waiting"]
        /\ UNCHANGED <<ctx, answer, queueVars, submitFrame, counterVars, late>>

\* The second select: any of its cases that is ready.
SendAfterWait(t) == call[t] = "waiting" /\ Accept(t)

\* Mutant of GiveUp: closing does not wake the waiting submission.
GiveUpOnCtxOnly(t) ==
  call[t] = "waiting" /\ ctx[t] # "live" /\ Reject(t, DoneReason(t))

GiveUp(t) ==
  /\ call[t] = "waiting"
  /\ \/ closing /\ Reject(t, "shutdown")
     \/ ctx[t] # "live" /\ Reject(t, DoneReason(t))

\* The recorder hears of the submission; the deferred RUnlock follows.
ReportSubmit(t) ==
  /\ call[t] = "reporting"
  /\ Report(IF answer[t] = "nil" THEN "submitted" ELSE "rejected")
  /\ call' = [call EXCEPT ![t] = "returned"]
  /\ UNCHANGED <<ctx, answer, queueVars, submitFrame, counterVars>>

\* The caller's context ends. Only submit reads it, so only until it decides.
SubmitCtxEnds(t) ==
  /\ call[t] \in {"new", "locked", "sending", "waiting"}
  /\ ctx[t] = "live"
  /\ \E how \in CtxEnds : ctx' = [ctx EXCEPT ![t] = how]
  /\ UNCHANGED <<call, answer, queueVars, submitFrame, counterVars, late>>

SubmitStep(t) ==
  \/ RefuseNil(t) \/ Enter(t)
  \/ RejectAtEntry(t) \/ PassChecks(t)
  \/ SendAtOnce(t) \/ FindFull(t)
  \/ SendAfterWait(t) \/ GiveUp(t)
  \/ ReportSubmit(t)
=============================================================================
