-------------------------- MODULE PoolLedgerProofs --------------------------
(***************************************************************************)
(* The pool implements TaskLedger: every step of it is one entry in the    *)
(* ledger, or none.                                                        *)
(***************************************************************************)
EXTENDS PoolShutdownProofs

\* The variables of the ledger, as the pool defines them.
Statuses == [t \in Tasks |-> StatusOf(t)]
LedgerStep == [Ledger!Next]_<<Statuses, Phase>>

-----------------------------------------------------------------------------
(***************************************************************************)
(* What a state of the pool says of a task.                                *)
(***************************************************************************)
\* A submission that has not decided is new, a job in the queue or just taken
\* from it accepted, one that a worker is at running or dropped.
LEMMA StatusKnown ==
  ASSUME TypeOK, FateInv, NEW t \in Tasks
  PROVE  /\ call[t] \in Undecided => StatusOf(t) = "new"
         /\ Queued(t) \/ Held(t) => StatusOf(t) = "accepted"
         /\ runs[t] = 1 /\ drops[t] = 0 =>
              StatusOf(t) = IF notices[t] = 0 THEN "running" ELSE "ran"
         /\ runs[t] = 0 /\ drops[t] = 1 => StatusOf(t) = "dropped"
<1>1. runs[t] \in Nat /\ drops[t] \in Nat /\ notices[t] \in Nat
  BY DEF TypeOK, RecordTypeOK
<1>2. call[t] \in Undecided => answer[t] = "none" /\ runs[t] = 0 /\ drops[t] = 0
  BY DEF FateInv, OnePlace
<1>3. Queued(t) \/ Held(t) => answer[t] = "nil" /\ runs[t] = 0 /\ drops[t] = 0
  BY DEF FateInv, OnePlace
<1> QED
  BY <1>1, <1>2, <1>3 DEF StatusOf

\* The status of a task depends on its answer and on what was counted of it.
LEMMA StatusSame ==
  ASSUME NEW t \in Tasks, UNCHANGED <<answer[t], runs[t], drops[t], notices[t]>>
  PROVE  StatusOf(t)' = StatusOf(t)
  BY DEF StatusOf

\* A step that leaves every status and the phase as they are.
LEMMA NoEntry ==
  ASSUME \A t \in Tasks : StatusOf(t)' = StatusOf(t), UNCHANGED <<forceStop, queueClosed>>
  PROVE  LedgerStep
  BY DEF LedgerStep, Statuses, Phase

\* A step that changes the status of one task.
LEMMA OneEntry ==
  ASSUME NEW t \in Tasks, NEW from, NEW to,
         StatusOf(t) = from, StatusOf(t)' = to,
         \A s \in Tasks : s # t => StatusOf(s)' = StatusOf(s),
         UNCHANGED <<forceStop, queueClosed>>
  PROVE  Ledger!Become(t, from, to)
  BY DEF Ledger!Become, Phase

-----------------------------------------------------------------------------
(***************************************************************************)
(* The steps of each component.                                            *)
(***************************************************************************)
LEMMA LedgerSubmission ==
  ASSUME TypeOK, FateInv, OrderInv, NEW t \in Tasks, SubmitStep(t) \/ SubmitCtxEnds(t)
  PROVE  LedgerStep
<1>1. UNCHANGED <<forceStop, queueClosed, fateVars>>
  BY SubmissionFrame DEF shutdownVars
<1>2. \A s \in Tasks : s # t => answer'[s] = answer[s]
  BY DEF SubmitStep, SubmitCtxEnds, RefuseNil, Enter, RejectAtEntry, PassChecks, SendAtOnce,
     FindFull, SendAfterWait, GiveUp, ReportSubmit, Accept, Reject, TypeOK, SubmitTypeOK
<1>3. \A s \in Tasks : s # t => StatusOf(s)' = StatusOf(s)
  BY <1>1, <1>2, StatusSame DEF fateVars
<1>4. CASE UNCHANGED answer
  BY <1>1, <1>4, StatusSame, NoEntry DEF fateVars
<1>5. CASE ~UNCHANGED answer
  <2>1. call[t] \in Undecided /\ answer'[t] \notin {"none"}
        /\ (answer'[t] = "nil" => ~queueClosed)
    BY <1>5 DEF SubmitStep, SubmitCtxEnds, RefuseNil, Enter, RejectAtEntry, PassChecks,
       SendAtOnce, FindFull, SendAfterWait, GiveUp, ReportSubmit, Accept, Reject, DoneReason,
       Undecided, TypeOK, SubmitTypeOK
  <2>2. StatusOf(t) = "new" /\ runs[t] = 0 /\ drops[t] = 0
    BY <2>1, StatusKnown DEF FateInv, OnePlace
  <2>3. CASE answer'[t] = "nil"
    <3>1. Phase = "open"
      BY <2>1, <2>3 DEF Phase, OrderInv
    <3>2. StatusOf(t)' = "accepted"
      BY <1>1, <2>2, <2>3 DEF StatusOf, fateVars
    <3>3. Ledger!Accept(t)
      BY <1>1, <1>3, <2>2, <3>1, <3>2, OneEntry DEF Ledger!Accept
    <3> QED
      BY <3>3 DEF LedgerStep, Ledger!Next
  <2>4. CASE answer'[t] # "nil"
    <3>1. StatusOf(t)' = "refused"
      BY <1>1, <2>1, <2>2, <2>4 DEF StatusOf, fateVars
    <3>2. Ledger!Refuse(t)
      BY <1>1, <1>3, <2>2, <3>1, OneEntry DEF Ledger!Refuse
    <3> QED
      BY <3>2 DEF LedgerStep, Ledger!Next
  <2> QED
    BY <2>3, <2>4
<1> QED
  BY <1>4, <1>5

LEMMA LedgerWorker ==
  ASSUME TypeOK, FateInv, NEW w \in Workers, WorkerStep(w) \/ TimerFires(w)
  PROVE  LedgerStep
<1>1. UNCHANGED <<forceStop, queueClosed, answer>>
  BY WorkerFrame DEF shutdownVars, submitVars
<1>2. CASE StartJob(w) \/ DropTaken(w)
  <2>1. PICK j \in Tasks : j = job[w]
    BY <1>2 DEF StartJob, DropTaken, At, FateInv, Handling
  <2>2. answer[j] = "nil" /\ Held(j) /\ notices[j] = 0
    BY <1>2, <2>1 DEF StartJob, DropTaken, At, FateInv, Handling, Held, HeldBy
  <2>3. StatusOf(j) = "accepted" /\ runs[j] = 0 /\ drops[j] = 0
    BY <2>2, StatusKnown DEF FateInv, OnePlace
  <2>4. UNCHANGED notices
        /\ \A t \in Tasks : t # j => runs'[t] = runs[t] /\ drops'[t] = drops[t]
    BY <1>2, <2>1 DEF StartJob, DropTaken, TypeOK, RecordTypeOK
  <2>5. \A t \in Tasks : t # j => StatusOf(t)' = StatusOf(t)
    BY <1>1, <2>4, StatusSame
  <2>6. CASE StartJob(w)
    <3>1. runs'[j] = 1 /\ drops'[j] = 0
      BY <2>1, <2>3, <2>6 DEF StartJob, TypeOK, RecordTypeOK
    <3>2. StatusOf(j)' = "running"
      BY <2>2, <2>4, <3>1 DEF StatusOf
    <3>3. Ledger!Start(j)
      BY <1>1, <2>3, <2>5, <3>2, OneEntry DEF Ledger!Start
    <3> QED
      BY <3>3 DEF LedgerStep, Ledger!Next
  <2>7. CASE DropTaken(w)
    <3>1. runs'[j] = 0 /\ drops'[j] = 1 /\ Phase = "forced"
      BY <2>1, <2>3, <2>7 DEF DropTaken, Phase, TypeOK, RecordTypeOK
    <3>2. StatusOf(j)' = "dropped"
      BY <3>1 DEF StatusOf
    <3>3. Ledger!Drop(j)
      BY <1>1, <2>3, <2>5, <3>1, <3>2, OneEntry DEF Ledger!Drop
    <3> QED
      BY <3>3 DEF LedgerStep, Ledger!Next
  <2> QED
    BY <1>2, <2>6, <2>7
<1>3. CASE NotifyJob(w)
  <2>1. PICK j \in Tasks : j = job[w]
    BY <1>3 DEF NotifyJob, At, FateInv, Handling, Serving
  <2>2. runs[j] + drops[j] = 1 /\ notices[j] = 0
    BY <1>3, <2>1 DEF NotifyJob, At, FateInv, Handling, Serving
  <2>3. UNCHANGED <<runs, drops>> /\ notices'[j] = 1
        /\ \A t \in Tasks : t # j => notices'[t] = notices[t]
    BY <1>3, <2>1, <2>2 DEF NotifyJob, TypeOK, RecordTypeOK
  <2>4. \A t \in Tasks : t # j => StatusOf(t)' = StatusOf(t)
    BY <1>1, <2>3, StatusSame
  <2>5. CASE runs[j] = 1 /\ drops[j] = 0
    <3>1. StatusOf(j) = "running"
      BY <2>2, <2>5, StatusKnown
    <3>2. StatusOf(j)' = "ran"
      BY <2>3, <2>5 DEF StatusOf
    <3>3. Ledger!Complete(j)
      BY <1>1, <2>4, <3>1, <3>2, OneEntry DEF Ledger!Complete
    <3> QED
      BY <3>3 DEF LedgerStep, Ledger!Next
  <2>6. CASE runs[j] = 0 /\ drops[j] = 1
    <3>1. StatusOf(j) = "dropped"
      BY <2>6, StatusKnown
    <3>2. StatusOf(j)' = "dropped"
      BY <2>3, <2>6 DEF StatusOf
    <3> QED
      BY <1>1, <2>4, <3>1, <3>2, NoEntry
  <2> QED
    BY <2>2, <2>5, <2>6 DEF TypeOK, RecordTypeOK
<1>4. CASE ~(StartJob(w) \/ DropTaken(w) \/ NotifyJob(w))
  <2>1. UNCHANGED fateVars
    BY <1>4 DEF WorkerStep, TimerFires, StopForced, StopClosed, Receive, EndJob, ReportJob,
       IdleCheck, Exit
  <2> QED
    BY <1>1, <2>1, StatusSame, NoEntry DEF fateVars
<1> QED
  BY <1>2, <1>3, <1>4

\* The leader drops a queued job: only after it has forced the workers.
LEMMA LedgerDropQueued ==
  ASSUME TypeOK, FateInv, OrderInv, NEW c \in Callers, DropQueued(c), ShutdownStep
  PROVE  LedgerStep
<1>1. UNCHANGED <<forceStop, queueClosed, answer, runs>> /\ Phase = "forced"
  BY ShutdownFrame DEF DropQueued, signals, submitVars, Move, OrderInv, Phase
<1>2. PICK h \in Tasks : h = Head(queue)
  BY QueueTypes DEF DropQueued, TypeOK
<1>3. Queued(h)
  BY <1>2, TakeFromQueue DEF DropQueued, Queued, FateInv, OnePlace, TypeOK, QueueTypeOK
<1>4. StatusOf(h) = "accepted" /\ runs[h] = 0 /\ drops[h] = 0
  BY <1>3, StatusKnown DEF FateInv, OnePlace
<1>5. /\ drops'[h] = 1
      /\ \A t \in Tasks : t # h => drops'[t] = drops[t] /\ notices'[t] = notices[t]
  BY <1>2, <1>4 DEF DropQueued, TypeOK, RecordTypeOK
<1>6. \A t \in Tasks : t # h => StatusOf(t)' = StatusOf(t)
  BY <1>1, <1>5, StatusSame
<1>7. StatusOf(h)' = "dropped"
  BY <1>1, <1>4, <1>5 DEF StatusOf
<1>8. Ledger!Drop(h)
  BY <1>1, <1>4, <1>6, <1>7, OneEntry DEF Ledger!Drop
<1> QED
  BY <1>8 DEF LedgerStep, Ledger!Next

LEMMA LedgerShutdown ==
  ASSUME TypeOK, FateInv, OrderInv, ShutdownStep
  PROVE  LedgerStep
<1>1. CASE \E c \in Callers : DropQueued(c)
  BY <1>1, LedgerDropQueued
<1>2. CASE ~ \E c \in Callers : DropQueued(c)
  <2>1. UNCHANGED <<answer, fateVars>>
    BY <1>2, ShutdownFrame, DrainFrame DEF submitVars, dropFrame, fateVars
  <2>2. \A t \in Tasks : StatusOf(t)' = StatusOf(t)
    BY <2>1, StatusSame DEF fateVars
  <2>3. CASE \E c \in Callers : CloseQueue(c)
    <3>1. Phase = "open" /\ Phase' = "closed"
      BY <2>3 DEF CloseQueue, Move, OrderInv, Opening, Phase
    <3>2. Ledger!Close
      BY <2>2, <3>1 DEF Ledger!Close
    <3> QED
      BY <3>2 DEF LedgerStep, Ledger!Next
  <2>4. CASE \E c \in Callers : ForceWorkers(c)
    <3>1. Phase = "closed" /\ Phase' = "forced"
      BY <2>4 DEF ForceWorkers, Move, OrderInv, Closing, Phase
    <3>2. Ledger!Force
      BY <2>2, <3>1 DEF Ledger!Force
    <3> QED
      BY <3>2 DEF LedgerStep, Ledger!Next
  <2>5. CASE ~ \E c \in Callers : CloseQueue(c) \/ ForceWorkers(c)
    <3>1. UNCHANGED <<forceStop, queueClosed>>
      BY <1>2, <2>5 DEF ShutdownStep, LeaderStep, FollowerStep, Call, CallerCtxEnds, Announce,
         DispatcherGone, AllWorkersLeft, QueueDropped, GraceTimeout, Finish, EndWith, FindDone,
         StopAwaiting, WatchWorkers, DetachLater, signals
    <3> QED
      BY <2>2, <3>1, NoEntry
  <2> QED
    BY <2>3, <2>4, <2>5
<1> QED
  BY <1>1, <1>2

\* Submissions, workers and Shutdown together never do to a task what the
\* ledger does not allow: it is answered once, then started or dropped but not
\* both, accepted only while the pool is open, dropped only once it is forced.
THEOREM PoolImplementsLedger == Spec => ImplementsLedger
<1>1. Init => Ledger!Init
  BY DEF Init, Ledger!Init, StatusOf, Phase
<1>2. TypeOK /\ FateInv /\ OrderInv /\ [Next]_vars => LedgerStep
  <2> SUFFICES ASSUME TypeOK, FateInv, OrderInv, [Next]_vars
               PROVE  LedgerStep
    OBVIOUS
  <2>1. CASE ScalingStep \/ UNCHANGED vars
    <3>1. UNCHANGED <<answer, fateVars, forceStop, queueClosed>>
      BY <2>1, ScalingFrame DEF vars, submitVars, queueVars, shutdownVars
    <3> QED
      BY <3>1, StatusSame, NoEntry DEF fateVars
  <2> QED
    BY <2>1, NextCases, LedgerSubmission, LedgerWorker, LedgerShutdown
<1>3. TypeOK /\ FateInv /\ OrderInv /\ [Next]_vars =>
        [Ledger!Next]_<<[t \in Tasks |-> StatusOf(t)], Phase>>
  BY <1>2 DEF LedgerStep, Statuses
<1> QED
  BY <1>1, <1>3, TypesKept, FateKept, OrderKept, PTL DEF Spec, ImplementsLedger, Ledger!Spec
=============================================================================
