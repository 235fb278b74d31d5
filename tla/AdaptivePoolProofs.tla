------------------------- MODULE AdaptivePoolProofs -------------------------
(***************************************************************************)
(* Theorems about the pool, for any tasks, workers, callers and limits:    *)
(* the types, the fate of every task, and what the pool counts.            *)
(***************************************************************************)
EXTENDS AdaptivePool, TLAPS, FiniteSetTheorems

-----------------------------------------------------------------------------
(***************************************************************************)
(* The type invariant, one lemma for each component.                       *)
(***************************************************************************)
\* What a step leaves unchanged keeps its type.
LEMMA FrameTypes ==
  ASSUME TypeOK
  PROVE  /\ UNCHANGED submitVars => SubmitTypeOK'
         /\ UNCHANGED queueVars => QueueTypeOK'
         /\ UNCHANGED workerVars => WorkerTypeOK'
         /\ UNCHANGED scalingVars => ScalingTypeOK'
         /\ UNCHANGED shutdownVars => ShutdownTypeOK'
         /\ UNCHANGED <<counterVars, fateVars, late>> => RecordTypeOK'
<1>1. UNCHANGED submitVars => SubmitTypeOK'
  BY DEF TypeOK, SubmitTypeOK, submitVars
<1>2. UNCHANGED queueVars => QueueTypeOK'
  BY DEF TypeOK, QueueTypeOK, queueVars
<1>3. UNCHANGED workerVars => WorkerTypeOK'
  BY DEF TypeOK, WorkerTypeOK, workerVars
<1>4. UNCHANGED scalingVars => ScalingTypeOK'
  BY DEF TypeOK, ScalingTypeOK, scalingVars
<1>5. UNCHANGED shutdownVars => ShutdownTypeOK'
  BY DEF TypeOK, ShutdownTypeOK, shutdownVars
<1>6. UNCHANGED <<counterVars, fateVars, late>> => RecordTypeOK'
  BY DEF TypeOK, RecordTypeOK, counterVars, fateVars
<1> QED
  BY <1>1, <1>2, <1>3, <1>4, <1>5, <1>6

\* The queue as a sequence: appending a task, and taking the first one.
LEMMA QueueTypes ==
  ASSUME QueueTypeOK
  PROVE  /\ \A t \in Tasks : Append(queue, t) \in Seq(Tasks)
         /\ \A t \in Tasks : Len(Append(queue, t)) = Len(queue) + 1
         /\ queue # <<>> => /\ Head(queue) \in Tasks
                            /\ Tail(queue) \in Seq(Tasks)
                            /\ Len(Tail(queue)) = Len(queue) - 1
  BY DEF QueueTypeOK

\* Counting one up keeps the type of a function of counters, whatever the index.
LEMMA Increment ==
  ASSUME NEW S, NEW f \in [S -> Nat], NEW x
  PROVE  [f EXCEPT ![x] = @ + 1] \in [S -> Nat]
<1>1. CASE x \in S
  BY <1>1
<1>2. CASE x \notin S
  BY <1>2
<1> QED
  BY <1>1, <1>2

LEMMA SubmissionTypes ==
  ASSUME TypeOK, NEW t \in Tasks, SubmitStep(t) \/ SubmitCtxEnds(t)
  PROVE  TypeOK'
<1> USE FrameTypes DEF submitFrame
<1>1. ASSUME NEW reason \in {"shutdown", "queueFull", "timeout", "canceled"},
             Reject(t, reason)
      PROVE  TypeOK'
  <2>1. SubmitTypeOK' /\ RecordTypeOK'
    BY <1>1 DEF Reject, TypeOK, SubmitTypeOK, RecordTypeOK, SubmitAnswers, fateVars
  <2> QED
    BY <1>1, <2>1 DEF Reject, TypeOK
<1>2. ASSUME Accept(t)
      PROVE  TypeOK'
  <2>1. SubmitTypeOK'
    BY <1>2 DEF Accept, TypeOK, SubmitTypeOK, SubmitAnswers
  <2>2. QueueTypeOK'
    BY <1>2, QueueTypes, ConfigAssumption DEF Accept, TypeOK, QueueTypeOK
  <2> QED
    BY <1>2, <2>1, <2>2 DEF Accept, TypeOK
<1>3. CASE RefuseNil(t) \/ Enter(t) \/ PassChecks(t) \/ SubmitCtxEnds(t)
  <2>1. SubmitTypeOK'
    BY <1>3 DEF RefuseNil, Enter, PassChecks, SubmitCtxEnds, TypeOK, SubmitTypeOK,
                SubmitAnswers
  <2> QED
    BY <1>3, <2>1 DEF RefuseNil, Enter, PassChecks, SubmitCtxEnds, TypeOK
<1>4. CASE RejectAtEntry(t) \/ GiveUp(t)
  BY <1>4, <1>1 DEF RejectAtEntry, GiveUp, DoneReason
<1>5. CASE SendAtOnce(t) \/ SendAfterWait(t)
  BY <1>5, <1>2 DEF SendAtOnce, SendAfterWait
<1>6. CASE FindFull(t)
  <2>1. CASE Reject(t, "queueFull")
    BY <2>1, <1>1
  <2>2. CASE ~Reject(t, "queueFull")
    <3>1. SubmitTypeOK'
      BY <1>6, <2>2 DEF FindFull, TypeOK, SubmitTypeOK
    <3> QED
      BY <1>6, <2>2, <3>1 DEF FindFull, TypeOK
  <2> QED
    BY <2>1, <2>2
<1>7. CASE ReportSubmit(t)
  <2>1. SubmitTypeOK' /\ RecordTypeOK'
    BY <1>7 DEF ReportSubmit, Report, TypeOK, SubmitTypeOK, RecordTypeOK,
                fateVars, counterVars
  <2> QED
    BY <1>7, <2>1 DEF ReportSubmit, TypeOK
<1> QED
  BY <1>3, <1>4, <1>5, <1>6, <1>7 DEF SubmitStep

LEMMA WorkerTypes ==
  ASSUME TypeOK, NEW w \in Workers, WorkerStep(w) \/ TimerFires(w)
  PROVE  TypeOK'
<1>1. SubmitTypeOK' /\ ScalingTypeOK' /\ ShutdownTypeOK'
  BY FrameTypes DEF WorkerStep, TimerFires, StopForced, StopClosed, Receive, StartJob, EndJob,
     DropTaken, ReportJob, NotifyJob, IdleCheck, Exit, workerFrame
<1>2. WorkerTypeOK'
  <2> USE DEF TypeOK, WorkerTypeOK, WorkerPlaces, Goto
  <2>1. CASE StopForced(w) \/ StopClosed(w) \/ EndJob(w) \/ DropTaken(w) \/ ReportJob(w)
    BY <2>1 DEF StopForced, StopClosed, EndJob, DropTaken, ReportJob
  <2>2. CASE Receive(w)
    BY <2>2, QueueTypes DEF Receive
  <2>3. CASE StartJob(w) \/ NotifyJob(w)
    BY <2>3 DEF StartJob, NotifyJob
  <2>4. CASE IdleCheck(w) \/ Exit(w) \/ TimerFires(w)
    BY <2>4 DEF IdleCheck, Exit, TimerFires
  <2> QED
    BY <2>1, <2>2, <2>3, <2>4 DEF WorkerStep
<1>3. QueueTypeOK'
  <2>1. CASE Receive(w)
    BY <2>1, QueueTypes, ConfigAssumption DEF Receive, workerFrame, TypeOK, QueueTypeOK
  <2>2. CASE ~Receive(w)
    <3>1. UNCHANGED queueVars
      BY <2>2 DEF WorkerStep, TimerFires, StopForced, StopClosed, StartJob, EndJob, DropTaken,
         ReportJob, NotifyJob, IdleCheck, Exit, workerFrame, queueVars
    <3> QED
      BY <3>1, FrameTypes
  <2> QED
    BY <2>1, <2>2
<1>4. RecordTypeOK'
  <2> USE DEF TypeOK, RecordTypeOK, workerFrame, fateVars
  <2>1. \A f \in [Tasks -> Nat] : [f EXCEPT ![job[w]] = @ + 1] \in [Tasks -> Nat]
    BY Increment
  <2>2. CASE EndJob(w)
    BY <2>2 DEF EndJob
  <2>3. CASE DropTaken(w)
    BY <2>1, <2>3 DEF DropTaken
  <2>4. CASE ReportJob(w)
    BY <2>4 DEF ReportJob, Report
  <2>5. CASE StartJob(w)
    BY <2>1, <2>5 DEF StartJob
  <2>6. CASE NotifyJob(w)
    BY <2>1, <2>6 DEF NotifyJob
  <2>7. CASE StopForced(w) \/ StopClosed(w) \/ Receive(w) \/ IdleCheck(w) \/ Exit(w) \/ TimerFires(w)
    BY <2>7 DEF StopForced, StopClosed, Receive, IdleCheck, Exit, TimerFires
  <2> QED
    BY <2>2, <2>3, <2>4, <2>5, <2>6, <2>7 DEF WorkerStep
<1> QED
  BY <1>1, <1>2, <1>3, <1>4 DEF TypeOK

\* scaleUp adds at least one worker and no more than there is room for.
LEMMA AddCountFits ==
  ASSUME NEW n \in Int, n < MaxWorkers
  PROVE  AddCount(n) \in 1..(MaxWorkers - n)
  BY ConfigAssumption DEF ConfigAssumption, AddCount

LEMMA ScalingTypes ==
  ASSUME TypeOK, ScalingStep
  PROVE  TypeOK'
<1>1. SubmitTypeOK' /\ QueueTypeOK' /\ ShutdownTypeOK'
  BY FrameTypes DEF ScalingStep, ScaleUpStep, SpawnMinimum, checkScaling, DeclineScaleUp,
     PlanScaleUp, SpawnExtra, EndScaleUp, ReportScaleUp, CooldownEnds, StopDispatcher, scalingFrame
<1>2. ScalingTypeOK'
  <2> USE DEF TypeOK, ScalingTypeOK
  <2>1. CASE PlanScaleUp
    BY <2>1, AddCountFits, ConfigAssumption DEF PlanScaleUp, WorkerTypeOK
  <2>2. CASE SpawnMinimum \/ SpawnExtra
    BY <2>2, ConfigAssumption DEF SpawnMinimum, SpawnExtra
  <2>3. CASE checkScaling \/ DeclineScaleUp \/ EndScaleUp \/ ReportScaleUp
             \/ CooldownEnds \/ StopDispatcher
    BY <2>3 DEF checkScaling, DeclineScaleUp, EndScaleUp, ReportScaleUp, CooldownEnds, StopDispatcher
  <2> QED
    BY <2>1, <2>2, <2>3 DEF ScalingStep, ScaleUpStep
<1>3. WorkerTypeOK'
  <2>1. ASSUME NEW w \in Workers, SpawnWorker(w)
        PROVE  WorkerTypeOK'
    BY <2>1 DEF SpawnWorker, TypeOK, WorkerTypeOK, WorkerPlaces
  <2>2. CASE SpawnMinimum \/ SpawnExtra
    BY <2>1, <2>2 DEF SpawnMinimum, SpawnExtra
  <2>3. CASE ~(SpawnMinimum \/ SpawnExtra)
    <3>1. UNCHANGED workerVars
      BY <2>3 DEF ScalingStep, ScaleUpStep, checkScaling, DeclineScaleUp, PlanScaleUp, EndScaleUp,
         ReportScaleUp, CooldownEnds, StopDispatcher
    <3> QED
      BY <3>1, FrameTypes
  <2> QED
    BY <2>2, <2>3
<1>4. RecordTypeOK'
  <2>1. CASE ReportScaleUp
    BY <2>1 DEF ReportScaleUp, Report, scalingFrame, fateVars, counterVars, TypeOK, RecordTypeOK
  <2>2. CASE ~ReportScaleUp
    <3>1. UNCHANGED <<counterVars, fateVars, late>>
      BY <2>2 DEF ScalingStep, ScaleUpStep, SpawnMinimum, checkScaling, DeclineScaleUp, PlanScaleUp,
         SpawnExtra, EndScaleUp, CooldownEnds, StopDispatcher, scalingFrame
    <3> QED
      BY <3>1, FrameTypes
  <2> QED
    BY <2>1, <2>2
<1> QED
  BY <1>1, <1>2, <1>3, <1>4 DEF TypeOK

\* The steps of the Shutdown calls and of the goroutines they start.
ShutdownStep ==
  \/ \E c \in Callers : Call(c) \/ CallerCtxEnds(c) \/ LeaderStep(c) \/ FollowerStep(c)
  \/ WatchWorkers \/ DetachLater

LEMMA ShutdownTypes ==
  ASSUME TypeOK, ShutdownStep
  PROVE  TypeOK'
<1>1. UNCHANGED <<submitVars, workerVars, scalingVars, jobsProcessed, jobsRejected, runs>>
  BY DEF ShutdownStep, LeaderStep, FollowerStep, Call, CallerCtxEnds, Announce, DispatcherGone,
     CloseQueue, AllWorkersLeft, ForceWorkers, DropQueued, QueueDropped, GraceTimeout, Finish, EndWith,
     FindDone, StopAwaiting, WatchWorkers, DetachLater, shutdownFrame
<1>2. SubmitTypeOK' /\ WorkerTypeOK' /\ ScalingTypeOK'
  BY <1>1, FrameTypes
<1>3. ShutdownTypeOK'
  <2> USE DEF TypeOK, ShutdownTypeOK, ShutdownPlaces, Move, calls, signals, waits, verdict
  <2>1. \A c \in Callers : Call(c) \/ CallerCtxEnds(c) => ShutdownTypeOK'
    BY DEF Call, CallerCtxEnds
  <2>2. \A c \in Callers : FindDone(c) \/ StopAwaiting(c) => ShutdownTypeOK'
    BY DEF FindDone, StopAwaiting
  <2>3. \A c \in Callers : Announce(c) \/ DispatcherGone(c) \/ CloseQueue(c) => ShutdownTypeOK'
    BY DEF Announce, DispatcherGone, CloseQueue
  <2>4. \A c \in Callers : AllWorkersLeft(c) \/ ForceWorkers(c) => ShutdownTypeOK'
    BY DEF AllWorkersLeft, ForceWorkers
  <2>5. \A c \in Callers : DropQueued(c) \/ QueueDropped(c) => ShutdownTypeOK'
    BY DEF DropQueued, QueueDropped
  <2>6. \A c \in Callers : GraceTimeout(c) => ShutdownTypeOK'
    BY DEF GraceTimeout, ShutdownErrors
  <2>7. ASSUME NEW c \in Callers, Finish(c)
        PROVE  ShutdownTypeOK'
    <3>1. shutdownErr' \in ShutdownErrors
      BY <2>7 DEF Finish, EndWith, ErrorWhen, ShutdownErrors
    <3>2. result' = [result EXCEPT ![c] = shutdownErr']
      BY <2>7 DEF Finish, EndWith
    <3>3. detached' \in BOOLEAN /\ detachPending' \in BOOLEAN
      BY <2>7 DEF Finish, EndWith
    <3>4. reportedDropped' \in Nat
      BY <2>7 DEF Finish, EndWith, RecordTypeOK
    <3> QED
      BY <2>7, <3>1, <3>2, <3>3, <3>4 DEF Finish, EndWith
  <2>8. WatchWorkers \/ DetachLater => ShutdownTypeOK'
    BY DEF WatchWorkers, DetachLater
  <2> QED
    BY <2>1, <2>2, <2>3, <2>4, <2>5, <2>6, <2>7, <2>8 DEF ShutdownStep, LeaderStep, FollowerStep
<1>4. QueueTypeOK' /\ RecordTypeOK'
  <2>1. ASSUME NEW c \in Callers, DropQueued(c)
        PROVE  QueueTypeOK' /\ RecordTypeOK'
    BY <2>1, <1>1, QueueTypes, ConfigAssumption
       DEF DropQueued, Report, signals, TypeOK, QueueTypeOK, RecordTypeOK
  <2>2. ASSUME ~ \E c \in Callers : DropQueued(c)
        PROVE  QueueTypeOK' /\ RecordTypeOK'
    <3>1. UNCHANGED dropFrame
      BY <2>2 DEF ShutdownStep, LeaderStep, FollowerStep, Call, CallerCtxEnds, Announce,
         DispatcherGone, CloseQueue, AllWorkersLeft, ForceWorkers, QueueDropped, GraceTimeout,
         Finish, EndWith, FindDone, StopAwaiting, WatchWorkers, DetachLater
    <3>2. queueClosed' \in BOOLEAN
      BY DEF ShutdownStep, LeaderStep, FollowerStep, Call, CallerCtxEnds, Announce,
         DispatcherGone, CloseQueue, AllWorkersLeft, ForceWorkers, DropQueued, QueueDropped, GraceTimeout,
         Finish, EndWith, FindDone, StopAwaiting, WatchWorkers, DetachLater, signals,
         TypeOK, QueueTypeOK
    <3> QED
      BY <1>1, <3>1, <3>2 DEF dropFrame, TypeOK, QueueTypeOK, RecordTypeOK
  <2> QED
    BY <2>1, <2>2
<1> QED
  BY <1>2, <1>3, <1>4 DEF TypeOK

LEMMA InitTypes ==
  ASSUME Init
  PROVE  TypeOK
<1> USE DEF Init
<1>1. SubmitTypeOK
  BY DEF SubmitTypeOK
<1>2. QueueTypeOK
  <2>1. queue \in Seq(Tasks) /\ Len(queue) = 0
    OBVIOUS
  <2>2. QueueSize \in Nat
    BY ConfigAssumption DEF ConfigAssumption
  <2>3. queueClosed \in BOOLEAN
    OBVIOUS
  <2> QED
    BY <2>1, <2>2, <2>3 DEF QueueTypeOK
<1>3. WorkerTypeOK
  BY DEF WorkerTypeOK, WorkerPlaces
<1>4. ScalingTypeOK
  <2>1. booting \in 0..MinWorkers
    BY ConfigAssumption DEF ConfigAssumption
  <2>2. cooling \in BOOLEAN
    OBVIOUS
  <2> QED
    BY <2>1, <2>2 DEF ScalingTypeOK
<1>5. ShutdownTypeOK
  BY DEF ShutdownTypeOK, ShutdownPlaces, ShutdownErrors
<1>6. RecordTypeOK
  BY DEF RecordTypeOK
<1> QED
  BY <1>1, <1>2, <1>3, <1>4, <1>5, <1>6 DEF TypeOK

\* One step of the pool, by component.
LEMMA NextCases ==
  ASSUME [Next]_vars
  PROVE  \/ \E t \in Tasks : SubmitStep(t) \/ SubmitCtxEnds(t)
         \/ \E w \in Workers : WorkerStep(w) \/ TimerFires(w)
         \/ ScalingStep
         \/ ShutdownStep
         \/ UNCHANGED vars
  BY DEF Next, ShutdownStep, Finished

\* Every variable keeps its type: the queue never outgrows QueueSize.
THEOREM TypesKept == Spec => []TypeOK
<1>1. Init => TypeOK
  BY InitTypes
<1>2. TypeOK /\ [Next]_vars => TypeOK'
  <2> SUFFICES ASSUME TypeOK, [Next]_vars
               PROVE  TypeOK'
    OBVIOUS
  <2>1. CASE UNCHANGED vars
    BY <2>1, FrameTypes DEF vars, TypeOK
  <2> QED
    BY <2>1, NextCases, SubmissionTypes, WorkerTypes, ScalingTypes, ShutdownTypes
<1> QED
  BY <1>1, <1>2, PTL DEF Spec

-----------------------------------------------------------------------------
(***************************************************************************)
(* No send on a closed queue. The property alone is not inductive: that    *)
(* PassChecks turns a submission away after the close is known only from   *)
(* the order of the steps of Shutdown, which is what the first two         *)
(* conjuncts say.                                                          *)
(***************************************************************************)
Announced == {"dispatcher", "lock", "wait", "drop", "grace", "finish"}

CloseInv ==
  /\ \A c \in Callers : shut[c] \in Announced => isShutdown
  /\ queueClosed => isShutdown
  /\ NoSendOnClosedQueue

LEMMA CloseInvStep ==
  ASSUME TypeOK, CloseInv, [Next]_vars
  PROVE  CloseInv'
<1> USE DEF CloseInv, NoSendOnClosedQueue, isShutdown, Announced
<1>1. ASSUME NEW t \in Tasks, SubmitStep(t) \/ SubmitCtxEnds(t)
      PROVE  CloseInv'
  <2>1. UNCHANGED shutdownVars
    BY <1>1 DEF SubmitStep, SubmitCtxEnds, RefuseNil, Enter, RejectAtEntry, PassChecks, SendAtOnce,
       FindFull, SendAfterWait, GiveUp, ReportSubmit, Accept, Reject, submitFrame
  <2>2. UNCHANGED queueClosed
    BY <1>1 DEF SubmitStep, SubmitCtxEnds, RefuseNil, Enter, RejectAtEntry, PassChecks, SendAtOnce,
       FindFull, SendAfterWait, GiveUp, ReportSubmit, Accept, Reject, queueVars
  <2>3. ASSUME queueClosed
        PROVE  /\ call[t] \notin {"sending", "waiting"} => call'[t] \notin {"sending", "waiting"}
               /\ \A s \in Tasks \ {t} : call'[s] = call[s]
    BY <1>1, <2>3 DEF TypeOK, SubmitTypeOK, SubmitStep, SubmitCtxEnds, RefuseNil, Enter,
       RejectAtEntry, PassChecks, SendAtOnce, FindFull, SendAfterWait, GiveUp, ReportSubmit,
       Accept, Reject
  <2> QED
    BY <2>1, <2>2, <2>3 DEF shutdownVars
<1>2. CASE \/ \E w \in Workers : WorkerStep(w) \/ TimerFires(w)
           \/ ScalingStep
           \/ UNCHANGED vars
  <2>1. UNCHANGED <<submitVars, queueClosed, shutdownVars>>
    BY <1>2 DEF WorkerStep, TimerFires, StopForced, StopClosed, Receive, StartJob, EndJob,
       DropTaken, ReportJob, NotifyJob, IdleCheck, Exit, workerFrame, ScalingStep, ScaleUpStep,
       SpawnMinimum, checkScaling, DeclineScaleUp, PlanScaleUp, SpawnExtra, EndScaleUp,
       ReportScaleUp, CooldownEnds, StopDispatcher, scalingFrame, queueVars, vars
  <2> QED
    BY <2>1 DEF submitVars, shutdownVars
<1>3. CASE ShutdownStep
  <2>1. UNCHANGED call
    BY <1>3 DEF ShutdownStep, LeaderStep, FollowerStep, Call, CallerCtxEnds, Announce,
       DispatcherGone, CloseQueue, AllWorkersLeft, ForceWorkers, DropQueued, QueueDropped, GraceTimeout,
       Finish, EndWith, FindDone, StopAwaiting, WatchWorkers, DetachLater, shutdownFrame, submitVars
  <2> USE DEF Move, signals, TypeOK, ShutdownTypeOK
  <2>2. ASSUME NEW c \in Callers, Call(c) \/ CallerCtxEnds(c) \/ FollowerStep(c)
        PROVE  CloseInv'
    BY <2>1, <2>2 DEF Call, CallerCtxEnds, FollowerStep, FindDone, StopAwaiting
  <2>3. ASSUME NEW c \in Callers, Announce(c) \/ Finish(c)
        PROVE  CloseInv'
    BY <2>1, <2>3 DEF Announce, Finish, EndWith
  <2>4. ASSUME NEW c \in Callers, CloseQueue(c)
        PROVE  CloseInv'
    BY <2>1, <2>4 DEF CloseQueue, Readers
  <2>5. ASSUME NEW c \in Callers, \/ DispatcherGone(c) \/ AllWorkersLeft(c) \/ ForceWorkers(c)
                                  \/ DropQueued(c) \/ QueueDropped(c) \/ GraceTimeout(c)
        PROVE  CloseInv'
    BY <2>1, <2>5 DEF DispatcherGone, AllWorkersLeft, ForceWorkers, DropQueued, QueueDropped, GraceTimeout
  <2>6. CASE WatchWorkers \/ DetachLater
    BY <2>1, <2>6 DEF WatchWorkers, DetachLater
  <2> QED
    BY <1>3, <2>2, <2>3, <2>4, <2>5, <2>6 DEF ShutdownStep, LeaderStep
<1> QED
  BY <1>1, <1>2, <1>3, NextCases

\* A Submit never sends on the closed queue, so it never panics: this is what
\* holding submitMu, and the order in Shutdown, are there for.
THEOREM NeverSendsOnClosedQueue == Spec => []NoSendOnClosedQueue
<1>1. Init => CloseInv
  BY DEF Init, CloseInv, NoSendOnClosedQueue, isShutdown, Announced
<1>2. TypeOK /\ CloseInv /\ [Next]_vars => CloseInv'
  BY CloseInvStep
<1>3. CloseInv => NoSendOnClosedQueue
  BY DEF CloseInv
<1> QED
  BY <1>1, <1>2, <1>3, TypesKept, PTL DEF Spec

-----------------------------------------------------------------------------
(***************************************************************************)
(* The fate of a task. Beside the two properties the invariant says what   *)
(* the workers hold: a job in a worker's hands is accepted, is held by     *)
(* that worker alone, and has not been reported to OnTaskDone; past        *)
(* "taken" it has been started or dropped. An undecided submission has no  *)
(* answer yet, so the one that succeeds is nowhere in the pool.            *)
(***************************************************************************)
Undecided == {"new", "locked", "sending", "waiting"}
Serving == {"running", "reportDone", "notifyDone", "reportDrop", "notifyDrop"}
Handling == Serving \union {"taken"}

FateInv ==
  /\ \A t \in Tasks : call[t] \in Undecided => answer[t] = "none"
  /\ \A w \in Workers : worker[w] \in Handling =>
       job[w] \in Tasks /\ answer[job[w]] = "nil" /\ notices[job[w]] = 0
  /\ \A v, w \in Workers :
       worker[v] \in Handling /\ worker[w] \in Handling /\ job[v] = job[w] => v = w
  /\ \A w \in Workers : worker[w] \in Serving => runs[job[w]] + drops[job[w]] = 1
  /\ \A t \in Tasks : Queued(t) => notices[t] = 0
  /\ OnePlace
  /\ OneNotice

\* How a sequence of different tasks changes at its two ends.
LEMMA AppendToQueue ==
  ASSUME NEW q \in Seq(Tasks), Distinct(q), NEW t \in Tasks, ~In(t, q)
  PROVE  /\ Distinct(Append(q, t))
         /\ \A s \in Tasks : In(s, Append(q, t)) <=> In(s, q) \/ s = t
<1> DEFINE r == Append(q, t)
<1>1. /\ r \in Seq(Tasks) /\ Len(r) = Len(q) + 1
      /\ r[Len(q) + 1] = t
      /\ \A i \in 1..Len(q) : r[i] = q[i]
  OBVIOUS
<1>2. DOMAIN q = 1..Len(q) /\ DOMAIN r = 1..(Len(q) + 1) /\ Len(q) \in Nat
  BY <1>1
<1> HIDE DEF r
<1>3. Distinct(r)
  BY <1>1, <1>2 DEF Distinct, In
<1>4. ASSUME NEW s \in Tasks
      PROVE  In(s, r) <=> In(s, q) \/ s = t
  <2>1. In(s, q) \/ s = t => In(s, r)
    BY <1>1, <1>2 DEF In
  <2>2. In(s, r) => In(s, q) \/ s = t
    BY <1>1, <1>2 DEF In
  <2> QED
    BY <2>1, <2>2
<1> QED
  BY <1>3, <1>4 DEF r

LEMMA TakeFromQueue ==
  ASSUME NEW q \in Seq(Tasks), Distinct(q), q # <<>>
  PROVE  /\ Distinct(Tail(q))
         /\ Head(q) \in Tasks /\ In(Head(q), q) /\ ~In(Head(q), Tail(q))
         /\ \A s \in Tasks : s # Head(q) => (In(s, Tail(q)) <=> In(s, q))
<1> DEFINE r == Tail(q)
<1>1. /\ r \in Seq(Tasks) /\ Len(r) = Len(q) - 1 /\ Len(q) \in Nat /\ Len(q) > 0
      /\ Head(q) = q[1] /\ Head(q) \in Tasks
      /\ \A i \in 1..(Len(q) - 1) : r[i] = q[i + 1]
  OBVIOUS
<1>2. DOMAIN q = 1..Len(q) /\ DOMAIN r = 1..(Len(q) - 1)
  BY <1>1
<1> HIDE DEF r
<1>3. Distinct(r)
  BY <1>1, <1>2 DEF Distinct
<1>4. In(Head(q), q)
  BY <1>1, <1>2 DEF In
<1>5. ~In(Head(q), r)
  <2> SUFFICES ASSUME NEW i \in DOMAIN r, r[i] = Head(q)
               PROVE  FALSE
    BY DEF In
  <2>1. i + 1 \in DOMAIN q /\ 1 \in DOMAIN q /\ q[i + 1] = q[1] /\ i + 1 # 1
    BY <1>1, <1>2
  <2> QED
    BY <2>1 DEF Distinct
<1>6. ASSUME NEW s \in Tasks, s # Head(q)
      PROVE  In(s, r) <=> In(s, q)
  <2>1. ASSUME NEW i \in DOMAIN r, r[i] = s
        PROVE  In(s, q)
    <3>1. i + 1 \in DOMAIN q /\ q[i + 1] = s
      BY <1>1, <1>2, <2>1
    <3> QED
      BY <3>1 DEF In
  <2>2. ASSUME NEW i \in DOMAIN q, q[i] = s
        PROVE  In(s, r)
    <3>1. i # 1
      BY <1>1, <1>6, <2>2
    <3>2. i - 1 \in DOMAIN r /\ r[i - 1] = q[(i - 1) + 1] /\ (i - 1) + 1 = i
      BY <1>1, <1>2, <3>1
    <3> QED
      BY <2>2, <3>2 DEF In
  <2> QED
    BY <2>1, <2>2 DEF In
<1> QED
  BY <1>1, <1>3, <1>4, <1>5, <1>6 DEF r

\* A step that moves no job, answers no submission and counts nothing.
LEMMA FateUndisturbed ==
  ASSUME FateInv, UNCHANGED <<submitVars, queue, job, fateVars>>,
         \A w \in Workers : /\ worker'[w] \in Serving <=> worker[w] \in Serving
                            /\ worker'[w] = "taken" <=> worker[w] = "taken"
  PROVE  FateInv'
<1>1. \A t \in Tasks : (Queued(t)' <=> Queued(t)) /\ (Held(t)' <=> Held(t))
  BY DEF Queued, In, Held, HeldBy
<1>2. \A w \in Workers : worker'[w] \in Handling <=> worker[w] \in Handling
  BY DEF Handling
<1>3. OnePlace'
  BY <1>1 DEF FateInv, OnePlace, Distinct, HeldBy, submitVars, fateVars
<1> QED
  BY <1>1, <1>2, <1>3 DEF FateInv, OneNotice, submitVars, fateVars

\* A submission that is not accepted moves no job.
LEMMA FateUnaccepted ==
  ASSUME TypeOK, FateInv, NEW t \in Tasks, UNCHANGED <<queue, worker, job, fateVars>>,
         call' = [call EXCEPT ![t] = call'[t]],
         call'[t] \in Undecided => call[t] \in Undecided,
         \/ UNCHANGED answer
         \/ /\ call[t] \in Undecided /\ call'[t] \notin Undecided
            /\ answer' = [answer EXCEPT ![t] = answer'[t]] /\ answer'[t] # "nil"
  PROVE  FateInv'
<1>1. \A s \in Tasks : (Queued(s)' <=> Queued(s)) /\ (Held(s)' <=> Held(s))
  BY DEF Queued, In, Held, HeldBy
<1>2. \A s \in Tasks : answer'[s] = "nil" <=> answer[s] = "nil"
  BY DEF FateInv, TypeOK, SubmitTypeOK
<1>3. \A s \in Tasks : call'[s] \in Undecided => answer'[s] = "none"
  BY DEF FateInv, TypeOK, SubmitTypeOK
<1>4. OnePlace'
  BY <1>1, <1>2 DEF FateInv, OnePlace, Distinct, HeldBy, fateVars
<1> QED
  BY <1>1, <1>2, <1>3, <1>4 DEF FateInv, OneNotice, fateVars

\* A submission that is accepted was nowhere in the pool; now it is queued.
LEMMA FateAccepted ==
  ASSUME TypeOK, FateInv, NEW t \in Tasks, call[t] \in Undecided, Accept(t)
  PROVE  FateInv'
<1>1. /\ queue' = Append(queue, t) /\ UNCHANGED <<worker, job, runs, drops, notices>>
      /\ answer' = [answer EXCEPT ![t] = "nil"]
      /\ call' = [call EXCEPT ![t] = call'[t]] /\ call'[t] \notin Undecided
  BY DEF Accept, submitFrame, workerVars, fateVars, Undecided, TypeOK, SubmitTypeOK
<1>2. answer[t] # "nil" /\ ~Queued(t) /\ ~Held(t) /\ runs[t] = 0 /\ drops[t] = 0
  BY DEF FateInv, OnePlace
<1>3. /\ Distinct(queue')
      /\ \A s \in Tasks : Queued(s)' <=> Queued(s) \/ s = t
  BY <1>1, <1>2, AppendToQueue DEF FateInv, OnePlace, Queued, TypeOK, QueueTypeOK
<1>4. \A s \in Tasks : Held(s)' <=> Held(s)
  BY <1>1 DEF Held, HeldBy
<1>5. \A s \in Tasks : s # t => answer'[s] = answer[s] /\ call'[s] = call[s]
  BY <1>1 DEF TypeOK, SubmitTypeOK
<1>6. answer'[t] = "nil"
  BY <1>1 DEF TypeOK, SubmitTypeOK
<1>7. OnePlace'
  BY <1>1, <1>2, <1>3, <1>4, <1>5, <1>6 DEF FateInv, OnePlace, HeldBy
<1>8. notices[t] = 0
  BY <1>2 DEF FateInv, OneNotice, TypeOK, RecordTypeOK
<1> QED
  BY <1>1, <1>3, <1>5, <1>6, <1>7, <1>8 DEF FateInv, OneNotice

LEMMA FateSubmission ==
  ASSUME TypeOK, FateInv, NEW t \in Tasks, SubmitStep(t) \/ SubmitCtxEnds(t)
  PROVE  FateInv'
<1> USE DEF Undecided
<1>1. CASE SendAtOnce(t) \/ SendAfterWait(t)
  BY <1>1, FateAccepted DEF SendAtOnce, SendAfterWait
<1>2. CASE ~(SendAtOnce(t) \/ SendAfterWait(t))
  <2> USE DEF TypeOK, SubmitTypeOK, submitFrame, workerVars
  <2>1. UNCHANGED <<queue, worker, job, fateVars>>
    BY <1>2 DEF SubmitStep, SubmitCtxEnds, RefuseNil, Enter, RejectAtEntry, PassChecks, FindFull,
       GiveUp, ReportSubmit, Reject, queueVars
  <2>2. /\ call' = [call EXCEPT ![t] = call'[t]]
        /\ call'[t] \in Undecided => call[t] \in Undecided
    BY <1>2 DEF SubmitStep, SubmitCtxEnds, RefuseNil, Enter, RejectAtEntry, PassChecks, FindFull,
       GiveUp, ReportSubmit, Reject
  <2>3. \/ UNCHANGED answer
        \/ /\ call[t] \in Undecided /\ call'[t] \notin Undecided
           /\ answer' = [answer EXCEPT ![t] = answer'[t]] /\ answer'[t] # "nil"
    BY <1>2 DEF SubmitStep, SubmitCtxEnds, RefuseNil, Enter, RejectAtEntry, PassChecks, FindFull,
       GiveUp, ReportSubmit, Reject, DoneReason
  <2> QED
    BY <2>1, <2>2, <2>3, FateUnaccepted
<1> QED
  BY <1>1, <1>2

\* The first job of the queue goes to a worker.
LEMMA FateReceived ==
  ASSUME TypeOK, FateInv, NEW w \in Workers, Receive(w)
  PROVE  FateInv'
<1>0. PICK h \in Tasks : h = Head(queue)
  BY QueueTypes DEF Receive, TypeOK
<1>1. /\ queue # <<>> /\ queue' = Tail(queue)
      /\ worker[w] = "loop"
      /\ worker' = [worker EXCEPT ![w] = "taken"] /\ job' = [job EXCEPT ![w] = h]
      /\ UNCHANGED <<submitVars, fateVars>>
  BY <1>0 DEF Receive, At, Goto, workerFrame
<1>2. /\ Distinct(queue') /\ Queued(h) /\ ~Queued(h)'
      /\ \A s \in Tasks : s # h => (Queued(s)' <=> Queued(s))
  BY <1>0, <1>1, TakeFromQueue DEF FateInv, OnePlace, Queued, TypeOK, QueueTypeOK
<1>3. /\ worker'[w] = "taken" /\ job'[w] = h
      /\ \A v \in Workers : v # w => worker'[v] = worker[v] /\ job'[v] = job[v]
  BY <1>1 DEF TypeOK, WorkerTypeOK
<1>4. /\ answer[h] = "nil" /\ ~Held(h) /\ runs[h] = 0 /\ drops[h] = 0 /\ notices[h] = 0
  BY <1>2 DEF FateInv, OnePlace
<1>5. Held(h)' /\ \A s \in Tasks : s # h => (Held(s)' <=> Held(s))
  BY <1>1, <1>3 DEF Held, HeldBy
<1>6. \A v \in Workers : worker[v] \in Handling => job[v] # h
  BY <1>4 DEF FateInv, Handling, Held, HeldBy
<1>7. \A v \in Workers : v # w => (worker'[v] \in Handling <=> worker[v] \in Handling)
  BY <1>3
<1>8. OnePlace'
  <2>1. \A t \in Tasks : UNCHANGED <<answer[t], runs[t], drops[t]>>
    BY <1>1 DEF submitVars, fateVars
  <2>2. \A u, v \in Workers : \A t \in Tasks : HeldBy(t, u)' /\ HeldBy(t, v)' => u = v
    BY <1>3, <1>4 DEF FateInv, OnePlace, HeldBy, Held
  <2> QED
    BY <1>2, <1>4, <1>5, <2>1, <2>2 DEF FateInv, OnePlace
<1>9. \A v \in Workers : worker'[v] \in Handling =>
        job'[v] \in Tasks /\ answer'[job'[v]] = "nil" /\ notices'[job'[v]] = 0
  BY <1>1, <1>2, <1>3, <1>4 DEF FateInv, submitVars, fateVars
<1>10. \A u, v \in Workers :
         worker'[u] \in Handling /\ worker'[v] \in Handling /\ job'[u] = job'[v] => u = v
  BY <1>3, <1>6, <1>7 DEF FateInv
<1>11. \A v \in Workers : worker'[v] \in Serving => runs'[job'[v]] + drops'[job'[v]] = 1
  BY <1>1, <1>3 DEF FateInv, Serving, fateVars
<1>12. \A t \in Tasks : Queued(t)' => notices'[t] = 0
  BY <1>1, <1>2 DEF FateInv, fateVars
<1> QED
  BY <1>1, <1>8, <1>9, <1>10, <1>11, <1>12 DEF FateInv, OneNotice, submitVars, fateVars

\* The job in the hands of a worker is started, or dropped.
LEMMA FateDecided ==
  ASSUME TypeOK, FateInv, NEW w \in Workers, StartJob(w) \/ DropTaken(w)
  PROVE  FateInv'
<1>0. PICK j \in Tasks : j = job[w]
  BY DEF StartJob, DropTaken, At, FateInv, Handling
<1>1. /\ worker[w] = "taken"
      /\ worker' = [worker EXCEPT ![w] = worker'[w]] /\ worker'[w] \in Serving
      /\ UNCHANGED <<submitVars, queue, job, notices>>
      /\ \/ runs' = [runs EXCEPT ![j] = @ + 1] /\ UNCHANGED drops
         \/ drops' = [drops EXCEPT ![j] = @ + 1] /\ UNCHANGED runs
  BY <1>0 DEF StartJob, DropTaken, At, Goto, workerFrame, Serving, TypeOK, WorkerTypeOK
<1>2. answer[j] = "nil" /\ notices[j] = 0
  BY <1>0, <1>1 DEF FateInv, Handling
<1>3. Held(j) /\ ~Queued(j) /\ runs[j] = 0 /\ drops[j] = 0
  BY <1>0, <1>1, <1>2 DEF FateInv, OnePlace, Held, HeldBy
<1>4. /\ \/ runs'[j] = 1 /\ drops'[j] = 0
         \/ runs'[j] = 0 /\ drops'[j] = 1
      /\ \A t \in Tasks : t # j => runs'[t] = runs[t] /\ drops'[t] = drops[t]
  BY <1>1, <1>2, <1>3 DEF TypeOK, RecordTypeOK
<1>5. \A v \in Workers : v # w => worker'[v] = worker[v]
  BY <1>1 DEF TypeOK, WorkerTypeOK
<1>6. \A v \in Workers : /\ worker'[v] \in Handling <=> worker[v] \in Handling
                         /\ worker'[v] \in Serving <=> worker[v] \in Serving \/ v = w
  BY <1>1, <1>5 DEF Handling
<1>7. \A t \in Tasks : Queued(t)' <=> Queued(t)
  BY <1>1 DEF Queued, In
<1>8. ~Held(j)' /\ \A t \in Tasks : t # j => (Held(t)' <=> Held(t))
  BY <1>0, <1>1, <1>2, <1>5 DEF FateInv, OnePlace, Held, HeldBy, Serving
<1>9. OnePlace'
  <2>1. \A u, v \in Workers : \A t \in Tasks : HeldBy(t, u)' /\ HeldBy(t, v)' => u = v
    BY <1>1, <1>5 DEF FateInv, OnePlace, HeldBy, Serving
  <2> QED
    BY <1>1, <1>2, <1>3, <1>4, <1>7, <1>8, <2>1 DEF FateInv, OnePlace, Distinct, submitVars
<1>10. \A v \in Workers : worker'[v] \in Serving => runs'[job'[v]] + drops'[job'[v]] = 1
  <2>1. \A v \in Workers : worker[v] \in Serving => job[v] # j
    BY <1>1, <1>3 DEF FateInv, TypeOK, RecordTypeOK
  <2> QED
    BY <1>0, <1>1, <1>4, <1>6, <2>1 DEF FateInv, Handling
<1>11. OneNotice'
  BY <1>1, <1>2, <1>4 DEF FateInv, OneNotice, TypeOK, RecordTypeOK
<1> QED
  BY <1>1, <1>6, <1>7, <1>9, <1>10, <1>11 DEF FateInv, submitVars

\* OnTaskDone is called, and the worker lets go of the job.
LEMMA FateNotified ==
  ASSUME TypeOK, FateInv, NEW w \in Workers, NotifyJob(w)
  PROVE  FateInv'
<1>0. PICK j \in Tasks : j = job[w]
  BY DEF NotifyJob, At, FateInv, Handling, Serving
<1>1. /\ worker[w] \in Serving
      /\ worker' = [worker EXCEPT ![w] = worker'[w]] /\ worker'[w] \notin Handling
      /\ UNCHANGED <<submitVars, queue, runs, drops>>
      /\ notices' = [notices EXCEPT ![j] = @ + 1]
      /\ job' = [job EXCEPT ![w] = None]
  BY <1>0 DEF NotifyJob, At, Goto, workerFrame, Handling, Serving, TypeOK, WorkerTypeOK
<1>2. runs[j] + drops[j] = 1 /\ notices[j] = 0
  BY <1>0, <1>1 DEF FateInv, Handling
<1>3. ~Queued(j)
  BY <1>2 DEF FateInv, OnePlace, TypeOK, RecordTypeOK
<1>4. \A v \in Workers : v # w => worker'[v] = worker[v] /\ job'[v] = job[v]
  BY <1>1 DEF TypeOK, WorkerTypeOK
<1>5. /\ notices'[j] = 1
      /\ \A t \in Tasks : t # j => notices'[t] = notices[t]
  BY <1>1, <1>2 DEF TypeOK, RecordTypeOK
<1>6. \A t \in Tasks : Queued(t)' <=> Queued(t)
  BY <1>1 DEF Queued, In
<1>7. \A t \in Tasks : Held(t)' <=> Held(t)
  BY <1>1, <1>4 DEF Held, HeldBy, Serving, Handling
<1>8. OnePlace'
  <2>1. \A u, v \in Workers : \A t \in Tasks : HeldBy(t, u)' /\ HeldBy(t, v)' => u = v
    BY <1>1, <1>4 DEF FateInv, OnePlace, HeldBy, Handling
  <2> QED
    BY <1>1, <1>6, <1>7, <2>1 DEF FateInv, OnePlace, Distinct, submitVars
<1>9. \A v \in Workers : worker'[v] \in Handling =>
        job'[v] \in Tasks /\ answer'[job'[v]] = "nil" /\ notices'[job'[v]] = 0
  <2> SUFFICES ASSUME NEW v \in Workers, worker'[v] \in Handling
               PROVE  job'[v] \in Tasks /\ answer'[job'[v]] = "nil" /\ notices'[job'[v]] = 0
    OBVIOUS
  <2>1. v # w /\ worker[v] \in Handling /\ worker[w] \in Handling /\ job'[v] = job[v]
    BY <1>1, <1>4 DEF Handling
  <2>2. job[v] # j
    BY <1>0, <2>1 DEF FateInv
  <2> QED
    BY <1>1, <1>5, <2>1, <2>2 DEF FateInv, submitVars
<1>10. OneNotice'
  BY <1>1, <1>2, <1>5 DEF FateInv, OneNotice, TypeOK, RecordTypeOK
<1>11. \A t \in Tasks : Queued(t)' => notices'[t] = 0
  BY <1>3, <1>5, <1>6 DEF FateInv
<1>12. \A v \in Workers : worker'[v] \in Serving => runs'[job'[v]] + drops'[job'[v]] = 1
  BY <1>1, <1>4 DEF FateInv, Handling
<1>13. \A u, v \in Workers :
         worker'[u] \in Handling /\ worker'[v] \in Handling /\ job'[u] = job'[v] => u = v
  BY <1>1, <1>4 DEF FateInv
<1> QED
  BY <1>1, <1>8, <1>9, <1>10, <1>11, <1>12, <1>13 DEF FateInv, submitVars

LEMMA FateWorker ==
  ASSUME TypeOK, FateInv, NEW w \in Workers, WorkerStep(w) \/ TimerFires(w)
  PROVE  FateInv'
<1>1. CASE Receive(w)
  BY <1>1, FateReceived
<1>2. CASE StartJob(w) \/ DropTaken(w)
  BY <1>2, FateDecided
<1>3. CASE NotifyJob(w)
  BY <1>3, FateNotified
<1>4. CASE \/ StopForced(w) \/ StopClosed(w) \/ EndJob(w) \/ ReportJob(w)
           \/ IdleCheck(w) \/ Exit(w) \/ TimerFires(w)
  <2>1. UNCHANGED <<submitVars, queue, job, fateVars>>
    BY <1>4 DEF StopForced, StopClosed, EndJob, ReportJob, IdleCheck, Exit, TimerFires, workerFrame
  <2>2. \A v \in Workers : /\ worker'[v] \in Serving <=> worker[v] \in Serving
                           /\ worker'[v] = "taken" <=> worker[v] = "taken"
    BY <1>4 DEF StopForced, StopClosed, EndJob, ReportJob, IdleCheck, Exit, TimerFires, At, Goto,
       Serving, TypeOK, WorkerTypeOK
  <2> QED
    BY <2>1, <2>2, FateUndisturbed
<1> QED
  BY <1>1, <1>2, <1>3, <1>4 DEF WorkerStep

LEMMA FateScaling ==
  ASSUME TypeOK, FateInv, ScalingStep
  PROVE  FateInv'
<1>1. UNCHANGED <<submitVars, queue, job, fateVars>>
  BY DEF ScalingStep, ScaleUpStep, SpawnMinimum, checkScaling, DeclineScaleUp, PlanScaleUp,
     SpawnExtra, EndScaleUp, ReportScaleUp, CooldownEnds, StopDispatcher, scalingFrame,
     SpawnWorker, workerVars, queueVars
<1>2. \/ UNCHANGED worker
      \/ \E w \in Workers : worker[w] = "none" /\ worker' = [worker EXCEPT ![w] = "loop"]
  BY DEF ScalingStep, ScaleUpStep, SpawnMinimum, checkScaling, DeclineScaleUp, PlanScaleUp,
     SpawnExtra, EndScaleUp, ReportScaleUp, CooldownEnds, StopDispatcher, SpawnWorker, workerVars
<1>3. \A v \in Workers : /\ worker'[v] \in Serving <=> worker[v] \in Serving
                         /\ worker'[v] = "taken" <=> worker[v] = "taken"
  BY <1>2 DEF Serving, TypeOK, WorkerTypeOK
<1> QED
  BY <1>1, <1>3, FateUndisturbed

\* The leader drops the first job of the queue.
LEMMA FateDropped ==
  ASSUME TypeOK, FateInv, NEW c \in Callers, DropQueued(c)
  PROVE  FateInv'
<1>0. PICK h \in Tasks : h = Head(queue)
  BY QueueTypes DEF DropQueued, TypeOK
<1>1. /\ queue # <<>> /\ queue' = Tail(queue)
      /\ UNCHANGED <<submitVars, worker, job, runs>>
      /\ drops' = [drops EXCEPT ![h] = @ + 1]
      /\ notices' = [notices EXCEPT ![h] = @ + 1]
  BY <1>0 DEF DropQueued, shutdownFrame, workerVars
<1>2. /\ Distinct(queue') /\ Queued(h) /\ ~Queued(h)'
      /\ \A s \in Tasks : s # h => (Queued(s)' <=> Queued(s))
  BY <1>0, <1>1, TakeFromQueue DEF FateInv, OnePlace, Queued, TypeOK, QueueTypeOK
<1>3. answer[h] = "nil" /\ ~Held(h) /\ runs[h] = 0 /\ drops[h] = 0 /\ notices[h] = 0
  BY <1>2 DEF FateInv, OnePlace
<1>4. /\ drops'[h] = 1 /\ notices'[h] = 1
      /\ \A t \in Tasks : t # h => drops'[t] = drops[t] /\ notices'[t] = notices[t]
  BY <1>1, <1>3 DEF TypeOK, RecordTypeOK
<1>5. \A w \in Workers : worker[w] \in Handling => job[w] # h
  BY <1>3 DEF FateInv, Handling, Held, HeldBy, TypeOK, RecordTypeOK
<1>6. \A t \in Tasks : Held(t)' <=> Held(t)
  BY <1>1 DEF Held, HeldBy
<1>7. OnePlace'
  <2>1. \A u, v \in Workers : \A t \in Tasks : HeldBy(t, u)' /\ HeldBy(t, v)' => u = v
    BY <1>1 DEF FateInv, OnePlace, HeldBy
  <2> QED
    BY <1>1, <1>2, <1>3, <1>4, <1>6, <2>1 DEF FateInv, OnePlace, submitVars
<1>8. OneNotice'
  BY <1>1, <1>3, <1>4 DEF FateInv, OneNotice, TypeOK, RecordTypeOK
<1>9. \A w \in Workers : worker[w] \in Handling =>
        drops'[job[w]] = drops[job[w]] /\ notices'[job[w]] = notices[job[w]]
  BY <1>4, <1>5 DEF FateInv
<1> QED
  BY <1>1, <1>2, <1>4, <1>7, <1>8, <1>9 DEF FateInv, Handling, submitVars

LEMMA FateShutdown ==
  ASSUME TypeOK, FateInv, ShutdownStep
  PROVE  FateInv'
<1>1. ASSUME NEW c \in Callers, DropQueued(c)
      PROVE  FateInv'
  BY <1>1, FateDropped
<1>2. CASE ~ \E c \in Callers : DropQueued(c)
  <2>1. UNCHANGED <<submitVars, queue, worker, job, fateVars>>
    BY <1>2 DEF ShutdownStep, LeaderStep, FollowerStep, Call, CallerCtxEnds, Announce,
       DispatcherGone, CloseQueue, AllWorkersLeft, ForceWorkers, QueueDropped, GraceTimeout,
       Finish, EndWith, FindDone, StopAwaiting, WatchWorkers, DetachLater, shutdownFrame,
       dropFrame, workerVars, fateVars
  <2> QED
    BY <2>1, FateUndisturbed
<1> QED
  BY <1>1, <1>2

\* The invariant of the fate of tasks.
THEOREM FateKept == Spec => []FateInv
<1>1. Init => FateInv
  BY DEF Init, FateInv, OnePlace, OneNotice, Queued, In, Distinct, Held, HeldBy,
     Handling, Serving
<1>2. TypeOK /\ FateInv /\ [Next]_vars => FateInv'
  <2> SUFFICES ASSUME TypeOK, FateInv, [Next]_vars
               PROVE  FateInv'
    OBVIOUS
  <2>1. CASE UNCHANGED vars
    BY <2>1, FateUndisturbed DEF vars, queueVars, workerVars
  <2> QED
    BY <2>1, NextCases, FateSubmission, FateWorker, FateScaling, FateShutdown
<1> QED
  BY <1>1, <1>2, TypesKept, PTL DEF Spec

\* Every accepted job is in exactly one place: never lost, never run twice, never
\* both run and dropped, however submissions, workers and Shutdown meet; and
\* OnTaskDone is called at most once for it.
THEOREM TasksConserved == Spec => []TaskConservation
<1>1. FateInv => TaskConservation
  BY DEF FateInv, TaskConservation
<1> QED
  BY <1>1, FateKept, PTL

-----------------------------------------------------------------------------
(***************************************************************************)
(* Frames: which variables a step of each component cannot touch.          *)
(***************************************************************************)
LEMMA SubmissionFrame ==
  ASSUME NEW t \in Tasks, SubmitStep(t) \/ SubmitCtxEnds(t)
  PROVE  UNCHANGED <<queueClosed, workerVars, scalingVars, shutdownVars, fateVars,
                     jobsProcessed, jobsDropped>>
  BY DEF SubmitStep, SubmitCtxEnds, RefuseNil, Enter, RejectAtEntry, PassChecks, SendAtOnce,
     FindFull, SendAfterWait, GiveUp, ReportSubmit, Accept, Reject, submitFrame, queueVars,
     counterVars

LEMMA WorkerFrame ==
  ASSUME NEW w \in Workers, WorkerStep(w) \/ TimerFires(w)
  PROVE  UNCHANGED <<submitVars, queueClosed, scalingVars, shutdownVars, jobsRejected>>
  BY DEF WorkerStep, TimerFires, StopForced, StopClosed, Receive, StartJob, EndJob, DropTaken,
     ReportJob, NotifyJob, IdleCheck, Exit, workerFrame

LEMMA ScalingFrame ==
  ASSUME ScalingStep
  PROVE  UNCHANGED <<submitVars, queueVars, shutdownVars, counterVars, fateVars>>
  BY DEF ScalingStep, ScaleUpStep, SpawnMinimum, checkScaling, DeclineScaleUp, PlanScaleUp,
     SpawnExtra, EndScaleUp, ReportScaleUp, CooldownEnds, StopDispatcher, scalingFrame

LEMMA ShutdownFrame ==
  ASSUME ShutdownStep
  PROVE  UNCHANGED <<submitVars, workerVars, scalingVars, jobsProcessed, jobsRejected, runs>>
  BY DEF ShutdownStep, LeaderStep, FollowerStep, Call, CallerCtxEnds, Announce, DispatcherGone,
     CloseQueue, AllWorkersLeft, ForceWorkers, DropQueued, QueueDropped, GraceTimeout, Finish,
     EndWith, FindDone, StopAwaiting, WatchWorkers, DetachLater, shutdownFrame

\* Of the steps of Shutdown only the drain loop moves jobs.
LEMMA DrainFrame ==
  ASSUME ShutdownStep, ~ \E c \in Callers : DropQueued(c)
  PROVE  UNCHANGED dropFrame
  BY DEF ShutdownStep, LeaderStep, FollowerStep, Call, CallerCtxEnds, Announce, DispatcherGone,
     CloseQueue, AllWorkersLeft, ForceWorkers, QueueDropped, GraceTimeout, Finish, EndWith,
     FindDone, StopAwaiting, WatchWorkers, DetachLater

-----------------------------------------------------------------------------
(***************************************************************************)
(* The counters. Each is tied to the set it counts; that a drop makes the  *)
(* set of dropped tasks larger is what the fate of tasks says: the job     *)
(* dropped had not been dropped before.                                    *)
(***************************************************************************)
Busy == {w \in Workers : worker[w] \in {"running", "reportDone", "notifyDone"}}
Dropped == {t \in Tasks : drops[t] > 0}

CountInv ==
  /\ workerCount = Cardinality(Live)
  /\ busyWorkers = Cardinality(Busy)
  /\ IsFiniteSet(Dropped) /\ jobsDropped = Cardinality(Dropped)

\* A set of workers that gains or loses one, or none, and its cardinality.
LEMMA CardinalityAfter ==
  ASSUME NEW S, IsFiniteSet(S), NEW x
  PROVE  /\ x \notin S => Cardinality(S \union {x}) = Cardinality(S) + 1
         /\ x \in S => Cardinality(S \ {x}) = Cardinality(S) - 1
         /\ IsFiniteSet(S \union {x})
         /\ Cardinality(S) \in Nat
  BY FS_AddElement, FS_RemoveElement, FS_CardinalityType

LEMMA WorkerSetsFinite ==
  IsFiniteSet(Live) /\ IsFiniteSet(Busy)
  BY WorkersAssumption, FS_Subset DEF WorkersAssumption, Live, Busy

\* Live and Busy change with worker alone, Dropped with drops alone.
LEMMA CountUndisturbed ==
  ASSUME CountInv, UNCHANGED <<worker, workerCount, busyWorkers, drops, jobsDropped>>
  PROVE  CountInv'
  BY DEF CountInv, Live, Busy, Dropped

\* A drop of a job that was not dropped yet.
LEMMA DropCounted ==
  ASSUME TypeOK, CountInv, NEW t \in Tasks, drops[t] = 0,
         drops' = [drops EXCEPT ![t] = @ + 1], jobsDropped' = jobsDropped + 1
  PROVE  IsFiniteSet(Dropped') /\ jobsDropped' = Cardinality(Dropped')
<1>1. Dropped' = Dropped \union {t} /\ t \notin Dropped
  BY DEF Dropped, TypeOK, RecordTypeOK
<1> QED
  BY <1>1, CardinalityAfter DEF CountInv

LEMMA CountWorker ==
  ASSUME TypeOK, FateInv, CountInv, NEW w \in Workers, WorkerStep(w) \/ TimerFires(w)
  PROVE  CountInv'
<1> USE DEF TypeOK, WorkerTypeOK, At, Goto
<1>1. CASE Exit(w)
  <2>1. Live' = Live \ {w} /\ w \in Live /\ Busy' = Busy
    BY <1>1 DEF Exit, Live, Busy
  <2>2. Dropped' = Dropped /\ UNCHANGED <<busyWorkers, jobsDropped>> /\ workerCount' = workerCount - 1
    BY <1>1 DEF Exit, Dropped, fateVars
  <2> QED
    BY <2>1, <2>2, CardinalityAfter, WorkerSetsFinite DEF CountInv
<1>2. CASE StartJob(w)
  <2>1. Live' = Live /\ Busy' = Busy \union {w} /\ w \notin Busy
    BY <1>2 DEF StartJob, Live, Busy
  <2>2. Dropped' = Dropped /\ UNCHANGED <<workerCount, jobsDropped>> /\ busyWorkers' = busyWorkers + 1
    BY <1>2 DEF StartJob, Dropped
  <2> QED
    BY <2>1, <2>2, CardinalityAfter, WorkerSetsFinite DEF CountInv
<1>3. CASE NotifyJob(w)
  <2>1. Live' = Live /\ Dropped' = Dropped /\ UNCHANGED <<workerCount, jobsDropped>>
    BY <1>3 DEF NotifyJob, Live, Dropped
  <2>2. \/ Busy' = Busy \ {w} /\ w \in Busy /\ busyWorkers' = busyWorkers - 1
        \/ Busy' = Busy /\ UNCHANGED busyWorkers
    BY <1>3 DEF NotifyJob, Busy
  <2> QED
    BY <2>1, <2>2, CardinalityAfter, WorkerSetsFinite DEF CountInv
<1>4. CASE DropTaken(w)
  <2>1. Live' = Live /\ Busy' = Busy /\ UNCHANGED <<workerCount, busyWorkers>>
    BY <1>4 DEF DropTaken, Live, Busy
  <2>2. job[w] \in Tasks /\ drops[job[w]] = 0
    <3>1. job[w] \in Tasks /\ answer[job[w]] = "nil" /\ Held(job[w])
      BY <1>4 DEF DropTaken, FateInv, Handling, Held, HeldBy
    <3> QED
      BY <3>1 DEF FateInv, OnePlace
  <2>3. IsFiniteSet(Dropped') /\ jobsDropped' = Cardinality(Dropped')
    BY <1>4, <2>2, DropCounted DEF DropTaken
  <2> QED
    BY <2>1, <2>3 DEF CountInv
<1>5. CASE \/ StopForced(w) \/ StopClosed(w) \/ Receive(w) \/ EndJob(w) \/ ReportJob(w)
           \/ IdleCheck(w) \/ TimerFires(w)
  <2>1. Live' = Live /\ Busy' = Busy
    BY <1>5 DEF StopForced, StopClosed, Receive, EndJob, ReportJob, IdleCheck, TimerFires, Live, Busy
  <2>2. UNCHANGED <<workerCount, busyWorkers, drops, jobsDropped>>
    BY <1>5 DEF StopForced, StopClosed, Receive, EndJob, ReportJob, IdleCheck, TimerFires, fateVars
  <2> QED
    BY <2>1, <2>2 DEF CountInv, Dropped
<1> QED
  BY <1>1, <1>2, <1>3, <1>4, <1>5 DEF WorkerStep

LEMMA CountSpawned ==
  ASSUME TypeOK, CountInv, NEW w \in Workers, SpawnWorker(w), UNCHANGED <<drops, jobsDropped>>
  PROVE  CountInv'
<1>1. Live' = Live \union {w} /\ w \notin Live /\ Busy' = Busy
  BY DEF SpawnWorker, Live, Busy, TypeOK, WorkerTypeOK
<1>2. Dropped' = Dropped /\ busyWorkers' = busyWorkers /\ workerCount' = workerCount + 1
  BY DEF SpawnWorker, Dropped
<1> QED
  BY <1>1, <1>2, CardinalityAfter, WorkerSetsFinite DEF CountInv

LEMMA CountScaling ==
  ASSUME TypeOK, CountInv, ScalingStep
  PROVE  CountInv'
<1>1. UNCHANGED <<drops, jobsDropped>>
  BY ScalingFrame DEF counterVars, fateVars
<1>2. CASE SpawnMinimum \/ SpawnExtra
  BY <1>1, <1>2, CountSpawned DEF SpawnMinimum, SpawnExtra
<1>3. CASE ~(SpawnMinimum \/ SpawnExtra)
  <2>1. UNCHANGED workerVars
    BY <1>3 DEF ScalingStep, ScaleUpStep, checkScaling, DeclineScaleUp, PlanScaleUp, EndScaleUp,
       ReportScaleUp, CooldownEnds, StopDispatcher
  <2> QED
    BY <1>1, <2>1, CountUndisturbed DEF workerVars
<1> QED
  BY <1>2, <1>3

LEMMA CountShutdown ==
  ASSUME TypeOK, FateInv, CountInv, ShutdownStep
  PROVE  CountInv'
<1>1. UNCHANGED <<worker, workerCount, busyWorkers>>
  BY ShutdownFrame DEF workerVars
<1>2. ASSUME NEW c \in Callers, DropQueued(c)
      PROVE  CountInv'
  <2>1. PICK h \in Tasks : h = Head(queue)
    BY <1>2, QueueTypes DEF DropQueued, TypeOK
  <2>2. drops[h] = 0
    <3>1. Queued(h)
      BY <1>2, <2>1, TakeFromQueue
         DEF DropQueued, Queued, FateInv, OnePlace, TypeOK, QueueTypeOK
    <3> QED
      BY <3>1 DEF FateInv, OnePlace
  <2>3. IsFiniteSet(Dropped') /\ jobsDropped' = Cardinality(Dropped')
    BY <1>2, <2>1, <2>2, DropCounted DEF DropQueued
  <2>4. Live' = Live /\ Busy' = Busy
    BY <1>1 DEF Live, Busy
  <2> QED
    BY <1>1, <2>3, <2>4 DEF CountInv
<1>3. CASE ~ \E c \in Callers : DropQueued(c)
  BY <1>1, <1>3, DrainFrame, CountUndisturbed DEF dropFrame
<1> QED
  BY <1>2, <1>3

LEMMA CountStep ==
  ASSUME TypeOK, FateInv, CountInv, [Next]_vars
  PROVE  CountInv'
<1>1. ASSUME NEW t \in Tasks, SubmitStep(t) \/ SubmitCtxEnds(t)
      PROVE  CountInv'
  BY <1>1, SubmissionFrame, CountUndisturbed DEF workerVars, fateVars
<1>2. CASE UNCHANGED vars
  BY <1>2, CountUndisturbed DEF vars, workerVars, fateVars, counterVars
<1> QED
  BY <1>1, <1>2, NextCases, CountWorker, CountScaling, CountShutdown

LEMMA InitCount ==
  ASSUME Init
  PROVE  CountInv
<1>1. Live = {} /\ Busy = {} /\ Dropped = {}
  BY DEF Init, Live, Busy, Dropped
<1> QED
  BY <1>1, FS_EmptySet DEF Init, CountInv

\* The invariant of the counters.
THEOREM CountKept == Spec => []CountInv
<1>1. Init => CountInv
  BY InitCount
<1>2. TypeOK /\ FateInv /\ CountInv /\ [Next]_vars => CountInv'
  BY CountStep
<1> QED
  BY <1>1, <1>2, TypesKept, FateKept, PTL DEF Spec

\* The worker count that scaling, retiring and the gauges read is the number of
\* goroutines alive, busyWorkers the number at a job, and jobsDropped, from which
\* Shutdown makes its error, the number of tasks dropped.
THEOREM CountersAreExact == Spec => []CountersExact
<1>1. CountInv => CountersExact
  BY DEF CountInv, CountersExact, Busy, Dropped
<1> QED
  BY <1>1, CountKept, PTL

-----------------------------------------------------------------------------
(***************************************************************************)
(* The room for workers. That New, which spawns without looking at the     *)
(* count, and scaleUp, which looks once, stay below MaxWorkers together    *)
(* rests on scaleUp not running before New has returned: nobody can submit *)
(* then, and an empty queue is below every threshold but zero.             *)
(***************************************************************************)
RoomInv ==
  /\ workerCount + booting + toAdd <= MaxWorkers
  /\ booting > 0 => /\ dispatcher \in {"select", "stopped"}
                    /\ queue = <<>>
                    /\ \A t \in Tasks : call[t] = "new"

\* A threshold above zero asks for at least one queued job.
LEMMA BusyDepthPositive ==
  ASSUME ThresholdPct > 0
  PROVE  BusyDepth \in Nat /\ BusyDepth >= 1
<1>1. ThresholdPct \in Nat /\ QueueSize \in Nat /\ ThresholdPct >= 1 /\ QueueSize >= 1
  BY ConfigAssumption DEF ConfigAssumption
<1>2. ThresholdPct * QueueSize \in Nat /\ ThresholdPct * QueueSize >= 1
  BY <1>1
<1> DEFINE product == ThresholdPct * QueueSize
<1>3. product \in Nat /\ product >= 1
  BY <1>2
<1> HIDE DEF product
<1>4. (product + 99) \div 100 \in Nat /\ (product + 99) \div 100 >= 1
  BY <1>3
<1> QED
  BY <1>4 DEF BusyDepth, product

LEMMA RoomSubmission ==
  ASSUME TypeOK, RoomInv, NEW t \in Tasks, SubmitStep(t) \/ SubmitCtxEnds(t)
  PROVE  RoomInv'
<1>1. UNCHANGED <<workerCount, booting, toAdd, dispatcher>>
  BY SubmissionFrame DEF workerVars, scalingVars
<1>2. CASE booting > 0
  <2>1. UNCHANGED <<queue, call>>
    BY <1>2 DEF RoomInv, Built, SubmitStep, SubmitCtxEnds, RefuseNil, Enter, RejectAtEntry,
       PassChecks, SendAtOnce, FindFull, SendAfterWait, GiveUp, ReportSubmit, queueVars
  <2> QED
    BY <1>1, <2>1 DEF RoomInv
<1> QED
  BY <1>1, <1>2 DEF RoomInv

LEMMA RoomWorker ==
  ASSUME TypeOK, RoomInv, NEW w \in Workers, WorkerStep(w) \/ TimerFires(w)
  PROVE  RoomInv'
<1>1. UNCHANGED <<booting, toAdd, dispatcher, call>>
  BY WorkerFrame DEF submitVars, scalingVars
<1>2. workerCount' = workerCount \/ workerCount' = workerCount - 1
  BY DEF WorkerStep, TimerFires, StopForced, StopClosed, Receive, StartJob, EndJob, DropTaken,
     ReportJob, NotifyJob, IdleCheck, Exit
<1>3. queue = <<>> => queue' = <<>>
  BY DEF WorkerStep, TimerFires, StopForced, StopClosed, Receive, StartJob, EndJob, DropTaken,
     ReportJob, NotifyJob, IdleCheck, Exit
<1>4. workerCount' + booting' + toAdd' <= MaxWorkers
  BY <1>1, <1>2, ConfigAssumption
     DEF RoomInv, TypeOK, WorkerTypeOK, ScalingTypeOK, ConfigAssumption
<1> QED
  BY <1>1, <1>3, <1>4 DEF RoomInv

LEMMA RoomScaling ==
  ASSUME ThresholdPct > 0, TypeOK, RoomInv, ScalingStep
  PROVE  RoomInv'
<1>1. UNCHANGED <<call, queue>>
  BY ScalingFrame DEF submitVars, queueVars
<1> USE ConfigAssumption DEF ConfigAssumption, RoomInv, TypeOK, WorkerTypeOK, ScalingTypeOK
<1>2. CASE SpawnMinimum \/ SpawnExtra
  BY <1>1, <1>2 DEF SpawnMinimum, SpawnExtra, SpawnWorker
<1>3. CASE checkScaling
  <2>1. ~Backlogged \/ queue # <<>>
    BY BusyDepthPositive DEF Backlogged
  <2> QED
    BY <1>1, <1>3, <2>1 DEF checkScaling, workerVars
<1>4. CASE PlanScaleUp
  <2>1. booting = 0 /\ AddCount(workerCount) \in 1..(MaxWorkers - workerCount)
    BY <1>4, AddCountFits DEF PlanScaleUp
  <2> QED
    BY <1>1, <1>4, <2>1 DEF PlanScaleUp, workerVars
<1>5. CASE DeclineScaleUp \/ EndScaleUp \/ ReportScaleUp \/ CooldownEnds \/ StopDispatcher
  BY <1>1, <1>5 DEF DeclineScaleUp, EndScaleUp, ReportScaleUp, CooldownEnds, StopDispatcher, workerVars
<1> QED
  BY <1>2, <1>3, <1>4, <1>5 DEF ScalingStep, ScaleUpStep

LEMMA RoomShutdown ==
  ASSUME RoomInv, ShutdownStep
  PROVE  RoomInv'
<1>1. UNCHANGED <<workerCount, booting, toAdd, dispatcher, call>>
  BY ShutdownFrame DEF workerVars, scalingVars, submitVars
<1>2. queue = <<>> => queue' = <<>>
  BY DrainFrame DEF DropQueued, dropFrame
<1> QED
  BY <1>1, <1>2 DEF RoomInv

\* With a threshold above zero the workers there are and those the dispatcher
\* has still to start are never more than MaxWorkers: scaleUp's decision, taken
\* on a count that may have changed when it spawns, never overshoots.
THEOREM NeverTooManyWorkers ==
  ASSUME ThresholdPct > 0
  PROVE  Spec => []WorkersWithinMax
<1>1. Init => RoomInv
  BY ConfigAssumption DEF Init, RoomInv, ConfigAssumption
<1>2. TypeOK /\ RoomInv /\ [Next]_vars => RoomInv'
  <2> SUFFICES ASSUME TypeOK, RoomInv, [Next]_vars
               PROVE  RoomInv'
    OBVIOUS
  <2>1. CASE UNCHANGED vars
    BY <2>1 DEF RoomInv, vars, workerVars, scalingVars, queueVars, submitVars
  <2> QED
    BY <2>1, NextCases, RoomSubmission, RoomWorker, RoomScaling, RoomShutdown
<1>3. TypeOK /\ RoomInv => WorkersWithinMax
  BY ConfigAssumption DEF RoomInv, WorkersWithinMax, TypeOK, WorkerTypeOK, ScalingTypeOK,
     ConfigAssumption
<1> QED
  BY <1>1, <1>2, <1>3, TypesKept, PTL DEF Spec
=============================================================================
