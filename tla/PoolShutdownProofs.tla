------------------------- MODULE PoolShutdownProofs -------------------------
(***************************************************************************)
(* Theorems about Shutdown: who goes through it, in which order it takes   *)
(* the pool apart, and what its callers and the recorder may rely on.      *)
(***************************************************************************)
EXTENDS AdaptivePoolProofs

-----------------------------------------------------------------------------
(***************************************************************************)
(* The steps, seen from Shutdown.                                          *)
(***************************************************************************)
\* A call of Shutdown changes its own place only.
LEMMA Moved ==
  ASSUME TypeOK, NEW c \in Callers, NEW from, NEW to, Move(c, from, to)
  PROVE  /\ shut[c] = from /\ shut'[c] = to
         /\ \A d \in Callers : d # c => shut'[d] = shut[d]
  BY DEF Move, TypeOK, ShutdownTypeOK

\* The other components leave the state of Shutdown alone. New and the
\* dispatcher do not come back, and only they start workers.
LEMMA OutsideShutdown ==
  ASSUME TypeOK, [Next]_vars, ~ShutdownStep
  PROVE  /\ UNCHANGED <<queueClosed, shutdownVars>>
         /\ booting = 0 => booting' = 0
         /\ dispatcher = "stopped" => dispatcher' = "stopped"
         /\ booting = 0 /\ dispatcher = "stopped" => Live' \subseteq Live
<1>1. ASSUME NEW t \in Tasks, SubmitStep(t) \/ SubmitCtxEnds(t)
      PROVE  UNCHANGED <<queueClosed, shutdownVars, booting, dispatcher, worker>>
  BY <1>1, SubmissionFrame DEF scalingVars, workerVars
<1>2. ASSUME NEW w \in Workers, WorkerStep(w) \/ TimerFires(w)
      PROVE  UNCHANGED <<queueClosed, shutdownVars, booting, dispatcher>> /\ Live' \subseteq Live
  <2>1. UNCHANGED <<queueClosed, shutdownVars, booting, dispatcher>>
    BY <1>2, WorkerFrame DEF scalingVars
  <2>2. \A v \in Workers : worker[v] = "none" => worker'[v] = "none"
    BY <1>2 DEF WorkerStep, TimerFires, StopForced, StopClosed, Receive, StartJob, EndJob,
       DropTaken, ReportJob, NotifyJob, IdleCheck, Exit, At, Goto, TypeOK, WorkerTypeOK
  <2> QED
    BY <2>1, <2>2 DEF Live
<1>3. CASE ScalingStep
  <2>1. UNCHANGED <<queueClosed, shutdownVars>>
    BY <1>3, ScalingFrame DEF queueVars
  <2>2. booting = 0 => booting' = 0
    BY <1>3 DEF ScalingStep, ScaleUpStep, SpawnMinimum, checkScaling, DeclineScaleUp,
       PlanScaleUp, SpawnExtra, EndScaleUp, ReportScaleUp, CooldownEnds, StopDispatcher
  <2>3. dispatcher = "stopped" => dispatcher' = "stopped"
    BY <1>3 DEF ScalingStep, ScaleUpStep, SpawnMinimum, checkScaling, DeclineScaleUp,
       PlanScaleUp, SpawnExtra, EndScaleUp, ReportScaleUp, CooldownEnds, StopDispatcher
  <2>4. booting = 0 /\ dispatcher = "stopped" => UNCHANGED worker
    BY <1>3 DEF ScalingStep, ScaleUpStep, SpawnMinimum, checkScaling, DeclineScaleUp,
       PlanScaleUp, SpawnExtra, EndScaleUp, ReportScaleUp, CooldownEnds, StopDispatcher, workerVars
  <2> QED
    BY <2>1, <2>2, <2>3, <2>4 DEF Live
<1>4. CASE UNCHANGED vars
  BY <1>4 DEF vars, queueVars, scalingVars, workerVars, Live
<1> QED
  BY <1>1, <1>2, <1>3, <1>4, NextCases DEF Live

-----------------------------------------------------------------------------
(***************************************************************************)
(* One call leads. That the others never enter its part is what the        *)
(* compare-and-swap on shutdownStarted is for; that shutdownDone comes     *)
(* after the leader has left is what everything said of a finished         *)
(* Shutdown rests on.                                                      *)
(***************************************************************************)
Leading == {"won", "dispatcher", "lock", "wait", "drop", "grace", "finish"}

LeaderInv ==
  /\ \A c, d \in Callers : shut[c] \in Leading /\ shut[d] \in Leading => c = d
  /\ \A c \in Callers : shut[c] # "new" => shutdownStarted
  /\ shutdownDone => shutdownStarted /\ \A c \in Callers : shut[c] \notin Leading

\* The steps of the leader before Finish keep it the leader.
LEMMA LeaderProceeds ==
  ASSUME TypeOK, NEW c \in Callers, LeaderStep(c), ~Finish(c)
  PROVE  /\ shut[c] \in Leading /\ shut'[c] \in Leading
         /\ \A d \in Callers : d # c => shut'[d] = shut[d]
         /\ UNCHANGED <<shutdownStarted, shutdownDone>>
<1>1. \E from, to \in Leading : Move(c, from, to)
  BY DEF LeaderStep, Announce, DispatcherGone, CloseQueue, AllWorkersLeft, ForceWorkers,
     DropQueued, QueueDropped, GraceTimeout, Leading
<1>2. UNCHANGED <<shutdownStarted, shutdownDone>>
  BY DEF LeaderStep, Announce, DispatcherGone, CloseQueue, AllWorkersLeft, ForceWorkers,
     DropQueued, QueueDropped, GraceTimeout, verdict
<1> QED
  BY <1>1, <1>2, Moved

\* A later call never gets into the leader's part.
LEMMA FollowerProceeds ==
  ASSUME TypeOK, NEW c \in Callers, FollowerStep(c)
  PROVE  /\ shut[c] \in {"check", "await"} /\ shut'[c] \in {"await", "returned"}
         /\ \A d \in Callers : d # c => shut'[d] = shut[d]
         /\ \A d \in Callers : d # c => result'[d] = result[d]
         /\ UNCHANGED <<shutdownStarted, signals, verdict, waits, dropFrame>>
<1>1. \E from \in {"check", "await"}, to \in {"await", "returned"} : Move(c, from, to)
  BY DEF FollowerStep, FindDone, StopAwaiting
<1>2. UNCHANGED <<shutdownStarted, signals, verdict, waits, dropFrame>>
  BY DEF FollowerStep, FindDone, StopAwaiting
<1>3. \A d \in Callers : d # c => result'[d] = result[d]
  BY DEF FollowerStep, FindDone, StopAwaiting, TypeOK, ShutdownTypeOK
<1> QED
  BY <1>1, <1>2, <1>3, Moved

LEMMA LeaderKeptByCall ==
  ASSUME TypeOK, LeaderInv, NEW c \in Callers, Call(c)
  PROVE  LeaderInv'
<1>1. UNCHANGED shutdownDone /\ shutdownStarted' = TRUE
  BY DEF Call, verdict
<1>2. CASE shutdownStarted
  <2>1. Move(c, "new", "check")
    BY <1>2 DEF Call
  <2> QED
    BY <1>1, <1>2, <2>1, Moved DEF LeaderInv, Leading
<1>3. CASE ~shutdownStarted
  <2>1. Move(c, "new", "won")
    BY <1>3 DEF Call
  <2>2. \A d \in Callers : d # c => shut'[d] = "new"
    BY <1>3, <2>1, Moved DEF LeaderInv
  <2> QED
    BY <1>1, <1>3, <2>1, <2>2, Moved DEF LeaderInv, Leading
<1> QED
  BY <1>2, <1>3

LEMMA LeaderKeptByFinish ==
  ASSUME TypeOK, LeaderInv, NEW c \in Callers, Finish(c)
  PROVE  LeaderInv'
<1>1. Move(c, "finish", "returned") /\ shutdownDone' = TRUE /\ UNCHANGED shutdownStarted
  BY DEF Finish, EndWith
<1> QED
  BY <1>1, Moved DEF LeaderInv, Leading

LEMMA LeaderInvStep ==
  ASSUME TypeOK, LeaderInv, [Next]_vars
  PROVE  LeaderInv'
<1>1. CASE ~ShutdownStep
  BY <1>1, OutsideShutdown DEF LeaderInv, shutdownVars
<1>2. ASSUME NEW c \in Callers, LeaderStep(c), ~Finish(c)
      PROVE  LeaderInv'
  BY <1>2, LeaderProceeds DEF LeaderInv, Leading
<1>3. ASSUME NEW c \in Callers, FollowerStep(c)
      PROVE  LeaderInv'
  BY <1>3, FollowerProceeds DEF LeaderInv, Leading, verdict
<1>4. ASSUME NEW c \in Callers, CallerCtxEnds(c)
      PROVE  LeaderInv'
  BY <1>4 DEF CallerCtxEnds, LeaderInv, verdict
<1>5. CASE WatchWorkers \/ DetachLater
  BY <1>5 DEF WatchWorkers, DetachLater, LeaderInv, verdict
<1> QED
  BY <1>1, <1>2, <1>3, <1>4, <1>5, LeaderKeptByCall, LeaderKeptByFinish DEF ShutdownStep

\* At most one call leads the Shutdown, and none once it is done.
THEOREM LeaderKept == Spec => []LeaderInv
<1>1. Init => LeaderInv
  BY DEF Init, LeaderInv, Leading
<1>2. TypeOK /\ LeaderInv /\ [Next]_vars => LeaderInv'
  BY LeaderInvStep
<1> QED
  BY <1>1, <1>2, TypesKept, PTL DEF Spec

-----------------------------------------------------------------------------
(***************************************************************************)
(* The order in which Shutdown takes the pool apart: New has returned and  *)
(* the dispatcher has ended before the queue is closed, so nothing spawns  *)
(* behind the back of workerWg.Wait; workers are forced only after that,   *)
(* and workersDone, drained and detached follow in turn.                   *)
(***************************************************************************)
Opening == {"won", "dispatcher", "lock"}
Closing == {"wait", "drop", "grace", "finish"}

OrderInv ==
  /\ shutdownStarted => Built
  /\ \A c \in Callers : shut[c] \in {"lock"} \union Closing => dispatcher = "stopped"
  /\ \A c \in Callers : shut[c] \in Closing => queueClosed
  /\ shutdownDone => queueClosed
  /\ queueClosed => /\ shutdownStarted /\ dispatcher = "stopped"
                    /\ \A c \in Callers : shut[c] \notin Opening
  /\ forceStop => queueClosed /\ \A c \in Callers : shut[c] # "wait"
  /\ \A c \in Callers : shut[c] = "drop" => forceStop

LEMMA OrderInvStep ==
  ASSUME TypeOK, LeaderInv, OrderInv, [Next]_vars
  PROVE  OrderInv'
<1> USE DEF OrderInv, Built, Opening, Closing
<1>1. CASE ~ShutdownStep
  BY <1>1, OutsideShutdown DEF shutdownVars
<1>2. ASSUME ShutdownStep
      PROVE  UNCHANGED <<booting, dispatcher>>
  BY <1>2, ShutdownFrame DEF scalingVars
<1>3. ASSUME NEW c \in Callers, Call(c), ShutdownStep
      PROVE  OrderInv'
  <2>1. \/ Move(c, "new", "check")
        \/ Move(c, "new", "won") /\ ~shutdownStarted
    BY <1>3 DEF Call
  <2>2. UNCHANGED <<queueClosed, forceStop, shutdownDone>> /\ booting = 0 /\ shutdownStarted' = TRUE
    BY <1>3 DEF Call, signals, verdict
  <2> QED
    BY <1>2, <1>3, <2>1, <2>2, Moved
<1>4. ASSUME NEW c \in Callers, Announce(c) \/ DispatcherGone(c), ShutdownStep
      PROVE  OrderInv'
  <2>1. \/ Move(c, "won", "dispatcher")
        \/ Move(c, "dispatcher", "lock") /\ dispatcher = "stopped"
    BY <1>4 DEF Announce, DispatcherGone
  <2>2. UNCHANGED <<queueClosed, forceStop, shutdownDone, shutdownStarted>>
    BY <1>4 DEF Announce, DispatcherGone, signals, verdict
  <2> QED
    BY <1>2, <1>4, <2>1, <2>2, Moved
<1>5. ASSUME NEW c \in Callers, CloseQueue(c), ShutdownStep
      PROVE  OrderInv'
  <2>1. Move(c, "lock", "wait") /\ queueClosed'
    BY <1>5 DEF CloseQueue
  <2>2. UNCHANGED <<forceStop, shutdownDone, shutdownStarted>>
    BY <1>5 DEF CloseQueue, verdict
  <2>3. ~queueClosed /\ shutdownStarted /\ dispatcher = "stopped"
    BY <2>1, Moved DEF LeaderInv
  <2>4. \A d \in Callers : d # c => shut[d] \notin Leading
    BY <2>1, Moved DEF LeaderInv, Leading
  <2> QED
    BY <1>2, <1>5, <2>1, <2>2, <2>3, <2>4, Moved DEF Leading
<1>6. ASSUME NEW c \in Callers, ForceWorkers(c), ShutdownStep
      PROVE  OrderInv'
  <2>1. Move(c, "wait", "drop") /\ forceStop'
    BY <1>6 DEF ForceWorkers
  <2>2. UNCHANGED <<queueClosed, shutdownDone, shutdownStarted>>
    BY <1>6 DEF ForceWorkers, verdict
  <2>3. queueClosed /\ \A d \in Callers : d # c => shut[d] \notin Leading
    BY <2>1, Moved DEF LeaderInv, Leading
  <2> QED
    BY <1>2, <1>6, <2>1, <2>2, <2>3, Moved DEF Leading
<1>7. ASSUME NEW c \in Callers, ShutdownStep,
             AllWorkersLeft(c) \/ DropQueued(c) \/ QueueDropped(c) \/ GraceTimeout(c)
      PROVE  OrderInv'
  <2>1. \/ Move(c, "wait", "finish") \/ Move(c, "grace", "finish")
        \/ Move(c, "drop", "drop") \/ Move(c, "drop", "grace")
    BY <1>7 DEF AllWorkersLeft, DropQueued, QueueDropped, GraceTimeout
  <2>2. UNCHANGED <<queueClosed, forceStop, shutdownDone, shutdownStarted>>
    BY <1>7 DEF AllWorkersLeft, DropQueued, QueueDropped, GraceTimeout, signals, verdict
  <2> QED
    BY <1>2, <1>7, <2>1, <2>2, Moved
<1>8. ASSUME NEW c \in Callers, Finish(c), ShutdownStep
      PROVE  OrderInv'
  <2>1. Move(c, "finish", "returned") /\ UNCHANGED <<queueClosed, forceStop, shutdownStarted>>
    BY <1>8 DEF Finish, EndWith
  <2> QED
    BY <1>2, <1>8, <2>1, Moved
<1>9. ASSUME NEW c \in Callers, FollowerStep(c), ShutdownStep
      PROVE  OrderInv'
  BY <1>2, <1>9, FollowerProceeds DEF signals, verdict
<1>10. ASSUME ShutdownStep, \/ \E c \in Callers : CallerCtxEnds(c)
                            \/ WatchWorkers \/ DetachLater
       PROVE  OrderInv'
  BY <1>2, <1>10 DEF CallerCtxEnds, WatchWorkers, DetachLater, signals, verdict
<1> QED
  BY <1>1, <1>3, <1>4, <1>5, <1>6, <1>7, <1>8, <1>9, <1>10 DEF ShutdownStep, LeaderStep

\* Shutdown takes the pool apart in the order of its stages, in every interleaving.
THEOREM OrderKept == Spec => []OrderInv
<1>1. Init => OrderInv
  BY DEF Init, OrderInv, Built, Opening, Closing
<1>2. TypeOK /\ LeaderInv /\ OrderInv /\ [Next]_vars => OrderInv'
  BY OrderInvStep
<1> QED
  BY <1>1, <1>2, TypesKept, LeaderKept, PTL DEF Spec

\* What the end of the last worker, of Shutdown and of the recorder mean.
ExitInv ==
  /\ workersDone => queueClosed /\ Live = {}
  /\ drained => workersDone
  /\ detached => workersDone /\ shutdownDone
  /\ detachPending => shutdownDone

LEMMA ExitInvStep ==
  ASSUME TypeOK, OrderInv, ExitInv, [Next]_vars
  PROVE  ExitInv'
<1> USE DEF ExitInv
<1>1. CASE ~ShutdownStep
  <2>1. queueClosed => Live' \subseteq Live
    BY <1>1, OutsideShutdown DEF OrderInv, Built
  <2> QED
    BY <1>1, <2>1, OutsideShutdown DEF shutdownVars
<1>2. ASSUME ShutdownStep
      PROVE  Live' = Live
  BY <1>2, ShutdownFrame DEF workerVars, Live
<1>3. ASSUME NEW c \in Callers, ShutdownStep, LeaderStep(c),
             ~(AllWorkersLeft(c) \/ Finish(c))
      PROVE  ExitInv'
  <2>1. UNCHANGED <<workersDone, drained, shutdownDone, detached, detachPending>>
    BY <1>3 DEF LeaderStep, Announce, DispatcherGone, CloseQueue, ForceWorkers, DropQueued,
       QueueDropped, GraceTimeout, waits, verdict
  <2>2. queueClosed => queueClosed'
    BY <1>3 DEF LeaderStep, Announce, DispatcherGone, CloseQueue, ForceWorkers, DropQueued,
       QueueDropped, GraceTimeout, signals
  <2> QED
    BY <1>2, <1>3, <2>1, <2>2
<1>4. ASSUME NEW c \in Callers, ShutdownStep, AllWorkersLeft(c) \/ Finish(c)
      PROVE  ExitInv'
  BY <1>2, <1>4 DEF AllWorkersLeft, Finish, EndWith, signals, waits, verdict, TypeOK, ShutdownTypeOK
<1>5. ASSUME NEW c \in Callers, ShutdownStep, Call(c) \/ CallerCtxEnds(c) \/ FollowerStep(c)
      PROVE  ExitInv'
  BY <1>2, <1>5, FollowerProceeds DEF Call, CallerCtxEnds, signals, waits, verdict
<1>6. ASSUME ShutdownStep, WatchWorkers \/ DetachLater
      PROVE  ExitInv'
  BY <1>2, <1>6 DEF WatchWorkers, DetachLater, signals, waits, verdict
<1> QED
  BY <1>1, <1>3, <1>4, <1>5, <1>6 DEF ShutdownStep

\* drained, detached and the pending detach follow the exit of the last worker.
THEOREM ExitKept == Spec => []ExitInv
<1>1. Init => ExitInv
  BY DEF Init, ExitInv
<1>2. TypeOK /\ OrderInv /\ ExitInv /\ [Next]_vars => ExitInv'
  BY ExitInvStep
<1> QED
  BY <1>1, <1>2, TypesKept, OrderKept, PTL DEF Spec

\* workerWg.Wait is never reached while a worker may still be added, and no
\* worker lives once it has returned.
THEOREM WorkersAreGoneForGood == Spec => []WorkersGoneForGood
<1>1. OrderInv /\ ExitInv => WorkersGoneForGood
  BY DEF OrderInv, ExitInv, WorkersGoneForGood, Built
<1> QED
  BY <1>1, OrderKept, ExitKept, PTL

-----------------------------------------------------------------------------
\* After a Shutdown that saw all workers exit there is nobody left to move a
\* job: no worker lives or is started, the queue is closed, no call leads.
LEMMA InertStep ==
  ASSUME TypeOK, LeaderInv, OrderInv, ExitInv, [Next]_vars, shutdownDone, drained
  PROVE  UNCHANGED <<queue, runs, drops, notices, worker, jobsProcessed, jobsDropped>>
<1>1. Live = {} /\ queueClosed /\ booting = 0 /\ dispatcher = "stopped"
  BY DEF ExitInv, OrderInv, Built
<1>2. ASSUME NEW t \in Tasks, SubmitStep(t) \/ SubmitCtxEnds(t)
      PROVE  UNCHANGED <<queue, runs, drops, notices, worker, jobsProcessed, jobsDropped>>
  <2>1. UNCHANGED queue
    BY <1>1, <1>2 DEF SubmitStep, SubmitCtxEnds, RefuseNil, Enter, RejectAtEntry, PassChecks,
       SendAtOnce, FindFull, SendAfterWait, GiveUp, ReportSubmit, Accept, Reject, queueVars
  <2> QED
    BY <1>2, <2>1, SubmissionFrame DEF workerVars, fateVars
<1>3. ASSUME NEW w \in Workers, WorkerStep(w) \/ TimerFires(w)
      PROVE  FALSE
  <2>1. worker[w] = "none"
    BY <1>1 DEF Live
  <2> QED
    BY <1>3, <2>1 DEF WorkerStep, TimerFires, StopForced, StopClosed, Receive, StartJob, EndJob,
       DropTaken, ReportJob, NotifyJob, IdleCheck, Exit, At
<1>4. CASE ScalingStep
  <2>1. UNCHANGED workerVars
    BY <1>1, <1>4 DEF ScalingStep, ScaleUpStep, SpawnMinimum, checkScaling, DeclineScaleUp,
       PlanScaleUp, SpawnExtra, EndScaleUp, ReportScaleUp, CooldownEnds, StopDispatcher
  <2> QED
    BY <1>4, <2>1, ScalingFrame DEF workerVars, queueVars, counterVars, fateVars
<1>5. CASE ShutdownStep
  <2>1. ~ \E c \in Callers : DropQueued(c)
    BY DEF LeaderInv, Leading, DropQueued, Move
  <2> QED
    BY <1>5, <2>1, DrainFrame, ShutdownFrame DEF dropFrame, workerVars
<1>6. CASE UNCHANGED vars
  BY <1>6 DEF vars, queueVars, workerVars, counterVars, fateVars
<1> QED
  BY <1>2, <1>3, <1>4, <1>5, <1>6, NextCases

\* Once a Shutdown that saw all workers exit has ended, no step of anyone starts
\* a job, calls a hook, queues anything or brings a worker back.
THEOREM PoolInertOnceDrained == Spec => InertOnceDrained
<1>1. TypeOK /\ LeaderInv /\ OrderInv /\ ExitInv /\ [Next]_vars =>
        [shutdownDone /\ drained =>
           UNCHANGED <<queue, runs, drops, notices, worker, jobsProcessed, jobsDropped>>]_vars
  BY InertStep
<1> QED
  BY <1>1, TypesKept, LeaderKept, OrderKept, ExitKept, PTL DEF Spec, InertOnceDrained

-----------------------------------------------------------------------------
(***************************************************************************)
(* The verdict. The leader writes shutdownErr at most twice, when the      *)
(* grace period runs out and when it ends; what it then says, of the       *)
(* workers and of the dropped jobs, does not change any more, though the   *)
(* workers it gave up on may still be at work.                             *)
(***************************************************************************)
VerdictInv ==
  /\ ~shutdownStarted => ~drained /\ shutdownErr = "nil"
  /\ \A c \in Callers : shut[c] \in Leading \ {"finish"} => ~drained /\ shutdownErr = "nil"
  /\ \A c \in Callers : shut[c] = "finish" => shutdownErr = IF drained THEN "nil" ELSE "ctxErr"
  /\ shutdownDone /\ drained =>
       /\ reportedDropped = jobsDropped
       /\ shutdownErr = IF reportedDropped > 0 THEN "dropped" ELSE "nil"
  /\ shutdownDone /\ ~drained => shutdownErr # "nil"
  /\ \A c \in Callers : result[c] \notin {"none", "ownCtxErr"} =>
       shutdownDone /\ result[c] = shutdownErr

LEMMA VerdictKeptByFinish ==
  ASSUME TypeOK, LeaderInv, VerdictInv, NEW c \in Callers, Finish(c)
  PROVE  VerdictInv'
<1>1. /\ Move(c, "finish", "returned") /\ shutdownDone' = TRUE
      /\ reportedDropped' = jobsDropped
      /\ shutdownErr' = IF jobsDropped > 0 THEN "dropped" ELSE shutdownErr
      /\ result' = [result EXCEPT ![c] = shutdownErr']
      /\ UNCHANGED <<drained, shutdownStarted, jobsDropped>>
  BY DEF Finish, EndWith, ErrorWhen, waits, dropFrame
<1>2. /\ \A d \in Callers : shut'[d] \notin Leading
      /\ shutdownStarted /\ ~shutdownDone
      /\ shutdownErr = IF drained THEN "nil" ELSE "ctxErr"
  BY <1>1, Moved DEF LeaderInv, Leading, VerdictInv
<1>3. \A d \in Callers : result'[d] \notin {"none", "ownCtxErr"} => result'[d] = shutdownErr'
  BY <1>1, <1>2 DEF VerdictInv, TypeOK, ShutdownTypeOK
<1> QED
  BY <1>1, <1>2, <1>3 DEF VerdictInv, Leading

LEMMA VerdictInvStep ==
  ASSUME TypeOK, LeaderInv, OrderInv, ExitInv, VerdictInv, [Next]_vars
  PROVE  VerdictInv'
<1>1. CASE ~ShutdownStep
  BY <1>1, OutsideShutdown, InertStep DEF shutdownVars, VerdictInv
<1>2. ASSUME NEW c \in Callers, Call(c), ShutdownStep
      PROVE  VerdictInv'
  <2>1. \/ Move(c, "new", "check")
        \/ Move(c, "new", "won") /\ ~shutdownStarted
    BY <1>2 DEF Call
  <2>2. UNCHANGED <<result, drained, shutdownDone, shutdownErr, reportedDropped, jobsDropped>>
        /\ shutdownStarted'
    BY <1>2 DEF Call, calls, verdict, waits, dropFrame
  <2> QED
    BY <2>1, <2>2, Moved DEF VerdictInv, Leading
<1>3. ASSUME NEW c \in Callers, LeaderStep(c), ShutdownStep,
             ~(AllWorkersLeft(c) \/ GraceTimeout(c) \/ Finish(c))
      PROVE  VerdictInv'
  <2>1. \E from, to \in Leading \ {"finish"} : Move(c, from, to)
    BY <1>3 DEF LeaderStep, Announce, DispatcherGone, CloseQueue, ForceWorkers, DropQueued,
       QueueDropped, Leading
  <2>2. UNCHANGED <<result, drained, shutdownStarted, shutdownDone, shutdownErr, reportedDropped>>
    BY <1>3 DEF LeaderStep, Announce, DispatcherGone, CloseQueue, ForceWorkers, DropQueued,
       QueueDropped, calls, verdict, waits
  <2>3. ~shutdownDone
    BY <2>1, Moved DEF LeaderInv
  <2> QED
    BY <2>1, <2>2, <2>3, Moved DEF VerdictInv
<1>4. ASSUME NEW c \in Callers, AllWorkersLeft(c) \/ GraceTimeout(c)
      PROVE  VerdictInv'
  <2>1. \E from \in Leading \ {"finish"} : Move(c, from, "finish")
    BY <1>4 DEF AllWorkersLeft, GraceTimeout, Leading
  <2>2. /\ UNCHANGED <<result, shutdownStarted, shutdownDone>>
        /\ \/ drained' = TRUE /\ UNCHANGED shutdownErr
           \/ shutdownErr' = "ctxErr" /\ UNCHANGED drained
    BY <1>4 DEF AllWorkersLeft, GraceTimeout, calls, verdict, waits
  <2>3. /\ ~shutdownDone /\ shutdownStarted /\ ~drained /\ shutdownErr = "nil"
        /\ \A d \in Callers : d # c => shut'[d] \notin Leading
    BY <2>1, Moved DEF LeaderInv, VerdictInv, Leading
  <2> QED
    BY <2>1, <2>2, <2>3, Moved DEF VerdictInv, Leading
<1>5. ASSUME NEW c \in Callers, FollowerStep(c)
      PROVE  VerdictInv'
  <2>1. UNCHANGED <<drained, shutdownStarted, shutdownDone, shutdownErr, reportedDropped, jobsDropped>>
    BY <1>5, FollowerProceeds DEF verdict, waits, dropFrame
  <2>2. /\ \A d \in Callers : shut'[d] \in Leading => shut'[d] = shut[d]
        /\ \A d \in Callers : d # c => result'[d] = result[d]
    BY <1>5, FollowerProceeds DEF Leading
  <2>3. \/ shutdownDone /\ result' = [result EXCEPT ![c] = shutdownErr]
        \/ result' = [result EXCEPT ![c] = "ownCtxErr"]
        \/ result' = [result EXCEPT ![c] = result[c]]
    BY <1>5 DEF FollowerStep, FindDone, StopAwaiting
  <2>4. \/ shutdownDone /\ result'[c] = shutdownErr
        \/ result'[c] \in {"ownCtxErr", result[c]}
    BY <2>3 DEF TypeOK, ShutdownTypeOK
  <2> QED
    BY <2>1, <2>2, <2>4 DEF VerdictInv, Leading
<1>6. CASE \/ \E c \in Callers : CallerCtxEnds(c)
           \/ WatchWorkers \/ DetachLater
  BY <1>6 DEF CallerCtxEnds, WatchWorkers, DetachLater, VerdictInv, calls, verdict, waits, dropFrame
<1> QED
  BY <1>1, <1>2, <1>3, <1>4, <1>5, <1>6, VerdictKeptByFinish DEF ShutdownStep, LeaderStep

\* shutdownErr is written once, with the count of the drops there have been by then.
THEOREM VerdictKept == Spec => []VerdictInv
<1>1. Init => VerdictInv
  BY DEF Init, VerdictInv, Leading
<1>2. TypeOK /\ LeaderInv /\ OrderInv /\ ExitInv /\ VerdictInv /\ [Next]_vars => VerdictInv'
  BY VerdictInvStep
<1> QED
  BY <1>1, <1>2, TypesKept, LeaderKept, OrderKept, ExitKept, PTL DEF Spec

\* All calls of Shutdown that wait for its end return the same error, the one
\* of the call that led, whatever their number and however they overtake
\* each other; only a call whose own context ended returns another.
THEOREM AllResultsAgree == Spec => []ResultsAgree
<1>1. VerdictInv => ResultsAgree
  BY DEF VerdictInv, ResultsAgree
<1> QED
  BY <1>1, VerdictKept, PTL

\* The Dropped that Shutdown reports is the number of tasks ever dropped, if it
\* saw all workers exit: no drop is counted after it was read.
THEOREM DroppedIsExact == Spec => []DroppedExact
<1>1. VerdictInv /\ CountInv => DroppedExact
  BY DEF VerdictInv, CountInv, Dropped, DroppedExact
<1> QED
  BY <1>1, VerdictKept, CountKept, PTL

-----------------------------------------------------------------------------
(***************************************************************************)
(* The recorder. It is detached when neither workers nor dispatcher can    *)
(* report any more; a submission that was accepted has reported before the *)
(* queue was closed, as the close waits for its lock.                      *)
(***************************************************************************)
RecorderInv ==
  /\ queueClosed => \A t \in Tasks : call[t] = "reporting" => answer[t] # "nil"
  /\ JobEventsBeforeDetach

LEMMA RecorderSubmission ==
  ASSUME TypeOK, OrderInv, ExitInv, RecorderInv,
         NEW t \in Tasks, SubmitStep(t) \/ SubmitCtxEnds(t)
  PROVE  RecorderInv'
<1>1. UNCHANGED queueClosed
  BY SubmissionFrame
<1>2. detached => queueClosed
  BY DEF ExitInv, OrderInv
<1>3. ASSUME queueClosed, NEW s \in Tasks, call'[s] = "reporting"
      PROVE  answer'[s] # "nil"
  <2>1. CASE s # t
    <3>1. call'[s] = call[s] /\ answer'[s] = answer[s]
      BY <2>1 DEF SubmitStep, SubmitCtxEnds, RefuseNil, Enter, RejectAtEntry, PassChecks,
         SendAtOnce, FindFull, SendAfterWait, GiveUp, ReportSubmit, Accept, Reject, TypeOK,
         SubmitTypeOK
    <3> QED
      BY <1>3, <3>1 DEF RecorderInv
  <2>2. CASE s = t
    BY <1>3, <2>2 DEF SubmitStep, SubmitCtxEnds, RefuseNil, Enter, RejectAtEntry, PassChecks,
       SendAtOnce, FindFull, SendAfterWait, GiveUp, ReportSubmit, Accept, Reject, DoneReason,
       TypeOK, SubmitTypeOK, RecorderInv
  <2> QED
    BY <2>1, <2>2
<1>4. CASE ReportSubmit(t)
  <2>1. detached => answer[t] # "nil"
    BY <1>2, <1>4 DEF ReportSubmit, RecorderInv
  <2> QED
    BY <1>1, <1>3, <1>4, <2>1 DEF ReportSubmit, Report, RecorderInv, JobEventsBeforeDetach
<1>5. CASE ~ReportSubmit(t)
  <2>1. UNCHANGED late
    BY <1>5 DEF SubmitStep, SubmitCtxEnds, RefuseNil, Enter, RejectAtEntry, PassChecks,
       SendAtOnce, FindFull, SendAfterWait, GiveUp, Accept, Reject
  <2> QED
    BY <1>1, <1>3, <2>1 DEF RecorderInv, JobEventsBeforeDetach
<1> QED
  BY <1>4, <1>5

LEMMA RecorderInvStep ==
  ASSUME TypeOK, LeaderInv, OrderInv, ExitInv, RecorderInv, [Next]_vars
  PROVE  RecorderInv'
<1>1. detached => queueClosed /\ Live = {} /\ dispatcher = "stopped" /\ shutdownDone
  BY DEF ExitInv, OrderInv
<1>2. ASSUME NEW w \in Workers, WorkerStep(w) \/ TimerFires(w)
      PROVE  RecorderInv'
  <2>1. UNCHANGED <<call, answer, queueClosed>>
    BY <1>2, WorkerFrame DEF submitVars
  <2>2. ~detached
    BY <1>1, <1>2 DEF Live, WorkerStep, TimerFires, StopForced, StopClosed, Receive, StartJob,
       EndJob, DropTaken, ReportJob, NotifyJob, IdleCheck, Exit, At
  <2>3. UNCHANGED late
    BY <1>2, <2>2 DEF WorkerStep, TimerFires, StopForced, StopClosed, Receive, StartJob, EndJob,
       DropTaken, ReportJob, NotifyJob, IdleCheck, Exit, Report
  <2> QED
    BY <2>1, <2>3 DEF RecorderInv, JobEventsBeforeDetach
<1>3. CASE ScalingStep
  <2>1. UNCHANGED <<call, answer, queueClosed>>
    BY <1>3, ScalingFrame DEF submitVars, queueVars
  <2>2. UNCHANGED late
    BY <1>1, <1>3 DEF ScalingStep, ScaleUpStep, SpawnMinimum, checkScaling, DeclineScaleUp,
       PlanScaleUp, SpawnExtra, EndScaleUp, ReportScaleUp, CooldownEnds, StopDispatcher, Report
  <2> QED
    BY <2>1, <2>2 DEF RecorderInv, JobEventsBeforeDetach
<1>4. CASE ShutdownStep
  <2>1. UNCHANGED <<call, answer>>
    BY <1>4, ShutdownFrame DEF submitVars
  <2>2. UNCHANGED late
    <3>1. ASSUME NEW c \in Callers, DropQueued(c)
          PROVE  UNCHANGED late
      <4>1. ~detached
        BY <1>1, <3>1 DEF DropQueued, Move, LeaderInv, Leading
      <4> QED
        BY <3>1, <4>1 DEF DropQueued, Report
    <3> QED
      BY <1>4, <3>1, DrainFrame DEF dropFrame
  <2>3. queueClosed' => queueClosed \/ Readers = {}
    BY <1>4 DEF ShutdownStep, LeaderStep, FollowerStep, Call, CallerCtxEnds, Announce,
       DispatcherGone, CloseQueue, AllWorkersLeft, ForceWorkers, DropQueued, QueueDropped,
       GraceTimeout, Finish, EndWith, FindDone, StopAwaiting, WatchWorkers, DetachLater, signals
  <2> QED
    BY <2>1, <2>2, <2>3 DEF RecorderInv, JobEventsBeforeDetach, Readers
<1>5. CASE UNCHANGED vars
  BY <1>5 DEF vars, submitVars, queueVars, RecorderInv, JobEventsBeforeDetach
<1> QED
  BY <1>2, <1>3, <1>4, <1>5, NextCases, RecorderSubmission

\* A recorder that has been detached hears of no job and of no scaling any
\* more: of a late submission that was refused at most. It holds whether
\* Shutdown saw the workers exit or left them to a goroutine.
THEOREM NoJobEventsAfterDetach == Spec => []JobEventsBeforeDetach
<1>1. Init => RecorderInv
  BY DEF Init, RecorderInv, JobEventsBeforeDetach
<1>2. TypeOK /\ LeaderInv /\ OrderInv /\ ExitInv /\ RecorderInv /\ [Next]_vars => RecorderInv'
  BY RecorderInvStep
<1>3. RecorderInv => JobEventsBeforeDetach
  BY DEF RecorderInv
<1> QED
  BY <1>1, <1>2, <1>3, TypesKept, LeaderKept, OrderKept, ExitKept, PTL DEF Spec

-----------------------------------------------------------------------------
(***************************************************************************)
(* A nil from Shutdown. Two things have to be known of the workers: one    *)
(* that has a job which was started or dropped calls OnTaskDone before it  *)
(* leaves; and, if none ever retires, one only leaves an unforced pool     *)
(* after it found the closed queue empty.                                  *)
(***************************************************************************)
NoticeInv ==
  \A t \in Tasks : notices[t] < runs[t] + drops[t] =>
    \E w \in Workers : worker[w] \in Serving /\ job[w] = t

\* A step of one worker: it serves the job it has just started or dropped until
\* it has called OnTaskDone.
LEMMA NoticeWorker ==
  ASSUME TypeOK, FateInv, NoticeInv, NEW w \in Workers, WorkerStep(w) \/ TimerFires(w)
  PROVE  NoticeInv'
<1>1. \A v \in Workers : v # w => worker'[v] = worker[v] /\ job'[v] = job[v]
  BY DEF WorkerStep, TimerFires, StopForced, StopClosed, Receive, StartJob, EndJob, DropTaken,
     ReportJob, NotifyJob, IdleCheck, Exit, At, Goto, TypeOK, WorkerTypeOK
<1>2. CASE NotifyJob(w)
  <2>1. PICK j \in Tasks : j = job[w]
    BY <1>2 DEF NotifyJob, At, FateInv, Handling, Serving
  <2>2. /\ UNCHANGED <<runs, drops>> /\ runs[j] + drops[j] = 1
        /\ notices' = [notices EXCEPT ![j] = @ + 1]
    BY <1>2, <2>1 DEF NotifyJob, At, FateInv, Serving
  <2>3. /\ ~(notices'[j] < runs'[j] + drops'[j])
        /\ \A t \in Tasks : t # j => notices'[t] = notices[t]
    BY <2>2 DEF TypeOK, RecordTypeOK
  <2> QED
    BY <1>1, <2>1, <2>2, <2>3 DEF NoticeInv
<1>3. CASE StartJob(w) \/ DropTaken(w)
  <2>1. PICK j \in Tasks : j = job[w]
    BY <1>3 DEF StartJob, DropTaken, At, FateInv, Handling
  <2>2. /\ UNCHANGED <<notices, job>> /\ worker[w] = "taken" /\ worker'[w] \in Serving
        /\ \A t \in Tasks : t # j => runs'[t] = runs[t] /\ drops'[t] = drops[t]
    BY <1>3, <2>1 DEF StartJob, DropTaken, At, Goto, Serving, TypeOK, WorkerTypeOK, RecordTypeOK
  <2> QED
    BY <1>1, <2>1, <2>2 DEF NoticeInv, Serving
<1>4. CASE ~(StartJob(w) \/ DropTaken(w) \/ NotifyJob(w))
  <2>1. UNCHANGED fateVars
    BY <1>4 DEF WorkerStep, TimerFires, StopForced, StopClosed, Receive, EndJob, ReportJob,
       IdleCheck, Exit
  <2>2. worker[w] \in Serving => worker'[w] \in Serving /\ job'[w] = job[w]
    BY <1>4 DEF WorkerStep, TimerFires, StopForced, StopClosed, Receive, EndJob, ReportJob,
       IdleCheck, Exit, At, Goto, Serving, TypeOK, WorkerTypeOK
  <2> QED
    BY <1>1, <2>1, <2>2 DEF NoticeInv, fateVars
<1> QED
  BY <1>2, <1>3, <1>4

LEMMA NoticeInvStep ==
  ASSUME TypeOK, FateInv, NoticeInv, [Next]_vars
  PROVE  NoticeInv'
<1>1. ASSUME NEW t \in Tasks, SubmitStep(t) \/ SubmitCtxEnds(t)
      PROVE  NoticeInv'
  BY <1>1, SubmissionFrame DEF NoticeInv, workerVars, fateVars
<1>2. CASE ScalingStep
  <2>1. UNCHANGED <<job, fateVars>>
    BY <1>2, ScalingFrame DEF ScalingStep, ScaleUpStep, SpawnMinimum, checkScaling, DeclineScaleUp,
       PlanScaleUp, SpawnExtra, EndScaleUp, ReportScaleUp, CooldownEnds, StopDispatcher,
       SpawnWorker, workerVars
  <2>2. \/ UNCHANGED worker
        \/ \E w \in Workers : worker[w] = "none" /\ worker' = [worker EXCEPT ![w] = "loop"]
    BY <1>2 DEF ScalingStep, ScaleUpStep, SpawnMinimum, checkScaling, DeclineScaleUp, PlanScaleUp,
       SpawnExtra, EndScaleUp, ReportScaleUp, CooldownEnds, StopDispatcher, SpawnWorker, workerVars
  <2>3. \A w \in Workers : worker[w] \in Serving => worker'[w] \in Serving
    BY <2>2 DEF Serving, TypeOK, WorkerTypeOK
  <2> QED
    BY <2>1, <2>3 DEF NoticeInv, fateVars
<1>3. CASE ShutdownStep
  <2>1. UNCHANGED <<worker, job, runs>>
    BY <1>3, ShutdownFrame DEF workerVars
  <2>2. ASSUME NEW c \in Callers, DropQueued(c)
        PROVE  NoticeInv'
    <3>1. PICK h \in Tasks : h = Head(queue)
      BY <2>2, QueueTypes DEF DropQueued, TypeOK
    <3>2. \A t \in Tasks : notices'[t] < runs'[t] + drops'[t] => notices[t] < runs[t] + drops[t]
      BY <2>1, <2>2, <3>1 DEF DropQueued, TypeOK, RecordTypeOK
    <3> QED
      BY <2>1, <3>2 DEF NoticeInv
  <2> QED
    BY <1>3, <2>1, <2>2, DrainFrame DEF NoticeInv, dropFrame
<1>4. CASE UNCHANGED vars
  BY <1>4 DEF vars, workerVars, fateVars, NoticeInv
<1> QED
  BY <1>1, <1>2, <1>3, <1>4, NextCases, NoticeWorker

\* A job that was started or dropped and not yet notified is with a worker.
THEOREM NoticeKept == Spec => []NoticeInv
<1>1. Init => NoticeInv
  BY DEF Init, NoticeInv
<1>2. TypeOK /\ FateInv /\ NoticeInv /\ [Next]_vars => NoticeInv'
  BY NoticeInvStep
<1> QED
  BY <1>1, <1>2, TypesKept, FateKept, PTL DEF Spec

\* The workers of a pool of fixed size, while nobody forces them.
ServedInv ==
  /\ \A w \in Workers : worker[w] # "retiring"
  /\ \A w \in Workers : worker[w] \in {"reportDrop", "notifyDrop"} => forceStop
  /\ \/ forceStop
     \/ queueClosed /\ queue = <<>>
     \/ workerCount + booting >= MinWorkers /\ \A w \in Workers : worker[w] # "stopping"
  /\ \A c \in Callers : shut[c] = "grace" => queue = <<>>
  /\ drained => queue = <<>>

LEMMA ServedSubmission ==
  ASSUME OrderInv, ExitInv, ServedInv, NEW t \in Tasks, SubmitStep(t) \/ SubmitCtxEnds(t)
  PROVE  ServedInv'
<1>1. UNCHANGED <<queueClosed, workerVars, booting, shut, forceStop, drained>>
  BY SubmissionFrame DEF scalingVars, shutdownVars
<1>2. queueClosed => UNCHANGED queue
  BY DEF SubmitStep, SubmitCtxEnds, RefuseNil, Enter, RejectAtEntry, PassChecks, SendAtOnce,
     FindFull, SendAfterWait, GiveUp, ReportSubmit, Accept, Reject, queueVars
<1>3. /\ \A c \in Callers : shut[c] = "grace" => queueClosed
      /\ drained => queueClosed
  BY DEF OrderInv, ExitInv, Closing
<1> QED
  BY <1>1, <1>2, <1>3 DEF ServedInv, workerVars

LEMMA ServedWorker ==
  ASSUME MinWorkers = MaxWorkers, TypeOK, WorkersWithinMax, ServedInv,
         NEW w \in Workers, WorkerStep(w) \/ TimerFires(w)
  PROVE  ServedInv'
<1>1. UNCHANGED <<queueClosed, booting, shut, forceStop, drained>>
  BY WorkerFrame DEF scalingVars, shutdownVars
<1>2. queue = <<>> => queue' = <<>>
  BY DEF WorkerStep, TimerFires, StopForced, StopClosed, Receive, StartJob, EndJob, DropTaken,
     ReportJob, NotifyJob, IdleCheck, Exit
<1>3. \A v \in Workers : v # w => worker'[v] = worker[v]
  BY DEF WorkerStep, TimerFires, StopForced, StopClosed, Receive, StartJob, EndJob, DropTaken,
     ReportJob, NotifyJob, IdleCheck, Exit, At, Goto, TypeOK, WorkerTypeOK
<1>4. workerCount <= MinWorkers
  BY ConfigAssumption DEF WorkersWithinMax, ConfigAssumption, TypeOK, WorkerTypeOK, ScalingTypeOK
<1>5. worker'[w] # "retiring"
  <2>1. ~(workerCount > MinWorkers)
    BY <1>4, ConfigAssumption DEF ConfigAssumption, TypeOK, WorkerTypeOK
  <2> QED
    BY <2>1 DEF ServedInv, WorkerStep, TimerFires, StopForced, StopClosed, Receive, StartJob, EndJob, DropTaken,
       ReportJob, NotifyJob, IdleCheck, Exit, At, Goto, TypeOK, WorkerTypeOK
<1>6. worker'[w] \in {"reportDrop", "notifyDrop"} => forceStop
  BY DEF ServedInv, WorkerStep, TimerFires, StopForced, StopClosed, Receive, StartJob, EndJob, DropTaken,
     ReportJob, NotifyJob, IdleCheck, Exit, At, Goto, TypeOK, WorkerTypeOK
<1>7. worker'[w] = "stopping" => \/ forceStop
                                 \/ queueClosed /\ queue = <<>>
                                 \/ worker[w] = "stopping"
  BY DEF ServedInv, WorkerStep, TimerFires, StopForced, StopClosed, Receive, StartJob, EndJob, DropTaken,
     ReportJob, NotifyJob, IdleCheck, Exit, At, Goto, TypeOK, WorkerTypeOK
<1>8. UNCHANGED workerCount \/ worker[w] = "stopping"
  BY DEF ServedInv, WorkerStep, TimerFires, StopForced, StopClosed, Receive, StartJob, EndJob, DropTaken,
     ReportJob, NotifyJob, IdleCheck, Exit, At
<1> QED
  BY <1>1, <1>2, <1>3, <1>5, <1>6, <1>7, <1>8 DEF ServedInv

LEMMA ServedScaling ==
  ASSUME TypeOK, ServedInv, ScalingStep
  PROVE  ServedInv'
<1>1. UNCHANGED <<queue, queueClosed, shut, forceStop, drained>>
  BY ScalingFrame DEF queueVars, shutdownVars
<1>2. \/ UNCHANGED worker
      \/ \E w \in Workers : worker' = [worker EXCEPT ![w] = "loop"]
  BY DEF ScalingStep, ScaleUpStep, SpawnMinimum, checkScaling, DeclineScaleUp, PlanScaleUp,
     SpawnExtra, EndScaleUp, ReportScaleUp, CooldownEnds, StopDispatcher, SpawnWorker, workerVars
<1>3. \A v \in Workers : worker'[v] \in {worker[v], "loop"}
  BY <1>2 DEF TypeOK, WorkerTypeOK
<1>4. workerCount' + booting' >= workerCount + booting
  BY DEF ScalingStep, ScaleUpStep, SpawnMinimum, checkScaling, DeclineScaleUp, PlanScaleUp,
     SpawnExtra, EndScaleUp, ReportScaleUp, CooldownEnds, StopDispatcher, SpawnWorker, workerVars,
     TypeOK, WorkerTypeOK, ScalingTypeOK
<1>5. workerCount + booting >= MinWorkers => workerCount' + booting' >= MinWorkers
  <2>1. workerCount + booting \in Int /\ MinWorkers \in Int
    BY ConfigAssumption DEF ConfigAssumption, TypeOK, WorkerTypeOK, ScalingTypeOK
  <2>2. workerCount' + booting' \in Int
    BY <2>1, ScalingTypes DEF TypeOK, WorkerTypeOK, ScalingTypeOK
  <2> QED
    BY <1>4, <2>1, <2>2
<1> QED
  BY <1>1, <1>3, <1>5 DEF ServedInv

\* An unforced leader that sees workersDone finds the queue empty: there was a
\* worker for it to the end.
LEMMA DrainedIsEmpty ==
  ASSUME TypeOK, CountInv, OrderInv, ExitInv, ServedInv, NEW c \in Callers, AllWorkersLeft(c)
  PROVE  queue = <<>>
<1>1. workersDone /\ shut[c] \in {"wait", "grace"}
  BY DEF AllWorkersLeft, Move
<1>2. CASE shut[c] = "grace"
  BY <1>2 DEF ServedInv
<1>3. CASE shut[c] = "wait"
  <2>1. ~forceStop /\ booting = 0
    BY <1>1, <1>3 DEF OrderInv, ExitInv, Built
  <2>2. workerCount = 0
    BY <1>1, FS_EmptySet DEF ExitInv, CountInv
  <2>3. ~(workerCount + booting >= MinWorkers)
    BY <2>1, <2>2, ConfigAssumption DEF ConfigAssumption
  <2> QED
    BY <2>1, <2>3 DEF ServedInv
<1> QED
  BY <1>1, <1>2, <1>3

LEMMA ServedShutdown ==
  ASSUME TypeOK, CountInv, OrderInv, ExitInv, ServedInv, ShutdownStep
  PROVE  ServedInv'
<1>1. UNCHANGED <<worker, workerCount, booting>>
  BY ShutdownFrame DEF workerVars, scalingVars
<1>2. queue = <<>> => queue' = <<>>
  BY DrainFrame DEF DropQueued, dropFrame
<1>3. (queueClosed => queueClosed') /\ (forceStop => forceStop')
  BY DEF ShutdownStep, LeaderStep, FollowerStep, Call, CallerCtxEnds, Announce, DispatcherGone,
     CloseQueue, AllWorkersLeft, ForceWorkers, DropQueued, QueueDropped, GraceTimeout, Finish,
     EndWith, FindDone, StopAwaiting, WatchWorkers, DetachLater, signals
<1>4. drained' => drained \/ queue = <<>>
  <2>1. CASE \E c \in Callers : AllWorkersLeft(c)
    BY <2>1, DrainedIsEmpty
  <2>2. CASE ~ \E c \in Callers : AllWorkersLeft(c)
    BY <2>2 DEF ShutdownStep, LeaderStep, FollowerStep, Call, CallerCtxEnds, Announce,
       DispatcherGone, CloseQueue, ForceWorkers, DropQueued, QueueDropped, GraceTimeout, Finish,
       EndWith, FindDone, StopAwaiting, WatchWorkers, DetachLater, waits
  <2> QED
    BY <2>1, <2>2
<1>5. \A c \in Callers : shut'[c] = "grace" => shut[c] = "grace" \/ queue = <<>>
  <2>1. CASE \E c \in Callers : QueueDropped(c)
    BY <2>1 DEF QueueDropped
  <2>2. ASSUME NEW c \in Callers, LeaderStep(c), ~QueueDropped(c)
        PROVE  \A d \in Callers : shut'[d] = "grace" => shut[d] = "grace"
    <3>1. \E from, to \in ShutdownPlaces : to # "grace" /\ Move(c, from, to)
      BY <2>2 DEF LeaderStep, Announce, DispatcherGone, CloseQueue, AllWorkersLeft, ForceWorkers,
         DropQueued, GraceTimeout, Finish, EndWith, ShutdownPlaces
    <3> QED
      BY <3>1, Moved
  <2>3. ASSUME NEW c \in Callers, FollowerStep(c) \/ Call(c)
        PROVE  \A d \in Callers : shut'[d] = "grace" => shut[d] = "grace"
    <3>1. \E from, to \in ShutdownPlaces : to # "grace" /\ Move(c, from, to)
      BY <2>3 DEF FollowerStep, FindDone, StopAwaiting, Call, ShutdownPlaces
    <3> QED
      BY <3>1, Moved
  <2>4. CASE \/ \E c \in Callers : CallerCtxEnds(c)
             \/ WatchWorkers \/ DetachLater
    BY <2>4 DEF CallerCtxEnds, WatchWorkers, DetachLater
  <2> QED
    BY <2>1, <2>2, <2>3, <2>4 DEF ShutdownStep
<1> QED
  BY <1>1, <1>2, <1>3, <1>4, <1>5 DEF ServedInv

\* A pool of fixed size whose threshold is above zero.
THEOREM ServedKept ==
  ASSUME MinWorkers = MaxWorkers, ThresholdPct > 0
  PROVE  Spec => []ServedInv
<1>1. Init => ServedInv
  BY ConfigAssumption DEF Init, ServedInv, ConfigAssumption
<1>2. TypeOK /\ WorkersWithinMax /\ CountInv /\ OrderInv /\ ExitInv /\ ServedInv
        /\ [Next]_vars => ServedInv'
  <2> SUFFICES ASSUME TypeOK, WorkersWithinMax, CountInv, OrderInv, ExitInv, ServedInv, [Next]_vars
               PROVE  ServedInv'
    OBVIOUS
  <2>1. CASE UNCHANGED vars
    BY <2>1 DEF vars, queueVars, workerVars, scalingVars, shutdownVars, ServedInv
  <2> QED
    BY <2>1, NextCases, ServedSubmission, ServedWorker, ServedScaling, ServedShutdown
<1> QED
  BY <1>1, <1>2, TypesKept, NeverTooManyWorkers, CountKept, OrderKept, ExitKept, PTL DEF Spec

\* What a nil from Shutdown says of any pool, also of one whose workers retire: a
\* task that was accepted has been run and notified, or it is still queued and
\* nothing has been done to it. None is dropped or half done.
RanOrQueued(t) ==
  /\ drops[t] = 0
  /\ \/ ~Queued(t) /\ runs[t] = 1 /\ notices[t] = 1
     \/ Queued(t) /\ runs[t] = 0 /\ notices[t] = 0

LEMMA NilLeaves ==
  ASSUME TypeOK, FateInv, CountInv, ExitInv, VerdictInv, NoticeInv,
         NEW c \in Callers, result[c] = "nil",
         NEW t \in Tasks, answer[t] = "nil"
  PROVE  drained /\ RanOrQueued(t)
<1>1. drained /\ jobsDropped = 0
  BY DEF VerdictInv, TypeOK, RecordTypeOK
<1>2. drops[t] = 0
  <2>1. Dropped = {}
    BY <1>1, FS_EmptySet DEF CountInv
  <2> QED
    BY <2>1 DEF Dropped, TypeOK, RecordTypeOK
<1>3. \A w \in Workers : worker[w] = "none"
  BY <1>1 DEF ExitInv, Live
<1>4. ~Held(t)
  BY <1>3 DEF Held, HeldBy
<1>5. \/ ~Queued(t) /\ runs[t] = 1
      \/ Queued(t) /\ runs[t] = 0
  BY <1>2, <1>4 DEF FateInv, OnePlace
<1>6. ~(notices[t] < runs[t] + drops[t])
  BY <1>3 DEF NoticeInv, Serving
<1> QED
  BY <1>1, <1>2, <1>5, <1>6 DEF RanOrQueued, FateInv, OneNotice, TypeOK, RecordTypeOK

\* However the workers of a pool retire, a Shutdown that returns nil has left an
\* accepted job undone only by leaving it in the queue.
THEOREM NilLosesOnlyQueued ==
  Spec => [](\A c \in Callers : result[c] = "nil" =>
               \A t \in Tasks : answer[t] = "nil" => RanOrQueued(t))
<1>1. TypeOK /\ FateInv /\ CountInv /\ ExitInv /\ VerdictInv /\ NoticeInv =>
        \A c \in Callers : result[c] = "nil" =>
          \A t \in Tasks : answer[t] = "nil" => RanOrQueued(t)
  BY NilLeaves
<1> QED
  BY <1>1, TypesKept, FateKept, CountKept, ExitKept, VerdictKept, NoticeKept, PTL

\* If Shutdown returns nil every accepted job has been run, and its OnTaskDone
\* called. It is proved for MinWorkers = MaxWorkers: otherwise the last workers
\* may retire together (run AbandonedJobs).
THEOREM NilSaysAllRan ==
  ASSUME MinWorkers = MaxWorkers, ThresholdPct > 0
  PROVE  Spec => []NilMeansAllRan
<1>1. TypeOK /\ FateInv /\ CountInv /\ ExitInv /\ VerdictInv /\ NoticeInv /\ ServedInv
      => NilMeansAllRan
  <2> SUFFICES ASSUME TypeOK, FateInv, CountInv, ExitInv, VerdictInv, NoticeInv, ServedInv,
                      NEW c \in Callers, result[c] = "nil",
                      NEW t \in Tasks, answer[t] = "nil"
               PROVE  runs[t] = 1 /\ notices[t] = 1
    BY DEF NilMeansAllRan
  <2>1. drained /\ RanOrQueued(t)
    BY NilLeaves
  <2>2. ~Queued(t)
    BY <2>1 DEF ServedInv, Queued, In
  <2> QED
    BY <2>1, <2>2 DEF RanOrQueued
<1> QED
  BY <1>1, TypesKept, FateKept, CountKept, ExitKept, VerdictKept, NoticeKept, ServedKept, PTL
-----------------------------------------------------------------------------
(***************************************************************************)
(* Nobody is stuck. What each wait in Shutdown, in submit and in the       *)
(* workers counts on: that a Shutdown that was started has a leader until  *)
(* it is done, that the leader has sent its signals before it waits, and   *)
(* that a forced one leaves no job in the queue.                           *)
(***************************************************************************)
WakeInv ==
  /\ shutdownStarted => shutdownDone \/ \E c \in Callers : shut[c] \in Leading
  /\ \A c \in Callers : shut[c] \in Leading \ {"won"} => closing /\ dispatcherCtx = "done"
  /\ shutdownDone => closing
  /\ forceStop => queue = <<>> \/ \E c \in Callers : shut[c] = "drop"
  /\ shutdownDone => detached \/ detachPending

\* No one else sends the signals, and a closed queue does not grow.
LEMMA OutsideWake ==
  ASSUME TypeOK, OrderInv, WakeInv, [Next]_vars, ~ShutdownStep
  PROVE  WakeInv'
<1>1. UNCHANGED <<queueClosed, shutdownVars>>
  BY OutsideShutdown
<1>2. queueClosed /\ queue = <<>> => queue' = <<>>
  <2>1. ASSUME NEW t \in Tasks, SubmitStep(t) \/ SubmitCtxEnds(t), queueClosed
        PROVE  queue' = queue
    BY <2>1 DEF SubmitStep, SubmitCtxEnds, RefuseNil, Enter, RejectAtEntry, Reject,
       PassChecks, SendAtOnce, FindFull, SendAfterWait, Accept, GiveUp, ReportSubmit, queueVars
  <2>2. ASSUME NEW w \in Workers, WorkerStep(w) \/ TimerFires(w), queue = <<>>
        PROVE  queue' = queue
    BY <2>2 DEF WorkerStep, TimerFires, StopForced, StopClosed, Receive, StartJob, EndJob,
       DropTaken, ReportJob, NotifyJob, IdleCheck, Exit
  <2>3. ScalingStep => queue' = queue
    BY ScalingFrame DEF queueVars
  <2>4. UNCHANGED vars => queue' = queue
    BY DEF vars, queueVars
  <2> QED
    BY <2>1, <2>2, <2>3, <2>4, NextCases
<1> QED
  BY <1>1, <1>2 DEF WakeInv, OrderInv, shutdownVars

LEMMA WakeInvStep ==
  ASSUME TypeOK, LeaderInv, OrderInv, WakeInv, [Next]_vars
  PROVE  WakeInv'
<1> USE DEF WakeInv
<1>1. CASE ~ShutdownStep
  BY <1>1, OutsideWake
<1>2. ASSUME NEW c \in Callers, Call(c)
      PROVE  WakeInv'
  <2>1. /\ shutdownStarted' = TRUE
        /\ UNCHANGED <<closing, dispatcherCtx, forceStop, queue, shutdownDone, detached, detachPending>>
    BY <1>2 DEF Call, signals, verdict, dropFrame
  <2>2. \/ Move(c, "new", "check") /\ shutdownStarted
        \/ Move(c, "new", "won")
    BY <1>2 DEF Call
  <2> QED
    BY <2>1, <2>2, Moved DEF Leading
<1>3. ASSUME NEW c \in Callers, Announce(c)
      PROVE  WakeInv'
  <2>1. /\ Move(c, "won", "dispatcher") /\ closing' /\ dispatcherCtx' = "done"
        /\ UNCHANGED <<shutdownStarted, forceStop, queue, shutdownDone, detached, detachPending>>
    BY <1>3 DEF Announce, verdict, dropFrame
  <2> QED
    BY <2>1, Moved DEF Leading
<1>4. ASSUME NEW c \in Callers, DispatcherGone(c) \/ CloseQueue(c) \/ AllWorkersLeft(c)
                                \/ GraceTimeout(c)
      PROVE  WakeInv'
  <2>1. UNCHANGED <<shutdownStarted, closing, dispatcherCtx, forceStop, queue, shutdownDone,
                    detached, detachPending>>
    BY <1>4 DEF DispatcherGone, CloseQueue, AllWorkersLeft, GraceTimeout, signals, verdict, dropFrame
  <2>2. \E from \in Leading \ {"won", "drop"}, to \in Leading \ {"won"} : Move(c, from, to)
    BY <1>4 DEF DispatcherGone, CloseQueue, AllWorkersLeft, GraceTimeout, Leading
  <2> QED
    BY <2>1, <2>2, Moved
<1>5. ASSUME NEW c \in Callers, ForceWorkers(c)
      PROVE  WakeInv'
  <2>1. /\ Move(c, "wait", "drop")
        /\ UNCHANGED <<shutdownStarted, closing, dispatcherCtx, shutdownDone, detached, detachPending>>
    BY <1>5 DEF ForceWorkers, verdict
  <2> QED
    BY <2>1, Moved DEF Leading
<1>6. ASSUME NEW c \in Callers, DropQueued(c) \/ QueueDropped(c)
      PROVE  WakeInv'
  <2>1. UNCHANGED <<shutdownStarted, closing, dispatcherCtx, forceStop, shutdownDone,
                    detached, detachPending>>
    BY <1>6 DEF DropQueued, QueueDropped, signals, verdict
  <2>2. \/ Move(c, "drop", "drop")
        \/ Move(c, "drop", "grace") /\ queue = <<>> /\ UNCHANGED queue
    BY <1>6 DEF DropQueued, QueueDropped, dropFrame
  <2> QED
    BY <2>1, <2>2, Moved DEF Leading
<1>7. ASSUME NEW c \in Callers, Finish(c)
      PROVE  WakeInv'
  <2>1. /\ Move(c, "finish", "returned") /\ shutdownDone' /\ detached' = drained /\ detachPending' = ~drained
        /\ UNCHANGED <<shutdownStarted, closing, dispatcherCtx, forceStop, queue>>
    BY <1>7 DEF Finish, EndWith, dropFrame
  <2> QED
    BY <2>1, Moved DEF Leading, TypeOK, ShutdownTypeOK
<1>8. ASSUME NEW c \in Callers, FollowerStep(c)
      PROVE  WakeInv'
  BY <1>8, FollowerProceeds DEF signals, verdict, dropFrame, Leading
<1>9. ASSUME \/ \E c \in Callers : CallerCtxEnds(c)
             \/ WatchWorkers
      PROVE  WakeInv'
  BY <1>9 DEF CallerCtxEnds, WatchWorkers, signals, verdict, dropFrame
<1>10. CASE DetachLater
  BY <1>10 DEF DetachLater, signals, dropFrame
<1> QED
  BY <1>1, <1>2, <1>3, <1>4, <1>5, <1>6, <1>7, <1>8, <1>9, <1>10 DEF ShutdownStep, LeaderStep

\* Every signal somebody waits for in Shutdown is sent before the wait begins.
THEOREM WakeKept == Spec => []WakeInv
<1>1. Init => WakeInv
  BY DEF Init, WakeInv, Leading
<1>2. TypeOK /\ LeaderInv /\ OrderInv /\ WakeInv /\ [Next]_vars => WakeInv'
  BY WakeInvStep
<1> QED
  BY <1>1, <1>2, TypesKept, LeaderKept, OrderKept, PTL DEF Spec

\* The workers of a resting pool wait for a job, and there is none.
LEMMA RestingWorkers ==
  ASSUME TypeOK, Resting
  PROVE  /\ \A w \in Workers : worker[w] \in {"none", "loop"}
         /\ forceStop \/ queueClosed \/ queue # <<>> => Live = {}
<1>1. \A w \in Workers : ~WorkerReady(w) /\ worker[w] # "running"
  BY DEF Resting
<1>2. \A w \in Workers : worker[w] \in {"none", "loop"}
  BY <1>1 DEF WorkerReady, TypeOK, WorkerTypeOK
<1>3. ASSUME forceStop \/ queueClosed \/ queue # <<>>, NEW w \in Workers
      PROVE  worker[w] = "none"
  BY <1>1, <1>2, <1>3 DEF WorkerReady
<1> QED
  BY <1>2, <1>3 DEF Live

\* The leader waits for the dispatcher, for the submissions that hold the lock,
\* or for the workers, and none of them rests while it does.
LEMMA RestingLeader ==
  ASSUME TypeOK, OrderInv, WakeInv, NoSendOnClosedQueue, Resting, NEW c \in Callers
  PROVE  shut[c] \notin Leading
<1>1. ~ShutdownReady(c) /\ ~ScalingReady /\ \A t \in Tasks : ~SubmitReady(t)
  BY DEF Resting
<1>2. shut[c] \notin {"won", "finish"}
  BY <1>1 DEF ShutdownReady
<1>3. shut[c] # "dispatcher"
  BY <1>1 DEF ShutdownReady, ScalingReady, WakeInv, Leading, TypeOK, ScalingTypeOK
<1>4. ASSUME shut[c] = "lock" PROVE FALSE
  <2>1. ~queueClosed /\ closing
    BY <1>4 DEF OrderInv, WakeInv, Opening, Leading
  <2>2. \A t \in Tasks : t \notin Readers
    BY <1>1, <2>1 DEF SubmitReady, Readers
  <2>3. Readers = {}
    BY <2>2 DEF Readers
  <2> QED
    BY <1>1, <1>4, <2>3 DEF ShutdownReady
<1>5. queueClosed => workersDone
  BY RestingWorkers DEF Resting
<1>6. shut[c] \notin {"wait", "drop", "grace"}
  BY <1>1, <1>5 DEF ShutdownReady, OrderInv, Closing
<1> QED
  BY <1>2, <1>3, <1>4, <1>6 DEF Leading

\* A submission may wait for room, as long as there is none and Shutdown has not
\* been called.
LEMMA RestingSubmission ==
  ASSUME TypeOK, OrderInv, WakeInv, NoSendOnClosedQueue, Resting, NEW t \in Tasks
  PROVE  \/ call[t] = "returned"
         \/ call[t] = "waiting" /\ Len(queue) = QueueSize /\ ~shutdownStarted
<1>1. ~SubmitReady(t) /\ ~ScalingReady
  BY DEF Resting
<1>2. Built /\ ~WriterWaits
  <2>1. booting = 0
    BY <1>1 DEF ScalingReady, TypeOK, ScalingTypeOK
  <2>2. \A c \in Callers : shut[c] # "lock"
    BY RestingLeader DEF Leading
  <2> QED
    BY <2>1, <2>2 DEF Built, WriterWaits
<1>3. call[t] \in {"waiting", "returned"}
  BY <1>1, <1>2 DEF SubmitReady, NoSendOnClosedQueue, TypeOK, SubmitTypeOK
<1>4. ASSUME call[t] = "waiting"
      PROVE  Len(queue) = QueueSize /\ ~shutdownStarted
  <2>1. ~closing /\ ~(~queueClosed /\ Len(queue) < QueueSize)
    BY <1>1, <1>4 DEF SubmitReady
  <2>2. ~queueClosed
    BY <1>4 DEF NoSendOnClosedQueue
  <2>3. Len(queue) \in Nat /\ QueueSize \in Nat /\ Len(queue) <= QueueSize
    BY ConfigAssumption DEF ConfigAssumption, TypeOK, QueueTypeOK
  <2>4. ~shutdownStarted
    BY <2>1, RestingLeader DEF WakeInv
  <2> QED
    BY <2>1, <2>2, <2>3, <2>4
<1> QED
  BY <1>3, <1>4

\* NobodyStuck, for every pool: whatever the tasks, workers and calls of Shutdown
\* do, they never come to wait for each other.
THEOREM NobodyEverStuck == Spec => []NobodyStuck
<1>1. ASSUME TypeOK, FateInv, LeaderInv, OrderInv, NoticeInv, WakeInv,
             NoSendOnClosedQueue, Resting
      PROVE  NobodyStuck
  <2>1. \A t \in Tasks : \/ call[t] = "returned"
                         \/ call[t] = "waiting" /\ Len(queue) = QueueSize /\ ~shutdownStarted
    BY <1>1, RestingSubmission
  <2>2. ASSUME NEW t \in Tasks, answer[t] = "nil"
        PROVE  notices[t] = 1 \/ Queued(t)
    <3>1. \A w \in Workers : worker[w] \in {"none", "loop"}
      BY <1>1, RestingWorkers
    <3>2. ~Held(t) /\ ~(notices[t] < runs[t] + drops[t])
      BY <1>1, <3>1 DEF Held, HeldBy, NoticeInv, Serving
    <3>3. Queued(t) \/ runs[t] + drops[t] = 1
      BY <1>1, <2>2, <3>2 DEF FateInv, OnePlace
    <3> QED
      BY <1>1, <3>2, <3>3 DEF FateInv, OneNotice, TypeOK, RecordTypeOK
  <2>3. queue # <<>> => Live = {} /\ ~forceStop
    BY <1>1, RestingWorkers, RestingLeader DEF WakeInv, Leading
  <2>4. shutdownStarted => shutdownDone
    BY <1>1, RestingLeader DEF WakeInv
  <2>5. ASSUME NEW c \in Callers
        PROVE  shut[c] \in {"new", "returned"}
    <3>1. shut[c] \notin Leading /\ ~ShutdownReady(c)
      BY <1>1, RestingLeader DEF Resting
    <3>2. shut[c] # "await"
      BY <1>1, <2>4, <3>1 DEF ShutdownReady, LeaderInv
    <3> QED
      BY <1>1, <3>1, <3>2 DEF ShutdownReady, Leading, TypeOK, ShutdownTypeOK, ShutdownPlaces
  <2>6. ASSUME shutdownStarted
        PROVE  shutdownDone /\ Live = {} /\ detached
    <3>1. shutdownDone /\ queueClosed
      BY <1>1, <2>4, <2>6 DEF OrderInv
    <3>2. Live = {} /\ workersDone
      BY <1>1, <3>1, RestingWorkers DEF Resting
    <3> QED
      BY <1>1, <3>1, <3>2 DEF WakeInv, Resting
  <2> QED
    BY <2>1, <2>2, <2>3, <2>5, <2>6 DEF NobodyStuck
<1>2. /\ TypeOK /\ FateInv /\ LeaderInv /\ OrderInv /\ NoticeInv /\ WakeInv
      /\ NoSendOnClosedQueue
      => NobodyStuck
  BY <1>1 DEF NobodyStuck
<1> QED
  BY <1>2, TypesKept, FateKept, LeaderKept, OrderKept, NoticeKept, WakeKept,
     NeverSendsOnClosedQueue, PTL

\* A pool of fixed size is not stuck in that one way either: when it rests every
\* submission has returned, and every accepted task has been notified.
THEOREM FixedPoolServesAll ==
  ASSUME MinWorkers = MaxWorkers, ThresholdPct > 0
  PROVE  Spec => [](Resting => /\ queue = <<>>
                               /\ \A t \in Tasks : call[t] = "returned"
                               /\ \A t \in Tasks : answer[t] = "nil" => notices[t] = 1)
<1>1. ASSUME TypeOK, CountInv, ServedInv, NobodyStuck, Resting
      PROVE  /\ queue = <<>>
             /\ \A t \in Tasks : call[t] = "returned"
             /\ \A t \in Tasks : answer[t] = "nil" => notices[t] = 1
  <2>1. ASSUME queue # <<>> PROVE FALSE
    <3>1. Live = {} /\ ~forceStop /\ booting = 0
      BY <1>1, <2>1 DEF NobodyStuck, Resting, ScalingReady, TypeOK, ScalingTypeOK
    <3>2. workerCount = 0
      BY <1>1, <3>1, FS_EmptySet DEF CountInv
    <3> QED
      BY <1>1, <2>1, <3>1, <3>2, ConfigAssumption DEF ServedInv, ConfigAssumption
  <2>2. Len(queue) # QueueSize
    BY <2>1, ConfigAssumption DEF ConfigAssumption
  <2>3. \A t \in Tasks : ~Queued(t)
    BY <2>1 DEF Queued, In
  <2> QED
    BY <1>1, <2>1, <2>2, <2>3 DEF NobodyStuck
<1>2. TypeOK /\ CountInv /\ ServedInv /\ NobodyStuck =>
        (Resting => /\ queue = <<>>
                    /\ \A t \in Tasks : call[t] = "returned"
                    /\ \A t \in Tasks : answer[t] = "nil" => notices[t] = 1)
  BY <1>1
<1> QED
  BY <1>2, TypesKept, CountKept, ServedKept, NobodyEverStuck, PTL
=============================================================================
