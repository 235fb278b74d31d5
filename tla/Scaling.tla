------------------------------- MODULE Scaling -------------------------------
(***************************************************************************)
(* The goroutines that spawn workers: the caller of New, and the           *)
(* dispatcher that New has started before (pool.go).                       *)
(***************************************************************************)
EXTENDS PoolState

scalingFrame == <<submitVars, queueVars, shutdownVars, counterVars, fateVars>>

\* One turn of the loop of New.
SpawnMinimum ==
  /\ booting > 0
  /\ booting' = booting - 1
  /\ \E w \in Workers : SpawnWorker(w)
  /\ UNCHANGED <<dispatcher, toAdd, cooling, scalingFrame, late>>

\* A tick that finds the queue busy and room for workers. Any other tick
\* changes nothing.
checkScaling ==
  /\ dispatcher = "select"
  /\ Backlogged
  /\ workerCount < MaxWorkers
  /\ dispatcher' = "scale"
  /\ UNCHANGED <<booting, toAdd, cooling, workerVars, scalingFrame, late>>

\* The early returns of scaleUp, on a count read anew.
DeclineScaleUp ==
  /\ dispatcher = "scale"
  /\ cooling \/ workerCount >= MaxWorkers
  /\ dispatcher' = "select"
  /\ UNCHANGED <<booting, toAdd, cooling, workerVars, scalingFrame, late>>

\* Mutant of AddCount: a quarter of few workers is none.
AddQuarter(n) ==
  IF n \div 4 < MaxWorkers - n THEN n \div 4 ELSE MaxWorkers - n

\* A quarter more, at least one, and no more than MaxWorkers leaves room for.
AddCount(n) ==
  LET quarter == IF n \div 4 > 1 THEN n \div 4 ELSE 1
      room == MaxWorkers - n
  IN  IF quarter < room THEN quarter ELSE room

PlanScaleUp ==
  /\ dispatcher = "scale"
  /\ ~cooling /\ workerCount < MaxWorkers
  /\ toAdd' = AddCount(workerCount)
  /\ dispatcher' = "spawn"
  /\ UNCHANGED <<booting, cooling, workerVars, scalingFrame, late>>

SpawnExtra ==
  /\ dispatcher = "spawn" /\ toAdd > 0
  /\ toAdd' = toAdd - 1
  /\ \E w \in Workers : SpawnWorker(w)
  /\ UNCHANGED <<booting, dispatcher, cooling, scalingFrame, late>>

\* lastScaleUp is set, and recordScaleUp tests detached.
EndScaleUp ==
  /\ dispatcher = "spawn" /\ toAdd = 0
  /\ cooling' = TRUE
  /\ dispatcher' = IF detached THEN "select" ELSE "report"
  /\ UNCHANGED <<booting, toAdd, workerVars, scalingFrame, late>>

ReportScaleUp ==
  /\ dispatcher = "report"
  /\ Report("scaledUp")
  /\ dispatcher' = "select"
  /\ UNCHANGED <<booting, toAdd, cooling, workerVars, scalingFrame>>

\* scaleCooldown passes.
CooldownEnds ==
  /\ cooling
  /\ cooling' = FALSE
  /\ UNCHANGED <<booting, dispatcher, toAdd, workerVars, scalingFrame, late>>

\* The other case of the dispatcher's select.
StopDispatcher ==
  /\ dispatcher = "select" /\ dispatcherCtx = "done"
  /\ dispatcher' = "stopped"
  /\ UNCHANGED <<booting, toAdd, cooling, workerVars, scalingFrame, late>>

ScaleUpStep ==
  \/ DeclineScaleUp \/ PlanScaleUp \/ SpawnExtra \/ EndScaleUp \/ ReportScaleUp

ScalingStep ==
  SpawnMinimum \/ checkScaling \/ ScaleUpStep \/ CooldownEnds \/ StopDispatcher
=============================================================================
