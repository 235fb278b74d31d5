------------------------------- MODULE Metrics -------------------------------
(***************************************************************************)
(* The metrics of a pool (metrics.go): counters that goroutines update one *)
(* after the other, averages computed from two of them, and the way of an  *)
(* event to the recorder.                                                  *)
(*                                                                         *)
(* An event is one call of a method record... of its pool's metrics. It    *)
(* runs on the goroutine of a submission, a worker or the dispatcher, so   *)
(* the steps of different events interleave.                               *)
(***************************************************************************)
EXTENDS Integers, FiniteSets

CONSTANTS Pools, Events, NoPool

EventCalls == {"submitted", "rejected", "done", "dropped", "scaleUp"}

ASSUME EventsAssumption ==
  /\ IsFiniteSet(Events) /\ NoPool \notin Pools
  /\ \A e \in Events : /\ e.pool \in Pools /\ e.call \in EventCalls
                       /\ e.failed \in BOOLEAN /\ e.attempts \in Nat \ {0}
                       /\ e.latency \in Nat /\ e.wait \in Nat

VARIABLES
  backend,    \* the kind of recorder the pools are given
  stage,      \* stage[e]: the next step of the call
  counters,   \* counters[p]: the counters of the pool's metrics
  detached,   \* detached[p]
  reading     \* the average being read: its pool, and the sum already loaded

Backends == {"none", "plain", "prom", "otel"}

Stages == {"new", "latency", "wait", "failed", "retried", "attempts",
           "test", "report", "inside", "over"}

CounterNames ==
  {"processed", "failed", "rejected", "dropped", "retried", "attempts", "latency", "wait"}

NotReading == [pool |-> NoPool, total |-> 0]

MetricsInit ==
  /\ backend \in Backends
  /\ stage = [e \in Events |-> "new"]
  /\ counters = [p \in Pools |-> [c \in CounterNames |-> 0]]
  /\ detached = [p \in Pools |-> FALSE]
  /\ reading = NotReading

MetricsTypeOK ==
  /\ backend \in Backends
  /\ stage \in [Events -> Stages]
  /\ counters \in [Pools -> [CounterNames -> Nat]]
  /\ detached \in [Pools -> BOOLEAN]
  /\ reading \in [pool : Pools \union {NoPool}, total : Nat]

-----------------------------------------------------------------------------
Goto(e, s) == stage' = [stage EXCEPT ![e] = s]

\* One atomic addition.
Add(e, from, counter, n, to) ==
  /\ stage[e] = from
  /\ counters' = [counters EXCEPT ![e.pool][counter] = @ + n]
  /\ Goto(e, to)
  /\ UNCHANGED <<backend, detached, reading>>

Retries(e) == e.attempts - 1

\* recordJobSubmitted and recordScaleUp count nothing.
BeginEvent(e) ==
  /\ stage[e] = "new" /\ e.call \in {"submitted", "scaleUp"}
  /\ Goto(e, "test")
  /\ UNCHANGED <<backend, counters, detached, reading>>

CountRejected(e) == e.call = "rejected" /\ Add(e, "new", "rejected", 1, "test")
CountDropped(e) == e.call = "dropped" /\ Add(e, "new", "dropped", 1, "test")

(***************************************************************************)
(* recordJobDone: the sums first grow when the job is counted already.     *)
(***************************************************************************)
\* Mutant of CountProcessed: a job that failed is counted as failed only.
CountProcessedOnSuccess(e) ==
  e.call = "done" /\ Add(e, "new", "processed", IF e.failed THEN 0 ELSE 1, "latency")

CountProcessed(e) == e.call = "done" /\ Add(e, "new", "processed", 1, "latency")

AddLatency(e) == Add(e, "latency", "latency", e.latency, "wait")

AddWait(e) == Add(e, "wait", "wait", e.wait, IF e.failed THEN "failed" ELSE "retried")

CountFailed(e) == Add(e, "failed", "failed", 1, "retried")

CountRetried(e) ==
  IF Retries(e) > 0
  THEN Add(e, "retried", "retried", 1, "attempts")
  ELSE Add(e, "retried", "retried", 0, "test")

AddRetries(e) == Add(e, "attempts", "attempts", Retries(e), "test")

-----------------------------------------------------------------------------
\* The recorder is called unless it is detached; the call itself is later.
TestDetached(e) ==
  /\ stage[e] = "test"
  /\ Goto(e, IF backend # "none" /\ ~detached[e.pool] THEN "report" ELSE "over")
  /\ UNCHANGED <<backend, counters, detached, reading>>

-----------------------------------------------------------------------------
average(total, n) == IF n = 0 THEN 0 ELSE total \div n

\* AvgJobLatency and AvgQueueWait load the sum first, the count later.
LoadSum(p, sum) ==
  /\ reading = NotReading
  /\ reading' = [pool |-> p, total |-> counters[p][sum]]
  /\ UNCHANGED <<backend, stage, counters, detached>>

\* What the reader returns if it loads the count now.
Returned == average(reading.total, counters[reading.pool]["processed"])

LoadCount ==
  /\ reading # NotReading
  /\ reading' = NotReading
  /\ UNCHANGED <<backend, stage, counters, detached>>
=============================================================================
