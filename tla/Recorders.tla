------------------------------ MODULE Recorders ------------------------------
(***************************************************************************)
(* The recorders behind the metrics: promrecorder, otelrecorder, and one   *)
(* without Attach that a user wrote. New attaches a pool to its recorder,  *)
(* Shutdown detaches it; pools may use one recorder after the other.       *)
(***************************************************************************)
EXTENDS Metrics

CONSTANTS
  Recs,         \* recorders
  RecorderOf,   \* RecorderOf[p]: the recorder given to New
  NameOf,       \* NameOf[p]: the name of the pool, a label of its collectors
  Collectors    \* promrecorder registers the collectors 1..Collectors of a pool

ASSUME RecordersAssumption ==
  RecorderOf \in [Pools -> Recs] /\ Collectors \in Nat \ {0}

VARIABLES
  phase,        \* phase[p]: where New or Shutdown is with the recorder
  todo,         \* todo[p]: what its loop has still to register or unregister
  attached,     \* attached[r]
  state,        \* state[r]: the pool whose series r records to, NoPool when nil
  registered,   \* what the registry, or the meter provider, holds
  loaded,       \* loaded[e]: the state the event loaded
  exported      \* exported[p]: the events recorded in the series of p

attachVars == <<phase, todo, attached, state, registered>>
eventVars == <<stage, loaded, exported>>
metricVars == <<backend, counters, detached, reading>>

Phases == {"new", "register", "rollback", "free", "store", "running",
           "swap", "unregister", "release", "failed", "gone"}

\* What p registers: the collectors of its name, which are the same to a
\* registry whoever made them, or one callback, which nothing conflicts with.
Parts == IF backend = "prom" THEN 1..Collectors ELSE {1}
Id(p, i) == IF backend = "prom" THEN <<NameOf[p], i>> ELSE <<p, i>>

IsAttacher == backend \in {"prom", "otel"}

RecordersInit ==
  /\ phase = [p \in Pools |-> "new"]
  /\ todo = [p \in Pools |-> {}]
  /\ attached = [r \in Recs |-> FALSE]
  /\ state = [r \in Recs |-> NoPool]
  /\ registered = {}
  /\ loaded = [e \in Events |-> NoPool]
  /\ exported = [p \in Pools |-> {}]

RecordersTypeOK ==
  /\ phase \in [Pools -> Phases]
  /\ todo \in [Pools -> SUBSET Parts]
  /\ attached \in [Recs -> BOOLEAN]
  /\ state \in [Recs -> Pools \union {NoPool}]
  /\ registered \subseteq [owner : Pools, part : Parts]
  /\ loaded \in [Events -> Pools \union {NoPool}]
  /\ \A e \in Events : stage[e] = "inside" => loaded[e] \in Pools
  /\ exported \in [Pools -> SUBSET Events]

-----------------------------------------------------------------------------
Enter(p, s) == phase' = [phase EXCEPT ![p] = s]

SetAttached(p, b) == attached' = [attached EXCEPT ![RecorderOf[p]] = b]

First(i, parts) == i \in parts /\ \A j \in parts : i <= j

\* One round of a loop over parts that goes on to s after the last.
Round(p, i, s) ==
  /\ First(i, todo[p])
  /\ todo' = [todo EXCEPT ![p] = @ \ {i}]
  /\ Enter(p, IF todo[p] = {i} THEN s ELSE phase[p])

Register(p, i) ==
  /\ Round(p, i, "store")
  /\ registered' = registered \union {[owner |-> p, part |-> i]}

\* A registry finds a collector by its description, not by its identity.
Unregister(p, i) == registered' = {c \in registered : Id(c.owner, c.part) # Id(p, i)}

Conflict(p, i) == \E c \in registered : Id(c.owner, c.part) = Id(p, i)

(***************************************************************************)
(* Attach                                                                  *)
(***************************************************************************)
\* New does not attach to what is no Attacher.
NoAttach(p) ==
  /\ phase[p] = "new" /\ ~IsAttacher
  /\ Enter(p, "running")
  /\ UNCHANGED <<todo, attached, state, registered, eventVars, metricVars>>

\* Mutant of Claim: attached is set without a look at it.
ClaimAnyway(p) ==
  /\ phase[p] = "new" /\ IsAttacher
  /\ SetAttached(p, TRUE) /\ Enter(p, "register") /\ todo' = [todo EXCEPT ![p] = Parts]
  /\ UNCHANGED <<state, registered, eventVars, metricVars>>

\* The compare-and-swap: a second pool is refused.
Claim(p) ==
  /\ phase[p] = "new" /\ IsAttacher
  /\ IF attached[RecorderOf[p]]
     THEN Enter(p, "failed") /\ UNCHANGED <<todo, attached>>
     ELSE SetAttached(p, TRUE) /\ Enter(p, "register") /\ todo' = [todo EXCEPT ![p] = Parts]
  /\ UNCHANGED <<state, registered, eventVars, metricVars>>

\* promrecorder registers one collector after the other, until one is refused.
PromRegister(p) ==
  /\ backend = "prom" /\ phase[p] = "register"
  /\ \E i \in Parts : Register(p, i) /\ ~Conflict(p, i)
  /\ UNCHANGED <<attached, state, eventVars, metricVars>>

\* Mutant of PromRefused: every collector is rolled back, not only those before.
PromRefusedRollingAll(p) ==
  /\ backend = "prom" /\ phase[p] = "register"
  /\ todo' = [todo EXCEPT ![p] = Parts]
  /\ Enter(p, "rollback")
  /\ UNCHANGED <<attached, state, registered, eventVars, metricVars>>

\* A conflict is one reason why a registry refuses; it may have others.
PromRefused(p) ==
  /\ backend = "prom" /\ phase[p] = "register"
  /\ todo' = [todo EXCEPT ![p] = Parts \ @]
  /\ Enter(p, IF todo[p] = Parts THEN "free" ELSE "rollback")
  /\ UNCHANGED <<attached, state, registered, eventVars, metricVars>>

\* Mutant of Rollback: the collectors registered so far stay.
RollbackNothing(p) ==
  /\ phase[p] = "rollback"
  /\ Enter(p, "free")
  /\ UNCHANGED <<todo, attached, state, registered, eventVars, metricVars>>

\* Those that were registered are unregistered again.
Rollback(p) ==
  /\ phase[p] = "rollback"
  /\ \E i \in Parts : Round(p, i, "free") /\ Unregister(p, i)
  /\ UNCHANGED <<attached, state, eventVars, metricVars>>

\* otelrecorder creates its instruments and registers a callback at the end.
OtelRegister(p) ==
  /\ backend = "otel" /\ phase[p] = "register"
  /\ \E i \in Parts : Register(p, i)
  /\ UNCHANGED <<attached, state, eventVars, metricVars>>

\* An error before the callback is registered leaves nothing to undo.
OtelRefused(p) ==
  /\ backend = "otel" /\ phase[p] = "register"
  /\ Enter(p, "free")
  /\ UNCHANGED <<todo, attached, state, registered, eventVars, metricVars>>

\* attached.Store(false), and the error fails New.
Free(p) ==
  /\ phase[p] = "free"
  /\ SetAttached(p, FALSE) /\ Enter(p, "failed")
  /\ UNCHANGED <<todo, state, registered, eventVars, metricVars>>

\* The state is stored, and New goes on to start the pool.
StoreState(p) ==
  /\ phase[p] = "store"
  /\ state' = [state EXCEPT ![RecorderOf[p]] = p]
  /\ Enter(p, "running")
  /\ UNCHANGED <<todo, attached, registered, eventVars, metricVars>>

-----------------------------------------------------------------------------
(***************************************************************************)
(* Detach                                                                  *)
(***************************************************************************)
SwapState(p) ==
  /\ phase[p] = "swap"
  /\ state' = [state EXCEPT ![RecorderOf[p]] = NoPool]
  /\ todo' = [todo EXCEPT ![p] = Parts]
  /\ Enter(p, "unregister")
  /\ UNCHANGED <<attached, registered, eventVars, metricVars>>

\* promrecorder unregisters its collectors in order, otelrecorder its callback.
UnregisterPart(p) ==
  /\ phase[p] = "unregister"
  /\ \E i \in Parts : Round(p, i, "release") /\ Unregister(p, i)
  /\ UNCHANGED <<attached, state, eventVars, metricVars>>

\* The recorder is free for another pool from here on.
Release(p) ==
  /\ phase[p] = "release"
  /\ SetAttached(p, FALSE) /\ Enter(p, "gone")
  /\ UNCHANGED <<todo, state, registered, eventVars, metricVars>>

-----------------------------------------------------------------------------
(***************************************************************************)
(* The events. Each loads the state once.                                  *)
(***************************************************************************)
\* Mutant of LoadState: the state is not compared with nil.
LoadStateUnchecked(e) ==
  /\ stage[e] = "report" /\ Goto(e, "inside")
  /\ loaded' = [loaded EXCEPT ![e] = IF IsAttacher THEN state[RecorderOf[e.pool]] ELSE e.pool]
  /\ UNCHANGED <<exported, attachVars, metricVars>>

\* A recorder that is no Attacher has no state and takes every event.
LoadState(e) ==
  /\ stage[e] = "report"
  /\ LET s == IF IsAttacher THEN state[RecorderOf[e.pool]] ELSE e.pool
     IN  /\ loaded' = [loaded EXCEPT ![e] = s]
         /\ Goto(e, IF s = NoPool THEN "over" ELSE "inside")
  /\ UNCHANGED <<exported, attachVars, metricVars>>

\* The series of the loaded state are counted up.
Record(e) ==
  /\ stage[e] = "inside" /\ Goto(e, "over")
  /\ exported' = [exported EXCEPT ![loaded[e]] = @ \union {e}]
  /\ UNCHANGED <<loaded, attachVars, metricVars>>

\* recoverRecorder: the goroutine goes on, the event is lost.
RecordPanics(e) ==
  /\ backend = "plain" /\ stage[e] = "inside" /\ Goto(e, "over")
  /\ UNCHANGED <<loaded, exported, attachVars, metricVars>>
=============================================================================
