--------------------------- MODULE ReportingProofs ---------------------------
(***************************************************************************)
(* Theorems about Reporting, for any pools, recorders, names and events.   *)
(***************************************************************************)
EXTENDS Reporting, TLAPS, FiniteSetTheorems

-----------------------------------------------------------------------------
(***************************************************************************)
(* Types                                                                   *)
(***************************************************************************)
LEMMA InitTypes == Init => TypeOK
BY EventsAssumption, RecordersAssumption
   DEF Init, MetricsInit, RecordersInit, TypeOK, MetricsTypeOK, RecordersTypeOK, NotReading,
       CounterNames, Stages, Phases, Parts

\* An addition of a number to a counter keeps the types.
LEMMA AddTypes ==
  ASSUME TypeOK, NEW e \in Events, NEW from, NEW counter \in CounterNames, NEW n \in Nat,
         NEW to \in Stages \ {"inside"}, Add(e, from, counter, n, to), UNCHANGED recorderVars
  PROVE  TypeOK'
<1>1. e.pool \in Pools BY EventsAssumption
<1>2. counters' \in [Pools -> [CounterNames -> Nat]]
  BY <1>1 DEF TypeOK, MetricsTypeOK, Add
<1> QED
  BY <1>2 DEF TypeOK, MetricsTypeOK, RecordersTypeOK, Add, Goto, recorderVars, attachVars, Parts

LEMMA CountingTypes ==
  ASSUME TypeOK, NEW e \in Events, Begin(e) \/ Count(e)
  PROVE  TypeOK'
<1> USE EventsAssumption
<1>1. CASE BeginEvent(e) /\ UNCHANGED recorderVars
  BY <1>1 DEF TypeOK, MetricsTypeOK, RecordersTypeOK, BeginEvent, Goto, recorderVars, attachVars,
              Parts, Stages
<1>2. CASE TestDetached(e) /\ UNCHANGED recorderVars
  BY <1>2 DEF TypeOK, MetricsTypeOK, RecordersTypeOK, TestDetached, Goto, recorderVars, attachVars,
              Parts, Stages
<1>3. CASE CountRejected(e) /\ UNCHANGED recorderVars
  BY <1>3, AddTypes DEF CountRejected, CounterNames, Stages
<1>4. CASE CountDropped(e) /\ UNCHANGED recorderVars
  BY <1>4, AddTypes DEF CountDropped, CounterNames, Stages
<1>5. CASE CountProcessed(e) /\ UNCHANGED recorderVars
  BY <1>5, AddTypes DEF CountProcessed, CounterNames, Stages
<1>6. CASE AddLatency(e) /\ UNCHANGED recorderVars
  BY <1>6, AddTypes DEF AddLatency, CounterNames, Stages
<1>7. CASE AddWait(e) /\ UNCHANGED recorderVars
  BY <1>7, AddTypes DEF AddWait, CounterNames, Stages
<1>8. CASE CountFailed(e) /\ UNCHANGED recorderVars
  BY <1>8, AddTypes DEF CountFailed, CounterNames, Stages
<1>9. CASE CountRetried(e) /\ UNCHANGED recorderVars
  BY <1>9, AddTypes DEF CountRetried, CounterNames, Stages
<1>10. CASE AddRetries(e) /\ UNCHANGED recorderVars
  BY <1>10, AddTypes DEF AddRetries, Retries, CounterNames, Stages
<1> QED BY <1>1, <1>2, <1>3, <1>4, <1>5, <1>6, <1>7, <1>8, <1>9, <1>10 DEF Begin, Count

LEMMA ReadingTypes ==
  ASSUME TypeOK, ReadAverage
  PROVE  TypeOK'
<1>1. reading' \in [pool : Pools \union {NoPool}, total : Nat]
  BY DEF ReadAverage, LoadCount, LoadSum, NotReading, TypeOK, MetricsTypeOK, CounterNames
<1> QED
  BY <1>1 DEF ReadAverage, LoadCount, LoadSum, TypeOK, MetricsTypeOK, RecordersTypeOK, recorderVars,
              attachVars, Parts

LEMMA ReportTypes ==
  ASSUME TypeOK, NEW e \in Events, LoadState(e) \/ Record(e) \/ RecordPanics(e)
  PROVE  TypeOK'
<1> USE EventsAssumption, RecordersAssumption
    DEF TypeOK, MetricsTypeOK, RecordersTypeOK, Goto, attachVars, metricVars, Parts, Stages
<1>1. CASE LoadState(e) BY <1>1 DEF LoadState
<1>2. CASE Record(e)
  <2>1. loaded[e] \in Pools BY <1>2 DEF Record
  <2>2. exported' \in [Pools -> SUBSET Events] BY <1>2, <2>1 DEF Record
  <2> QED BY <1>2, <2>2 DEF Record
<1>3. CASE RecordPanics(e) BY <1>3 DEF RecordPanics
<1> QED BY <1>1, <1>2, <1>3

\* A round of a loop over parts.
LEMMA RoundTypes ==
  ASSUME TypeOK, NEW p \in Pools, NEW i \in Parts, NEW s \in Phases, Round(p, i, s)
  PROVE  todo' \in [Pools -> SUBSET Parts] /\ phase' \in [Pools -> Phases]
BY DEF TypeOK, RecordersTypeOK, Round, Enter

LEMMA AttachTypes ==
  ASSUME TypeOK, NEW p \in Pools, AttachStep(p) \/ DetachStep(p)
  PROVE  TypeOK'
<1> USE RecordersAssumption
<1>1. Parts' = Parts
  BY DEF AttachStep, DetachStep, NoAttach, Claim, PromRegister, PromRefused, Rollback, OtelRegister,
         OtelRefused, Free, StoreState, StartDetach, SwapState, UnregisterPart, Release, metricVars,
         Parts
<1>2. CASE NoAttach(p) \/ Claim(p) \/ Free(p) \/ StoreState(p) \/ Release(p)
           \/ PromRefused(p) \/ OtelRefused(p)
  <2> USE <1>1 DEF TypeOK, MetricsTypeOK, RecordersTypeOK, Enter, SetAttached, eventVars,
                   metricVars, Phases
  <2>1. CASE NoAttach(p) BY <2>1 DEF NoAttach
  <2>2. CASE Claim(p)
    <3>1. RecorderOf[p] \in Recs OBVIOUS
    <3>2. CASE attached[RecorderOf[p]] BY <2>2, <3>2 DEF Claim
    <3>3. CASE ~attached[RecorderOf[p]]
      <4>1. attached' \in [Recs -> BOOLEAN] BY <2>2, <3>1, <3>3 DEF Claim
      <4>2. todo' \in [Pools -> SUBSET Parts] BY <2>2, <3>3 DEF Claim
      <4>3. phase' \in [Pools -> Phases] BY <2>2, <3>3 DEF Claim
      <4> HIDE DEF Phases, Enter, SetAttached
      <4> QED BY <2>2, <3>3, <4>1, <4>2, <4>3 DEF Claim
    <3> QED BY <3>2, <3>3
  <2>3. CASE Free(p) BY <2>3 DEF Free
  <2>4. CASE StoreState(p) BY <2>4 DEF StoreState
  <2>5. CASE Release(p) BY <2>5 DEF Release
  <2>6. CASE PromRefused(p) BY <2>6 DEF PromRefused
  <2>7. CASE OtelRefused(p) BY <2>7 DEF OtelRefused
  <2> QED BY <1>2, <2>1, <2>2, <2>3, <2>4, <2>5, <2>6, <2>7
<1>3. CASE StartDetach(p)
  BY <1>1, <1>3 DEF TypeOK, MetricsTypeOK, RecordersTypeOK, StartDetach, Enter, eventVars, Phases
<1>4. CASE SwapState(p)
  BY <1>1, <1>4 DEF TypeOK, MetricsTypeOK, RecordersTypeOK, SwapState, Enter, eventVars, metricVars,
       Phases
<1>5. CASE PromRegister(p) \/ OtelRegister(p)
  <2> PICK i \in Parts : Register(p, i) BY <1>5 DEF PromRegister, OtelRegister
  <2>1. todo' \in [Pools -> SUBSET Parts] /\ phase' \in [Pools -> Phases]
    BY RoundTypes DEF Register, Phases
  <2>2. registered' \subseteq [owner : Pools, part : Parts]
    BY DEF Register, TypeOK, RecordersTypeOK
  <2> QED
    BY <1>1, <1>5, <2>1, <2>2 DEF TypeOK, MetricsTypeOK, RecordersTypeOK, PromRegister,
         OtelRegister, eventVars, metricVars
<1>6. CASE Rollback(p) \/ UnregisterPart(p)
  <2> PICK i \in Parts : (Round(p, i, "free") \/ Round(p, i, "release")) /\ Unregister(p, i)
    BY <1>6 DEF Rollback, UnregisterPart
  <2>1. todo' \in [Pools -> SUBSET Parts] /\ phase' \in [Pools -> Phases]
    BY RoundTypes DEF Phases
  <2>2. registered' \subseteq [owner : Pools, part : Parts]
    BY DEF Unregister, TypeOK, RecordersTypeOK
  <2> QED
    BY <1>1, <1>6, <2>1, <2>2 DEF TypeOK, MetricsTypeOK, RecordersTypeOK, Rollback,
         UnregisterPart, eventVars, metricVars
<1> QED BY <1>2, <1>3, <1>4, <1>5, <1>6 DEF AttachStep, DetachStep

LEMMA NextTypes == TypeOK /\ [Next]_vars => TypeOK'
<1> SUFFICES ASSUME TypeOK, [Next]_vars PROVE TypeOK' OBVIOUS
<1>1. CASE UNCHANGED vars
  BY <1>1 DEF vars, attachVars, eventVars, metricVars, TypeOK, MetricsTypeOK, RecordersTypeOK, Parts
<1>2. ASSUME NEW p \in Pools, AttachStep(p) \/ DetachStep(p) PROVE TypeOK' BY <1>2, AttachTypes
<1>3. ASSUME NEW e \in Events, EventStep(e) PROVE TypeOK'
  BY <1>3, CountingTypes, ReportTypes DEF EventStep
<1>4. CASE ReadAverage BY <1>4, ReadingTypes
<1> QED BY <1>1, <1>2, <1>3, <1>4 DEF Next, Ended

\* Every variable keeps its type whatever pools, recorders and events there
\* are; in particular no event goes on with a nil state (LoadState).
THEOREM TypesKept == Spec => []TypeOK
<1>1. Init => TypeOK BY InitTypes
<1>2. TypeOK /\ [Next]_vars => TypeOK' BY NextTypes
<1> QED BY <1>1, <1>2, PTL DEF Spec

-----------------------------------------------------------------------------
(***************************************************************************)
(* Who has a recorder                                                      *)
(***************************************************************************)
HolderInv ==
  /\ \A p \in Pools : ~IsAttacher => phase[p] \in {"new", "running", "gone"}
  /\ \A p, q \in Pools : Holding(p) /\ Holding(q) /\ RecorderOf[p] = RecorderOf[q] => p = q
  /\ \A r \in Recs : attached[r] <=> \E p \in Pools : RecorderOf[p] = r /\ Holding(p)
  /\ \A r \in Recs : state[r] # NoPool =>
       IsAttacher /\ RecorderOf[state[r]] = r /\ phase[state[r]] \in {"running", "swap"}

LEMMA InitHolder == Init => HolderInv
BY DEF Init, MetricsInit, RecordersInit, HolderInv, Holding

\* Events and readers of averages touch nothing of it.
LEMMA EventsKeepRecorders ==
  ASSUME NEW e \in Events, EventStep(e) \/ ReadAverage
  PROVE  UNCHANGED <<attachVars, backend>>
<1>1. CASE Begin(e)
  BY <1>1 DEF Begin, BeginEvent, CountRejected, CountDropped, CountProcessed, Add, recorderVars
<1>2. CASE Count(e)
  BY <1>2 DEF Count, AddLatency, AddWait, CountFailed, CountRetried, AddRetries, TestDetached, Add,
              recorderVars
<1>3. CASE LoadState(e) \/ Record(e) \/ RecordPanics(e)
  BY <1>3 DEF LoadState, Record, RecordPanics, metricVars
<1>4. CASE ReadAverage BY <1>4 DEF ReadAverage, LoadCount, LoadSum, recorderVars
<1> QED BY <1>1, <1>2, <1>3, <1>4 DEF EventStep

LEMMA AttachHolder ==
  ASSUME TypeOK, HolderInv, NEW p \in Pools, AttachStep(p) \/ DetachStep(p)
  PROVE  HolderInv'
<1> USE RecordersAssumption, EventsAssumption
    DEF TypeOK, RecordersTypeOK, HolderInv, Holding, IsAttacher, Enter, SetAttached, metricVars
<1>1. CASE NoAttach(p) BY <1>1 DEF NoAttach
<1>2. CASE Claim(p)
  <2>1. CASE attached[RecorderOf[p]]
    <3>1. phase' = [phase EXCEPT ![p] = "failed"] /\ IsAttacher /\ UNCHANGED <<attached, state, backend>>
      BY <1>2, <2>1 DEF Claim
    <3>2. ~Holding(p) /\ \A q \in Pools : Holding(q)' <=> Holding(q) BY <1>2, <3>1 DEF Claim
    <3>3. \A r \in Recs : state[r] # p BY <1>2 DEF Claim
    <3> HIDE DEF Enter, SetAttached
    <3> QED BY <3>1, <3>2, <3>3
  <2>2. CASE ~attached[RecorderOf[p]] BY <1>2, <2>2 DEF Claim
  <2> QED BY <2>1, <2>2
<1>3. CASE Free(p) BY <1>3 DEF Free
<1>4. CASE StoreState(p) BY <1>4 DEF StoreState
<1>5. CASE PromRefused(p) BY <1>5 DEF PromRefused
<1>6. CASE OtelRefused(p) BY <1>6 DEF OtelRefused
<1>7. CASE PromRegister(p) BY <1>7 DEF PromRegister, Register, Round
<1>8. CASE OtelRegister(p) BY <1>8 DEF OtelRegister, Register, Round
<1>9. CASE Rollback(p) BY <1>9 DEF Rollback, Round
<1>10. CASE StartDetach(p) BY <1>10 DEF StartDetach
<1>11. CASE SwapState(p) BY <1>11 DEF SwapState
<1>12. CASE UnregisterPart(p) BY <1>12 DEF UnregisterPart, Round
<1>13. CASE Release(p) BY <1>13 DEF Release
<1> QED
  BY <1>1, <1>2, <1>3, <1>4, <1>5, <1>6, <1>7, <1>8, <1>9, <1>10, <1>11, <1>12, <1>13
  DEF AttachStep, DetachStep

LEMMA NextHolder == TypeOK /\ HolderInv /\ [Next]_vars => HolderInv'
<1> SUFFICES ASSUME TypeOK, HolderInv, [Next]_vars PROVE HolderInv' OBVIOUS
<1>1. ASSUME UNCHANGED <<attachVars, backend>> PROVE HolderInv'
  BY <1>1 DEF attachVars, HolderInv, Holding, IsAttacher
<1>2. CASE UNCHANGED vars BY <1>1, <1>2 DEF vars, metricVars
<1>3. ASSUME NEW p \in Pools, AttachStep(p) \/ DetachStep(p) PROVE HolderInv'
  BY <1>3, AttachHolder
<1>4. ASSUME NEW e \in Events, EventStep(e) PROVE HolderInv' BY <1>1, <1>4, EventsKeepRecorders
<1>5. CASE ReadAverage
  BY <1>1, <1>5 DEF ReadAverage, LoadCount, LoadSum, recorderVars
<1> QED BY <1>2, <1>3, <1>4, <1>5 DEF Next, Ended

\* The flag of a recorder is set exactly while one pool has it: two pools never
\* record to one recorder, and none finds it taken for ever.
THEOREM OneHolderAlways == Spec => []OneHolder
<1>1. Init => TypeOK /\ HolderInv BY InitTypes, InitHolder
<1>2. TypeOK /\ HolderInv /\ [Next]_vars => (TypeOK /\ HolderInv)' BY NextTypes, NextHolder
<1>3. TypeOK /\ HolderInv => OneHolder
  BY DEF TypeOK, RecordersTypeOK, HolderInv, OneHolder, Holding
<1> QED BY <1>1, <1>2, <1>3, PTL DEF Spec

-----------------------------------------------------------------------------
(***************************************************************************)
(* What is in the registry                                                 *)
(***************************************************************************)
\* The parts of p the registry holds, and those it should hold.
Own(p) == {i \in Parts : [owner |-> p, part |-> i] \in registered}

Due(p) ==
  CASE phase[p] = "register"                     -> Parts \ todo[p]
    [] phase[p] \in {"rollback", "unregister"}   -> todo[p]
    [] phase[p] \in {"store", "running", "swap"} -> Parts
    [] OTHER                                     -> {}

\* The registry is the union of what is due, and no two pools share an identity.
PartsInv ==
  /\ IsAttacher => \A p \in Pools : Own(p) = Due(p)
  /\ ~IsAttacher => registered = {}
  /\ \A c, d \in registered : Id(c.owner, c.part) = Id(d.owner, d.part) => c = d
  /\ \A p \in Pools : phase[p] = "register" => todo[p] # {}

LEMMA InitParts == Init => PartsInv
BY DEF Init, RecordersInit, MetricsInit, PartsInv, Own, Due

\* A registration adds one part, that no other has.
LEMMA RegisterParts ==
  ASSUME TypeOK, PartsInv, NEW p \in Pools, PromRegister(p) \/ OtelRegister(p)
  PROVE  PartsInv'
<1> PICK i \in Parts : Register(p, i) /\ (backend = "prom" => ~Conflict(p, i))
  BY DEF PromRegister, OtelRegister
<1>1. phase[p] = "register" /\ IsAttacher /\ backend' = backend
  BY DEF PromRegister, OtelRegister, IsAttacher, metricVars
<1>2. /\ todo' = [todo EXCEPT ![p] = @ \ {i}] /\ i \in todo[p]
      /\ phase' = [phase EXCEPT ![p] = IF todo[p] = {i} THEN "store" ELSE "register"]
      /\ registered' = registered \union {[owner |-> p, part |-> i]}
  BY <1>1 DEF Register, Round, First, Enter
<1>3. IsAttacher' /\ Parts' = Parts /\ \A q, j : Id(q, j)' = Id(q, j)
  BY <1>1 DEF IsAttacher, Parts, Id
<1>4. \A q \in Pools : Own(q)' = Due(q)'
  <2> TAKE q \in Pools
  <2>1. Own(q)' = IF q = p THEN Own(p) \union {i} ELSE Own(q)
    BY <1>2, <1>3 DEF Own
  <2>2. Own(q) = Due(q) BY <1>1 DEF PartsInv
  <2>3. CASE q # p BY <1>2, <1>3, <2>1, <2>2, <2>3 DEF Due, TypeOK, RecordersTypeOK
  <2>4. CASE q = p
    <3>1. Due(p) = Parts \ todo[p] BY <1>1 DEF Due
    <3>2. todo'[p] = todo[p] \ {i} BY <1>2 DEF TypeOK, RecordersTypeOK
    <3>3. CASE todo[p] = {i}
      <4>1. phase'[p] = "store" BY <1>2, <3>3 DEF TypeOK, RecordersTypeOK
      <4>2. Due(p)' = Parts BY <1>3, <4>1 DEF Due
      <4> QED BY <2>1, <2>2, <2>4, <3>1, <3>3, <4>2
    <3>4. CASE todo[p] # {i}
      <4>1. phase'[p] = "register" BY <1>2, <3>4 DEF TypeOK, RecordersTypeOK
      <4>2. Due(p)' = Parts \ (todo[p] \ {i}) BY <1>3, <3>2, <4>1 DEF Due
      <4> QED BY <2>1, <2>2, <2>4, <3>1, <4>2
    <3> QED BY <3>3, <3>4
  <2> QED BY <2>3, <2>4
<1>5. \A c \in registered : Id(c.owner, c.part) # Id(p, i)
  <2>1. CASE backend = "prom" BY <2>1 DEF Conflict
  <2>2. CASE backend # "prom"
    <3> SUFFICES ASSUME NEW c \in registered, Id(c.owner, c.part) = Id(p, i) PROVE FALSE OBVIOUS
    <3>1. c.owner = p /\ c.part \in Parts /\ c = [owner |-> c.owner, part |-> c.part]
      BY <2>2 DEF Id, TypeOK, RecordersTypeOK
    <3>2. i = c.part BY <2>2, <3>1 DEF Parts
    <3>3. i \in Own(p) BY <3>1, <3>2 DEF Own
    <3>4. Own(p) = Parts \ todo[p] BY <1>1 DEF PartsInv, Due
    <3> QED BY <1>2, <3>3, <3>4
  <2> QED BY <2>1, <2>2
<1>6. \A c, d \in registered' : Id(c.owner, c.part)' = Id(d.owner, d.part)' => c = d
  BY <1>2, <1>3, <1>5 DEF PartsInv
<1>7. \A q \in Pools : phase'[q] = "register" => todo'[q] # {}
  BY <1>2 DEF PartsInv, TypeOK, RecordersTypeOK
<1> QED BY <1>3, <1>4, <1>6, <1>7 DEF PartsInv

\* A rollback or Detach takes away one part, its own.
LEMMA UnregisterParts ==
  ASSUME TypeOK, HolderInv, PartsInv, NEW p \in Pools, Rollback(p) \/ UnregisterPart(p)
  PROVE  PartsInv'
<1> PICK i \in Parts, s \in {"free", "release"} : Round(p, i, s) /\ Unregister(p, i)
  BY DEF Rollback, UnregisterPart
<1>1. /\ phase[p] \in {"rollback", "unregister"} /\ IsAttacher
      /\ backend' = backend
  BY DEF Rollback, UnregisterPart, HolderInv, metricVars
<1>2. /\ todo' = [todo EXCEPT ![p] = @ \ {i}] /\ i \in todo[p]
      /\ phase' = [phase EXCEPT ![p] = IF todo[p] = {i} THEN s ELSE phase[p]]
  BY DEF Round, First, Enter
<1>3. IsAttacher' /\ Parts' = Parts /\ \A q, j : Id(q, j)' = Id(q, j)
  BY <1>1 DEF IsAttacher, Parts, Id
<1>4. Own(p) = todo[p] BY <1>1 DEF PartsInv, Due
<1>5. [owner |-> p, part |-> i] \in registered BY <1>2, <1>4 DEF Own
<1>6. registered' = registered \ {[owner |-> p, part |-> i]}
  BY <1>5 DEF Unregister, PartsInv
<1>7. \A q \in Pools : Own(q)' = Due(q)'
  <2> TAKE q \in Pools
  <2>1. Own(q)' = IF q = p THEN Own(p) \ {i} ELSE Own(q) BY <1>3, <1>6 DEF Own
  <2>2. CASE q # p
    <3>1. Own(q) = Due(q) BY <1>1 DEF PartsInv
    <3> QED BY <1>2, <1>3, <2>1, <2>2, <3>1 DEF Due, TypeOK, RecordersTypeOK
  <2>3. CASE q = p
    <3>1. todo'[p] = todo[p] \ {i} BY <1>2 DEF TypeOK, RecordersTypeOK
    <3>2. phase'[p] = IF todo[p] = {i} THEN s ELSE phase[p]
      BY <1>2 DEF TypeOK, RecordersTypeOK
    <3>3. CASE todo[p] = {i}
      <4>1. Due(p)' = {} BY <3>2, <3>3 DEF Due
      <4> QED BY <1>4, <2>1, <2>3, <3>3, <4>1
    <3>4. CASE todo[p] # {i}
      <4>1. Due(p)' = todo[p] \ {i} BY <1>1, <3>1, <3>2, <3>4 DEF Due
      <4> QED BY <1>4, <2>1, <2>3, <4>1
    <3> QED BY <3>3, <3>4
  <2> QED BY <2>2, <2>3
<1>8. \A c, d \in registered' : Id(c.owner, c.part)' = Id(d.owner, d.part)' => c = d
  BY <1>3, <1>6 DEF PartsInv
<1>9. \A q \in Pools : phase'[q] = "register" => todo'[q] # {}
  BY <1>1, <1>2 DEF PartsInv, TypeOK, RecordersTypeOK
<1> QED BY <1>3, <1>7, <1>8, <1>9 DEF PartsInv

\* The other steps move a pool on without touching the registry.
LEMMA AttachParts ==
  ASSUME TypeOK, HolderInv, PartsInv, NEW p \in Pools, AttachStep(p) \/ DetachStep(p)
  PROVE  PartsInv'
<1> USE DEF Enter, metricVars
<1>1. ASSUME UNCHANGED <<registered, backend>>, NEW s \in Phases, phase' = [phase EXCEPT ![p] = s],
             \A q \in Pools \ {p} : todo'[q] = todo[q],
             IsAttacher => Due(p)' = Due(p), s = "register" => todo'[p] # {}
      PROVE  PartsInv'
  <2>1. Parts' = Parts /\ (IsAttacher' <=> IsAttacher) /\ \A q, j : Id(q, j)' = Id(q, j)
    BY <1>1 DEF Parts, IsAttacher, Id
  <2>2. \A q \in Pools : Own(q)' = Own(q) BY <1>1, <2>1 DEF Own
  <2>3. \A q \in Pools \ {p} : Due(q)' = Due(q)
    BY <1>1, <2>1 DEF Due, TypeOK, RecordersTypeOK
  <2>4. IsAttacher => \A q \in Pools : Own(q)' = Due(q)' BY <1>1, <2>2, <2>3 DEF PartsInv
  <2>5. \A q \in Pools : phase'[q] = "register" => todo'[q] # {}
    BY <1>1 DEF PartsInv, TypeOK, RecordersTypeOK
  <2> QED BY <1>1, <2>1, <2>4, <2>5 DEF PartsInv
<1>2. Parts # {} BY RecordersAssumption DEF Parts
<1>3. CASE NoAttach(p) BY <1>1, <1>3 DEF NoAttach, Phases
<1>4. CASE Claim(p)
  <2>1. CASE attached[RecorderOf[p]]
    BY <1>1, <1>4, <2>1 DEF Claim, Phases, Due, TypeOK, RecordersTypeOK
  <2>2. CASE ~attached[RecorderOf[p]]
    <3>1. /\ UNCHANGED <<registered, backend>> /\ phase[p] = "new"
          /\ phase' = [phase EXCEPT ![p] = "register"] /\ todo' = [todo EXCEPT ![p] = Parts]
      BY <1>4, <2>2 DEF Claim
    <3>2. /\ Parts' = Parts /\ todo'[p] = Parts /\ phase'[p] = "register"
          /\ \A q \in Pools \ {p} : todo'[q] = todo[q]
      BY <3>1 DEF Parts, TypeOK, RecordersTypeOK
    <3>3. Due(p)' = Due(p) BY <3>1, <3>2 DEF Due
    <3> QED BY <1>1, <1>2, <3>1, <3>2, <3>3 DEF Phases
  <2> QED BY <2>1, <2>2
<1>5. CASE PromRefused(p)
  <2>1. /\ UNCHANGED <<registered, backend>> /\ phase[p] = "register"
        /\ todo' = [todo EXCEPT ![p] = Parts \ @]
        /\ phase' = [phase EXCEPT ![p] = IF todo[p] = Parts THEN "free" ELSE "rollback"]
    BY <1>5 DEF PromRefused
  <2>2. /\ todo'[p] = Parts \ todo[p] /\ \A q \in Pools \ {p} : todo'[q] = todo[q]
        /\ phase'[p] = IF todo[p] = Parts THEN "free" ELSE "rollback"
    BY <2>1 DEF TypeOK, RecordersTypeOK
  <2>3. Due(p)' = Parts \ todo[p] BY <2>2 DEF Due
  <2>4. Due(p)' = Due(p) BY <2>1, <2>3 DEF Due
  <2> QED BY <1>1, <2>1, <2>2, <2>4 DEF Phases
<1>6. CASE OtelRefused(p)
  <2>1. Parts = {1} /\ todo[p] = {1}
    BY <1>6 DEF OtelRefused, Parts, PartsInv, TypeOK, RecordersTypeOK
  <2>2. Due(p) = {} BY <1>6, <2>1 DEF OtelRefused, Due
  <2>3. phase'[p] = "free" BY <1>6 DEF OtelRefused, TypeOK, RecordersTypeOK
  <2>4. Due(p)' = {} BY <2>3 DEF Due
  <2> QED BY <1>1, <1>6, <2>2, <2>4 DEF OtelRefused, Phases
<1>7. CASE Free(p) BY <1>1, <1>7 DEF Free, Phases, Due, TypeOK, RecordersTypeOK
<1>8. CASE StoreState(p)
  BY <1>1, <1>8 DEF StoreState, Phases, Due, Parts, TypeOK, RecordersTypeOK
<1>9. CASE StartDetach(p)
  <2>1. CASE IsAttacher
    BY <1>1, <1>9, <2>1 DEF StartDetach, Phases, Due, Parts, TypeOK, RecordersTypeOK
  <2>2. CASE ~IsAttacher BY <1>1, <1>9, <2>2 DEF StartDetach, Phases
  <2> QED BY <2>1, <2>2
<1>10. CASE SwapState(p)
  <2>1. /\ UNCHANGED <<registered, backend>> /\ phase[p] = "swap"
        /\ phase' = [phase EXCEPT ![p] = "unregister"] /\ todo' = [todo EXCEPT ![p] = Parts]
    BY <1>10 DEF SwapState
  <2>2. /\ todo'[p] = Parts /\ phase'[p] = "unregister"
        /\ \A q \in Pools \ {p} : todo'[q] = todo[q]
    BY <2>1 DEF TypeOK, RecordersTypeOK
  <2>3. Due(p)' = Parts /\ Due(p) = Parts BY <2>1, <2>2 DEF Due
  <2> QED BY <1>1, <2>1, <2>2, <2>3 DEF Phases
<1>11. CASE Release(p) BY <1>1, <1>11 DEF Release, Phases, Due, TypeOK, RecordersTypeOK
<1> QED
  BY <1>3, <1>4, <1>5, <1>6, <1>7, <1>8, <1>9, <1>10, <1>11, RegisterParts, UnregisterParts
  DEF AttachStep, DetachStep

LEMMA NextParts == TypeOK /\ HolderInv /\ PartsInv /\ [Next]_vars => PartsInv'
<1> SUFFICES ASSUME TypeOK, HolderInv, PartsInv, [Next]_vars PROVE PartsInv' OBVIOUS
<1>1. ASSUME UNCHANGED <<attachVars, backend>> PROVE PartsInv'
  BY <1>1 DEF attachVars, PartsInv, Own, Due, Parts, Id, IsAttacher
<1>2. CASE UNCHANGED vars BY <1>1, <1>2 DEF vars, metricVars
<1>3. ASSUME NEW p \in Pools, AttachStep(p) \/ DetachStep(p) PROVE PartsInv'
  BY <1>3, AttachParts
<1>4. ASSUME NEW e \in Events, EventStep(e) PROVE PartsInv' BY <1>1, <1>4, EventsKeepRecorders
<1>5. CASE ReadAverage
  BY <1>1, <1>5 DEF ReadAverage, LoadCount, LoadSum, recorderVars
<1> QED BY <1>2, <1>3, <1>4, <1>5 DEF Next, Ended

LEMMA PartsKept == Spec => [](TypeOK /\ PartsInv)
<1>1. Init => TypeOK /\ HolderInv /\ PartsInv BY InitTypes, InitHolder, InitParts
<1>2. TypeOK /\ HolderInv /\ PartsInv /\ [Next]_vars => (TypeOK /\ HolderInv /\ PartsInv)'
  BY NextTypes, NextHolder, NextParts
<1> QED BY <1>1, <1>2, PTL DEF Spec

\* A running pool's collectors are all registered and its own, whatever pools
\* of the same name attach, fail, roll back and detach beside it.
THEOREM AttachedAlwaysComplete == Spec => []AttachedIsComplete
<1>1. TypeOK /\ PartsInv => AttachedIsComplete
  BY DEF PartsInv, AttachedIsComplete, Own, Due
<1> QED BY <1>1, PartsKept, PTL

\* Neither a failed New nor a Detach leaves anything in the registry.
THEOREM NothingIsLeft == Spec => []NothingLeft
<1>1. ASSUME TypeOK, PartsInv, NEW c \in registered PROVE phase[c.owner] \notin
             {"new", "free", "failed", "release", "gone"}
  <2>1. c.owner \in Pools /\ c.part \in Own(c.owner)
    BY <1>1 DEF TypeOK, RecordersTypeOK, Own
  <2>2. c.part \in Due(c.owner) BY <1>1, <2>1 DEF PartsInv
  <2> QED BY <2>2 DEF Due
<1>2. TypeOK /\ PartsInv => NothingLeft BY <1>1 DEF NothingLeft
<1> QED BY <1>2, PartsKept, PTL

-----------------------------------------------------------------------------
(***************************************************************************)
(* Averages                                                                *)
(***************************************************************************)
\* The jobs of p that are counted, and those whose times are summed as well.
Counted(p) == {e \in Events : e.pool = p /\ e.call = "done" /\ stage[e] # "new"}
Timed(p) == {e \in Counted(p) : stage[e] # "latency"}
Waited(p) == {e \in Counted(p) : stage[e] \notin {"latency", "wait"}}

AverageInv ==
  /\ \A e \in Events : stage[e] \in {"latency", "wait"} => e.call = "done"
  /\ \A p \in Pools : /\ counters[p]["processed"] = Cardinality(Counted(p))
                      /\ counters[p]["latency"] <= Longest * Cardinality(Timed(p))
                      /\ counters[p]["wait"] <= Longest * Cardinality(Waited(p))
  /\ reading.pool = NoPool => reading = NotReading
  /\ reading.pool # NoPool => reading.total <= Longest * counters[reading.pool]["processed"]

LEMMA SetsFinite ==
  ASSUME NEW p
  PROVE  /\ IsFiniteSet(Counted(p)) /\ IsFiniteSet(Timed(p)) /\ IsFiniteSet(Waited(p))
         /\ Cardinality(Timed(p)) <= Cardinality(Counted(p))
         /\ Cardinality(Waited(p)) <= Cardinality(Counted(p))
         /\ Cardinality(Counted(p)) \in Nat
         /\ Cardinality(Timed(p)) \in Nat /\ Cardinality(Waited(p)) \in Nat
<1>1. Counted(p) \subseteq Events /\ Timed(p) \subseteq Counted(p) /\ Waited(p) \subseteq Counted(p)
  BY DEF Counted, Timed, Waited
<1>2. IsFiniteSet(Counted(p)) BY <1>1, EventsAssumption, FS_Subset
<1> QED BY <1>1, <1>2, FS_Subset, FS_CardinalityType

LEMMA Monotone ==
  ASSUME NEW l \in Nat, NEW m \in Nat, NEW n \in Nat, m <= n
  PROVE  l * m <= l * n
OBVIOUS

LEMMA QuotientBound ==
  ASSUME NEW t \in Nat, NEW n \in Nat \ {0}, NEW l \in Nat, t <= l * n
  PROVE  t \div n <= l
<1> DEFINE q == t \div n
<1>1. q \in Nat /\ n * q <= t OBVIOUS
<1> HIDE DEF q
<1>2. SUFFICES ASSUME q >= l + 1 PROVE FALSE BY <1>1 DEF q
<1>3. n * q >= n * (l + 1) BY <1>1, <1>2, Monotone
<1>4. n * (l + 1) = l * n + n OBVIOUS
<1> QED BY <1>1, <1>3, <1>4

LEMMA InitAverage == Init => AverageInv
<1> SUFFICES ASSUME Init PROVE AverageInv OBVIOUS
<1>1. \A p : Counted(p) = {} /\ Timed(p) = {} /\ Waited(p) = {}
  BY DEF Init, MetricsInit, Counted, Timed, Waited
<1>2. Cardinality({}) = 0 BY FS_EmptySet
<1>3. Longest * 0 = 0 BY LongestAssumption
<1>4. \A p \in Pools : counters[p]["processed"] = 0 /\ counters[p]["latency"] = 0
                        /\ counters[p]["wait"] = 0
  BY DEF Init, MetricsInit, CounterNames
<1>5. reading = NotReading /\ \A e \in Events : stage[e] = "new" BY DEF Init, MetricsInit
<1>6. reading.pool = NoPool BY <1>5 DEF NotReading
<1>7. \A p \in Pools : /\ counters[p]["processed"] = Cardinality(Counted(p))
                       /\ counters[p]["latency"] <= Longest * Cardinality(Timed(p))
                       /\ counters[p]["wait"] <= Longest * Cardinality(Waited(p))
  <2> TAKE p \in Pools
  <2>1. Counted(p) = {} /\ Timed(p) = {} /\ Waited(p) = {} BY <1>1
  <2> HIDE DEF Counted, Timed, Waited
  <2> QED BY <1>2, <1>3, <1>4, <2>1
<1> QED BY <1>5, <1>6, <1>7 DEF AverageInv

\* A step of an event that is counted and summed already, or is no job.
LEMMA OtherStepAverage ==
  ASSUME TypeOK, AverageInv, NEW e \in Events, NEW to \in Stages \ {"new", "latency", "wait"},
         stage[e] \notin {"latency", "wait"}, e.call = "done" => stage[e] # "new",
         stage' = [stage EXCEPT ![e] = to], UNCHANGED reading,
         \A p \in Pools : \A c \in {"processed", "latency", "wait"} :
           counters'[p][c] = counters[p][c]
  PROVE  AverageInv'
<1>1. \A d \in Events : stage'[d] = IF d = e THEN to ELSE stage[d]
  BY DEF TypeOK, MetricsTypeOK
<1>2. \A p : Counted(p)' = Counted(p) /\ Timed(p)' = Timed(p) /\ Waited(p)' = Waited(p)
  BY <1>1 DEF Counted, Timed, Waited
<1> QED
  BY <1>1, <1>2 DEF AverageInv, TypeOK, MetricsTypeOK

\* Counting a job raises the bounds of the averages before any sum grows.
LEMMA CountAverage ==
  ASSUME TypeOK, AverageInv, NEW e \in Events, CountProcessed(e)
  PROVE  AverageInv'
<1> DEFINE r == e.pool
<1> USE EventsAssumption, LongestAssumption
<1>1. /\ \A d \in Events : stage'[d] = IF d = e THEN "latency" ELSE stage[d]
      /\ r \in Pools /\ stage[e] = "new" /\ e.call = "done" /\ reading' = reading
      /\ counters'[r]["processed"] = counters[r]["processed"] + 1
      /\ \A p \in Pools : \A c \in CounterNames :
           p # r \/ c # "processed" => counters'[p][c] = counters[p][c]
  BY DEF CountProcessed, Add, Goto, TypeOK, MetricsTypeOK, CounterNames
<1>2. \A p : Timed(p)' = Timed(p) /\ Waited(p)' = Waited(p)
  BY <1>1 DEF Counted, Timed, Waited
<1>3. \A p : p # r => Counted(p)' = Counted(p) BY <1>1 DEF Counted
<1>4. Cardinality(Counted(r)') = Cardinality(Counted(r)) + 1
  <2>1. Counted(r)' = Counted(r) \union {e} /\ e \notin Counted(r) BY <1>1 DEF Counted
  <2> QED BY <2>1, SetsFinite, FS_AddElement
<1>5. \A p \in Pools : counters'[p]["processed"] = Cardinality(Counted(p)')
  BY <1>1, <1>3, <1>4 DEF AverageInv, CounterNames
<1>6. reading.pool # NoPool => reading.total <= Longest * counters'[reading.pool]["processed"]
  <2> HAVE reading.pool # NoPool
  <2>1. reading.pool \in Pools /\ reading.total \in Nat BY DEF TypeOK, MetricsTypeOK
  <2> DEFINE n == counters[reading.pool]["processed"]
             m == counters'[reading.pool]["processed"]
  <2>2. n \in Nat BY <2>1 DEF TypeOK, MetricsTypeOK, CounterNames
  <2>3. m \in Nat /\ n <= m BY <1>1, <2>1, <2>2 DEF CounterNames
  <2>4. reading.total <= Longest * n BY DEF AverageInv
  <2>5. Longest * n <= Longest * m BY <2>2, <2>3, Monotone
  <2> HIDE DEF n, m
  <2>6. Longest * n \in Nat /\ Longest * m \in Nat BY <2>2, <2>3
  <2>7. reading.total <= Longest * m BY <2>1, <2>4, <2>5, <2>6
  <2> QED BY <2>7 DEF m
<1> QED BY <1>1, <1>2, <1>5, <1>6 DEF AverageInv, CounterNames

\* A sum grows by a job that is counted, and by no more than Longest.
LEMMA SumAverage ==
  ASSUME TypeOK, AverageInv, NEW e \in Events, AddLatency(e) \/ AddWait(e)
  PROVE  AverageInv'
<1> DEFINE r == e.pool
<1> USE EventsAssumption, LongestAssumption
<1>1. PICK sum \in {"latency", "wait"}, n \in Nat, to \in {"wait", "failed", "retried"} :
        /\ Add(e, sum, sum, n, to) /\ n <= Longest /\ (sum = "latency" <=> to = "wait")
  <2>1. CASE AddLatency(e) BY <2>1 DEF AddLatency
  <2>2. CASE AddWait(e) BY <2>2 DEF AddWait
  <2> QED BY <2>1, <2>2
<1>2. /\ \A d \in Events : stage'[d] = IF d = e THEN to ELSE stage[d]
      /\ r \in Pools /\ stage[e] = sum /\ e.call = "done" /\ reading' = reading
      /\ counters'[r][sum] = counters[r][sum] + n
      /\ \A p \in Pools : \A c \in CounterNames :
           p # r \/ c # sum => counters'[p][c] = counters[p][c]
  BY <1>1 DEF Add, Goto, TypeOK, MetricsTypeOK, CounterNames, AverageInv
<1>3. \A p : Counted(p)' = Counted(p) BY <1>2 DEF Counted
<1> DEFINE Summed(p) == IF sum = "latency" THEN Timed(p) ELSE Waited(p)
<1>4. \A p : p # r => Timed(p)' = Timed(p) /\ Waited(p)' = Waited(p)
  BY <1>2, <1>3 DEF Counted, Timed, Waited
<1>5. Cardinality(Summed(r)') = Cardinality(Summed(r)) + 1
  <2>1. Summed(r)' = Summed(r) \union {e} /\ e \notin Summed(r)
    <3>1. CASE sum = "latency" BY <1>2, <1>1, <3>1 DEF Timed, Counted
    <3>2. CASE sum = "wait" BY <1>2, <1>1, <3>2 DEF Waited, Counted
    <3> QED BY <3>1, <3>2
  <2>2. IsFiniteSet(Summed(r)) BY SetsFinite
  <2> HIDE DEF Summed
  <2> QED BY <2>1, <2>2, FS_AddElement
<1>6. sum = "latency" => Waited(r)' = Waited(r) BY <1>1, <1>2 DEF Waited, Counted
<1>7. sum = "wait" => Timed(r)' = Timed(r) BY <1>1, <1>2 DEF Timed, Counted
<1>8. counters'[r][sum] <= Longest * Cardinality(Summed(r)')
  <2>1. Cardinality(Summed(r)) \in Nat BY SetsFinite
  <2>2. counters[r][sum] \in Nat BY <1>2 DEF TypeOK, MetricsTypeOK, CounterNames
  <2>3. counters[r][sum] <= Longest * Cardinality(Summed(r)) BY <1>2 DEF AverageInv
  <2> HIDE DEF Summed
  <2>4. Longest * (Cardinality(Summed(r)) + 1) = Longest * Cardinality(Summed(r)) + Longest
    BY <2>1
  <2>5. Longest * Cardinality(Summed(r)) \in Nat BY <2>1
  <2> QED BY <1>1, <1>2, <1>5, <2>2, <2>3, <2>4, <2>5
<1>9. \A p \in Pools : /\ counters'[p]["processed"] = Cardinality(Counted(p)')
                       /\ counters'[p]["latency"] <= Longest * Cardinality(Timed(p)')
                       /\ counters'[p]["wait"] <= Longest * Cardinality(Waited(p)')
  <2> TAKE p \in Pools
  <2>1. CASE p # r BY <1>2, <1>3, <1>4, <2>1 DEF AverageInv, CounterNames
  <2>2. CASE p = r /\ sum = "latency" BY <1>2, <1>3, <1>6, <1>8, <2>2 DEF AverageInv, CounterNames
  <2>3. CASE p = r /\ sum = "wait" BY <1>2, <1>3, <1>7, <1>8, <2>3 DEF AverageInv, CounterNames
  <2> QED BY <2>1, <2>2, <2>3
<1>10. \A d \in Events : stage'[d] \in {"latency", "wait"} => d.call = "done"
  BY <1>2 DEF AverageInv
<1>11. reading.pool # NoPool => counters'[reading.pool]["processed"] = counters[reading.pool]["processed"]
  BY <1>2 DEF TypeOK, MetricsTypeOK, CounterNames
<1> QED BY <1>2, <1>9, <1>10, <1>11 DEF AverageInv

\* The sum a reader loads is within the bound of the count, and stays so.
LEMMA LoadAverage ==
  ASSUME TypeOK, AverageInv, ReadAverage
  PROVE  AverageInv'
<1> USE EventsAssumption, LongestAssumption
<1>1. /\ UNCHANGED <<stage, counters>>
      /\ \A p : Counted(p)' = Counted(p) /\ Timed(p)' = Timed(p) /\ Waited(p)' = Waited(p)
  BY DEF ReadAverage, LoadCount, LoadSum, Counted, Timed, Waited
<1>2. CASE LoadCount BY <1>1, <1>2 DEF LoadCount, AverageInv, NotReading
<1>3. ASSUME NEW p \in Pools, NEW sum \in {"latency", "wait"}, LoadSum(p, sum)
      PROVE  AverageInv'
  <2>1. reading'.pool = p /\ reading'.total = counters[p][sum] BY <1>3 DEF LoadSum
  <2>2. PICK S : /\ counters[p][sum] <= Longest * Cardinality(S) /\ Cardinality(S) \in Nat
                 /\ Cardinality(S) <= Cardinality(Counted(p))
    BY <1>3, SetsFinite DEF AverageInv
  <2>3. Cardinality(Counted(p)) \in Nat BY SetsFinite
  <2>4. Longest * Cardinality(S) <= Longest * Cardinality(Counted(p)) BY <2>2, <2>3, Monotone
  <2>5. counters[p][sum] \in Nat /\ counters[p]["processed"] = Cardinality(Counted(p))
    BY DEF TypeOK, MetricsTypeOK, CounterNames, AverageInv
  <2>6. Longest * Cardinality(S) \in Nat /\ Longest * Cardinality(Counted(p)) \in Nat
    BY <2>2, <2>3
  <2>7. counters[p][sum] <= Longest * counters[p]["processed"] BY <2>2, <2>4, <2>5, <2>6
  <2> QED BY <1>1, <2>1, <2>7 DEF AverageInv
<1> QED BY <1>2, <1>3 DEF ReadAverage

LEMMA NextAverage == TypeOK /\ AverageInv /\ [Next]_vars => AverageInv'
<1> SUFFICES ASSUME TypeOK, AverageInv, [Next]_vars PROVE AverageInv' OBVIOUS
<1>1. ASSUME UNCHANGED <<stage, counters, reading>> PROVE AverageInv'
  BY <1>1 DEF AverageInv, Counted, Timed, Waited
<1>2. CASE UNCHANGED vars BY <1>1, <1>2 DEF vars, eventVars, metricVars
<1>3. ASSUME NEW p \in Pools, AttachStep(p) \/ DetachStep(p) PROVE AverageInv'
  BY <1>1, <1>3 DEF AttachStep, DetachStep, NoAttach, Claim, PromRegister, PromRefused, Rollback,
     OtelRegister, OtelRefused, Free, StoreState, StartDetach, SwapState, UnregisterPart, Release,
     eventVars, metricVars
<1>4. ASSUME NEW e \in Events, EventStep(e) PROVE AverageInv'
  <2> USE EventsAssumption
  <2>1. ASSUME NEW from, from \notin {"new", "latency", "wait"},
               NEW c \in CounterNames \ {"processed", "latency", "wait"}, NEW n \in Nat,
               NEW to \in Stages \ {"new", "latency", "wait"}, Add(e, from, c, n, to)
        PROVE  AverageInv'
    BY <2>1, OtherStepAverage DEF Add, Goto, TypeOK, MetricsTypeOK, CounterNames
  <2>2. ASSUME NEW c \in CounterNames \ {"processed", "latency", "wait"}, e.call # "done",
               Add(e, "new", c, 1, "test")
        PROVE  AverageInv'
    <3>1. /\ stage[e] = "new" /\ stage' = [stage EXCEPT ![e] = "test"] /\ UNCHANGED reading
          /\ \A p \in Pools : \A d \in {"processed", "latency", "wait"} :
               counters'[p][d] = counters[p][d]
      BY <2>2 DEF Add, Goto, TypeOK, MetricsTypeOK, CounterNames
    <3>2. "test" \in Stages \ {"new", "latency", "wait"} BY DEF Stages
    <3> QED BY <2>2, <3>1, <3>2, OtherStepAverage
  <2>3. CASE BeginEvent(e) BY <2>3, OtherStepAverage DEF BeginEvent, Goto, Stages
  <2>4. CASE CountRejected(e) BY <2>2, <2>4 DEF CountRejected, CounterNames
  <2>5. CASE CountDropped(e) BY <2>2, <2>5 DEF CountDropped, CounterNames
  <2>6. CASE CountProcessed(e) BY <2>6, CountAverage
  <2>7. CASE AddLatency(e) \/ AddWait(e) BY <2>7, SumAverage
  <2>8. CASE CountFailed(e) BY <2>1, <2>8 DEF CountFailed, CounterNames, Stages
  <2>9. CASE CountRetried(e) BY <2>1, <2>9 DEF CountRetried, CounterNames, Stages
  <2>10. CASE AddRetries(e) BY <2>1, <2>10 DEF AddRetries, Retries, CounterNames, Stages
  <2>11. CASE TestDetached(e) BY <2>11, OtherStepAverage DEF TestDetached, Goto, Stages
  <2>12. CASE LoadState(e) BY <2>12, OtherStepAverage DEF LoadState, Goto, Stages, metricVars
  <2>13. CASE Record(e) \/ RecordPanics(e)
    BY <2>13, OtherStepAverage DEF Record, RecordPanics, Goto, Stages, metricVars
  <2> QED
    BY <1>4, <2>3, <2>4, <2>5, <2>6, <2>7, <2>8, <2>9, <2>10, <2>11, <2>12, <2>13
    DEF EventStep, Begin, Count
<1>5. CASE ReadAverage BY <1>5, LoadAverage
<1> QED BY <1>2, <1>3, <1>4, <1>5 DEF Next, Ended

\* No average exceeds the longest time of a job, for any number of jobs that
\* end while it is computed.
THEOREM AveragesBounded == Spec => []AverageWithinLongest
<1>1. Init => TypeOK /\ AverageInv BY InitTypes, InitAverage
<1>2. TypeOK /\ AverageInv /\ [Next]_vars => (TypeOK /\ AverageInv)' BY NextTypes, NextAverage
<1>3. ASSUME TypeOK, AverageInv PROVE AverageWithinLongest
  <2> SUFFICES ASSUME reading # NotReading PROVE Returned <= Longest
    BY DEF AverageWithinLongest
  <2> DEFINE n == counters[reading.pool]["processed"]
  <2>1. reading.pool \in Pools /\ reading.total \in Nat /\ reading.total <= Longest * n
    BY <1>3, EventsAssumption DEF AverageInv, TypeOK, MetricsTypeOK
  <2>2. n \in Nat BY <1>3, <2>1 DEF TypeOK, MetricsTypeOK, CounterNames
  <2>3. CASE n = 0 BY <2>3, LongestAssumption DEF Returned, average
  <2>4. CASE n # 0
    <3>1. reading.total \div n <= Longest
      BY <2>1, <2>2, <2>4, LongestAssumption, QuotientBound
    <3> QED BY <2>4, <3>1 DEF Returned, average
  <2> QED BY <2>3, <2>4
<1> QED BY <1>1, <1>2, <1>3, PTL DEF Spec

-----------------------------------------------------------------------------
(***************************************************************************)
(* The series                                                              *)
(***************************************************************************)
Job(e) == e.call # "rejected"

\* Events begin after StoreState and those of jobs are over before StartDetach:
\* in between the recorder is not detached and its state is the pool's.
SeriesInv ==
  /\ \A e \in Events : phase[e.pool] \in {"new", "register", "rollback", "free", "store", "failed"}
                         => stage[e] = "new"
  /\ \A p \in Pools : phase[p] \in {"new", "register", "rollback", "free", "store", "running"}
                         => ~detached[p]
  /\ \A p \in Pools : IsAttacher /\ phase[p] = "running" => state[RecorderOf[p]] = p
  /\ \A e \in Events : Job(e) /\ ~AtRest(e) => phase[e.pool] = "running"
  /\ IsAttacher => \A e \in Events : Job(e) =>
       /\ stage[e] = "inside" => loaded[e] = e.pool
       /\ \A q \in Pools : e \in exported[q] <=> stage[e] = "over" /\ q = e.pool

LEMMA InitSeries == Init => SeriesInv
BY DEF Init, MetricsInit, RecordersInit, SeriesInv, AtRest

LEMMA OthersElsewhere ==
  ASSUME HolderInv, NEW p \in Pools, phase[p] \in {"store", "swap"}
  PROVE  /\ IsAttacher
         /\ \A q \in Pools \ {p} : phase[q] = "running" => RecorderOf[q] # RecorderOf[p]
BY DEF HolderInv, Holding

LEMMA AttachSeries ==
  ASSUME TypeOK, HolderInv, SeriesInv, NEW p \in Pools, AttachStep(p) \/ DetachStep(p)
  PROVE  SeriesInv'
<1> USE RecordersAssumption, EventsAssumption
    DEF TypeOK, MetricsTypeOK, RecordersTypeOK, SeriesInv, AtRest, Job, IsAttacher, Enter,
        eventVars, metricVars
<1>1. CASE NoAttach(p) BY <1>1 DEF NoAttach
<1>2. CASE Claim(p)
  <2>1. CASE attached[RecorderOf[p]] BY <1>2, <2>1 DEF Claim
  <2>2. CASE ~attached[RecorderOf[p]] BY <1>2, <2>2 DEF Claim
  <2> QED BY <2>1, <2>2
<1>3. CASE Free(p) BY <1>3 DEF Free
<1>4. CASE StoreState(p)
  <2>1. /\ IsAttacher
        /\ \A q \in Pools \ {p} : phase[q] = "running" => RecorderOf[q] # RecorderOf[p]
    BY <1>4, OthersElsewhere DEF StoreState
  <2> QED BY <1>4, <2>1 DEF StoreState
<1>5. CASE PromRefused(p) BY <1>5 DEF PromRefused
<1>6. CASE OtelRefused(p) BY <1>6 DEF OtelRefused
<1>7. CASE PromRegister(p) BY <1>7 DEF PromRegister, Register, Round
<1>8. CASE OtelRegister(p) BY <1>8 DEF OtelRegister, Register, Round
<1>9. CASE Rollback(p) BY <1>9 DEF Rollback, Round
<1>10. CASE StartDetach(p)
  <2>1. \A e \in Events : Job(e) /\ ~AtRest(e) => e.pool # p
    BY <1>10 DEF StartDetach, JobEvents
  <2> QED BY <1>10, <2>1 DEF StartDetach
<1>11. CASE SwapState(p)
  <2>1. \A q \in Pools \ {p} : phase[q] = "running" => RecorderOf[q] # RecorderOf[p]
    BY <1>11, OthersElsewhere DEF SwapState
  <2> QED BY <1>11, <2>1 DEF SwapState
<1>12. CASE UnregisterPart(p) BY <1>12 DEF UnregisterPart, Round
<1>13. CASE Release(p) BY <1>13 DEF Release
<1> QED
  BY <1>1, <1>2, <1>3, <1>4, <1>5, <1>6, <1>7, <1>8, <1>9, <1>10, <1>11, <1>12, <1>13
  DEF AttachStep, DetachStep

\* A step of an event before it has loaded the state.
LEMMA EarlyStepSeries ==
  ASSUME TypeOK, SeriesInv, NEW e \in Events, Begin(e) \/ Count(e)
  PROVE  SeriesInv'
<1>1. PICK to \in Stages \ {"new", "inside", "over"} :
        \/ stage' = [stage EXCEPT ![e] = to]
        \/ TestDetached(e) /\ stage' = [stage EXCEPT ![e] = "over"]
  BY DEF Begin, BeginEvent, CountRejected, CountDropped, CountProcessed, Count, AddLatency, AddWait,
         CountFailed, CountRetried, AddRetries, TestDetached, Add, Goto, Stages
<1>2. /\ UNCHANGED <<phase, detached, state, loaded, exported, backend>>
      /\ stage[e] \notin {"inside", "over"}
  BY DEF Begin, BeginEvent, CountRejected, CountDropped, CountProcessed, Count, AddLatency, AddWait,
         CountFailed, CountRetried, AddRetries, TestDetached, Add, recorderVars, attachVars
<1>3. Begun(e.pool) /\ (Job(e) => phase[e.pool] = "running")
  <2>1. CASE Begin(e) BY <2>1 DEF Begin, MayBegin, Begun, Job
  <2>2. CASE Count(e)
    <3>1. stage[e] \notin {"new", "inside", "over"}
      BY <2>2 DEF Count, AddLatency, AddWait, CountFailed, CountRetried, AddRetries, TestDetached, Add
    <3>2. phase[e.pool] \in Phases BY EventsAssumption DEF TypeOK, RecordersTypeOK
    <3>3. phase[e.pool] \notin {"new", "register", "rollback", "free", "store", "failed"}
      BY <3>1 DEF SeriesInv
    <3> QED BY <3>1, <3>2, <3>3 DEF SeriesInv, Begun, AtRest, Phases
  <2> QED BY <2>1, <2>2
<1>4. IsAttacher /\ Job(e) => ~(TestDetached(e) /\ stage' = [stage EXCEPT ![e] = "over"])
  BY <1>3, EventsAssumption
  DEF SeriesInv, TestDetached, Goto, IsAttacher, TypeOK, MetricsTypeOK
<1>5. PICK s \in Stages \ {"new", "inside"} :
        /\ \A d \in Events : stage'[d] = IF d = e THEN s ELSE stage[d]
        /\ IsAttacher /\ Job(e) => s # "over"
  BY <1>1, <1>4 DEF TypeOK, MetricsTypeOK, Stages
<1>6. IsAttacher' <=> IsAttacher BY <1>2 DEF IsAttacher
<1>7. \A d \in Events : Job(d) /\ ~AtRest(d)' => phase[d.pool] = "running"
  BY <1>3, <1>5 DEF SeriesInv, AtRest
<1>8. \A d \in Events : stage'[d] = "new" <=> stage[d] = "new" /\ d # e BY <1>5
<1>9. IsAttacher => \A d \in Events : Job(d) =>
        (stage'[d] = "over" <=> stage[d] = "over") /\ (stage'[d] = "inside" => stage[d] = "inside")
  BY <1>2, <1>5
<1> QED BY <1>2, <1>3, <1>6, <1>7, <1>8, <1>9 DEF SeriesInv, Begun

LEMMA ReportSeries ==
  ASSUME TypeOK, SeriesInv, NEW e \in Events, LoadState(e) \/ Record(e) \/ RecordPanics(e)
  PROVE  SeriesInv'
<1> USE RecordersAssumption, EventsAssumption
    DEF TypeOK, MetricsTypeOK, RecordersTypeOK, SeriesInv, AtRest, Job, IsAttacher, Goto, attachVars,
        metricVars
<1>1. CASE LoadState(e)
  <2>1. IsAttacher /\ Job(e) => state[RecorderOf[e.pool]] = e.pool BY <1>1 DEF LoadState
  <2> QED BY <1>1, <2>1 DEF LoadState
<1>2. CASE Record(e)
  <2>1. loaded[e] \in Pools /\ (IsAttacher /\ Job(e) => loaded[e] = e.pool) BY <1>2 DEF Record
  <2>2. \A d \in Events, q \in Pools :
          d \in exported'[q] <=> d \in exported[q] \/ (d = e /\ q = loaded[e])
    BY <1>2, <2>1 DEF Record
  <2> QED BY <1>2, <2>1, <2>2 DEF Record
<1>3. CASE RecordPanics(e) BY <1>3 DEF RecordPanics
<1> QED BY <1>1, <1>2, <1>3

LEMMA NextSeries == TypeOK /\ HolderInv /\ SeriesInv /\ [Next]_vars => SeriesInv'
<1> SUFFICES ASSUME TypeOK, HolderInv, SeriesInv, [Next]_vars PROVE SeriesInv' OBVIOUS
<1>1. ASSUME UNCHANGED <<attachVars, eventVars, backend, detached>> PROVE SeriesInv'
  BY <1>1 DEF attachVars, eventVars, SeriesInv, AtRest, IsAttacher, Job
<1>2. CASE UNCHANGED vars BY <1>1, <1>2 DEF vars, metricVars
<1>3. ASSUME NEW p \in Pools, AttachStep(p) \/ DetachStep(p) PROVE SeriesInv'
  BY <1>3, AttachSeries
<1>4. ASSUME NEW e \in Events, EventStep(e) PROVE SeriesInv'
  BY <1>4, EarlyStepSeries, ReportSeries DEF EventStep
<1>5. CASE ReadAverage
  BY <1>1, <1>5 DEF ReadAverage, LoadCount, LoadSum, recorderVars, eventVars
<1> QED BY <1>2, <1>3, <1>4, <1>5 DEF Next, Ended

\* With promrecorder and otelrecorder every event of a job ends in the series of
\* its own pool, once, and in no other, however pools share the recorders.
THEOREM SeriesAlwaysOwn == Spec => []SeriesOwn
<1>1. Init => TypeOK /\ HolderInv /\ SeriesInv BY InitTypes, InitHolder, InitSeries
<1>2. TypeOK /\ HolderInv /\ SeriesInv /\ [Next]_vars => (TypeOK /\ HolderInv /\ SeriesInv)'
  BY NextTypes, NextHolder, NextSeries
<1>3. SeriesInv => SeriesOwn
  BY EventsAssumption DEF SeriesInv, SeriesOwn, AtRest, Job
<1> QED BY <1>1, <1>2, <1>3, PTL DEF Spec
=============================================================================
