------------------------------ MODULE Reporting ------------------------------
(***************************************************************************)
(* Pools, their metrics and their recorders together: New attaches, events *)
(* are counted and reported while the pool runs, Shutdown detaches. Of the *)
(* pool only what orders these is left; AdaptivePool has the rest of it.   *)
(***************************************************************************)
EXTENDS Recorders

CONSTANT Longest    \* no job runs, or waits in the queue, for longer

ASSUME LongestAssumption ==
  Longest \in Nat /\ \A e \in Events : e.latency <= Longest /\ e.wait <= Longest

recorderVars == <<attachVars, loaded, exported>>
vars == <<attachVars, eventVars, metricVars>>

Init == MetricsInit /\ RecordersInit

JobEvents(p) == {e \in Events : e.pool = p /\ e.call # "rejected"}

AtRest(e) == stage[e] \in {"new", "over"}

\* New has returned the pool; after Shutdown has waited for workers, dispatcher
\* and submissions, only a late Submit reports, its own rejection.
Begun(p) == phase[p] \in {"running", "swap", "unregister", "release", "gone"}
MayBegin(e) == IF e.call = "rejected" THEN Begun(e.pool) ELSE phase[e.pool] = "running"

Begin(e) ==
  /\ MayBegin(e)
  /\ BeginEvent(e) \/ CountRejected(e) \/ CountDropped(e) \/ CountProcessed(e)
  /\ UNCHANGED recorderVars

\* The rest of the counting, and the test of detached.
Count(e) ==
  /\ \/ AddLatency(e) \/ AddWait(e) \/ CountFailed(e) \/ CountRetried(e) \/ AddRetries(e)
     \/ TestDetached(e)
  /\ UNCHANGED recorderVars

ReadAverage ==
  /\ LoadCount \/ \E p \in Pools, sum \in {"latency", "wait"} : LoadSum(p, sum)
  /\ UNCHANGED recorderVars

\* Mutant of StartDetach: the recorder is detached as soon as Shutdown begins.
StartDetachAtOnce(p) ==
  /\ phase[p] = "running"
  /\ detached' = [detached EXCEPT ![p] = TRUE]
  /\ Enter(p, IF IsAttacher THEN "swap" ELSE "gone")
  /\ UNCHANGED <<todo, attached, state, registered, eventVars, backend, counters, reading>>

\* detach, when every worker has exited. No event of a job is under way then
\* (JobEventsBeforeDetach in AdaptivePool).
StartDetach(p) ==
  /\ phase[p] = "running" /\ \A e \in JobEvents(p) : AtRest(e)
  /\ detached' = [detached EXCEPT ![p] = TRUE]
  /\ Enter(p, IF IsAttacher THEN "swap" ELSE "gone")
  /\ UNCHANGED <<todo, attached, state, registered, eventVars, backend, counters, reading>>

AttachStep(p) ==
  \/ NoAttach(p) \/ Claim(p) \/ PromRegister(p) \/ PromRefused(p) \/ Rollback(p)
  \/ OtelRegister(p) \/ OtelRefused(p) \/ Free(p) \/ StoreState(p)

DetachStep(p) == StartDetach(p) \/ SwapState(p) \/ UnregisterPart(p) \/ Release(p)

EventStep(e) == Begin(e) \/ Count(e) \/ LoadState(e) \/ Record(e) \/ RecordPanics(e)

\* A pool that is gone, or was never started, reports nothing more.
Ended ==
  /\ \A p \in Pools : phase[p] \in {"failed", "gone"}
  /\ UNCHANGED vars

Next ==
  \/ \E p \in Pools : AttachStep(p) \/ DetachStep(p)
  \/ \E e \in Events : EventStep(e)
  \/ ReadAverage
  \/ Ended

Spec == Init /\ [][Next]_vars

-----------------------------------------------------------------------------
(***************************************************************************)
(* Properties                                                              *)
(***************************************************************************)
\* Every variable has its type, and no event goes on with a nil state.
TypeOK == MetricsTypeOK /\ RecordersTypeOK

\* An average is at most the longest time of a job, however its two loads fall
\* between the additions of jobs that end: each is counted before it is summed.
AverageWithinLongest == reading # NotReading => Returned <= Longest

\* The flag of a recorder is set exactly while one pool has it, from Attach or
\* its failure to the end of Detach. Two pools never record to one recorder.
Holding(p) == IsAttacher /\ phase[p] \notin {"new", "failed", "gone"}

OneHolder ==
  \A r \in Recs :
    LET holders == {p \in Pools : RecorderOf[p] = r /\ Holding(p)}
    IN  /\ attached[r] <=> holders # {}
        /\ \A p, q \in holders : p = q
        /\ state[r] # NoPool => state[r] \in holders

\* While a pool runs all its collectors are in the registry, and are its own,
\* whatever pools of the same name attach, fail and detach beside it.
AttachedIsComplete ==
  \A p \in Pools : IsAttacher /\ phase[p] \in {"store", "running", "swap"} =>
    \A i \in Parts : [owner |-> p, part |-> i] \in registered

\* Once New has failed or Shutdown has detached, the registry holds nothing of
\* the pool: a later pool of that name can attach.
NothingLeft ==
  \A c \in registered : phase[c.owner] \notin {"new", "free", "failed", "release", "gone"}

\* An event of a job or the dispatcher, once over, is in the series of its own
\* pool and in no other: none is lost to Detach, or told to the next pool.
SeriesOwn ==
  IsAttacher => \A e \in Events : e.call # "rejected" /\ AtRest(e) =>
    {q \in Pools : e \in exported[q]} = IF stage[e] = "over" THEN {e.pool} ELSE {}

-----------------------------------------------------------------------------
\* A claim of the documentation that the code does not keep: the series of a
\* pool hold its own events.
OwnEventsOnly == \A p \in Pools : \A e \in exported[p] : e.pool = p
=============================================================================
