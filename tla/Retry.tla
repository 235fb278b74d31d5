-------------------------------- MODULE Retry --------------------------------
(***************************************************************************)
(* One job on its worker: executeJob (execute.go) with the retry engine    *)
(* (retry.go). The module follows the job from its first attempt to the    *)
(* status that is recorded for it, while its context may end, a forced     *)
(* shutdown may begin and time passes.                                     *)
(***************************************************************************)
EXTENDS Backoff, ErrorTree

CONSTANTS
  MaxAttempts, MaxDelay, MaxElapsedTime, Jitter,  \* the policy's fields of those names
  Limits,           \* ErrorLimits: a sequence of records with err and max
  Strategy, Base, MultNum, MultDen,   \* its Backoff
  CtxEnds           \* how the context may end: "canceled", "deadline"

ASSUME PolicyAssumption ==
  /\ Jitter \in BOOLEAN
  /\ MaxAttempts \in Nat \ {0} /\ MaxDelay \in Nat /\ MaxElapsedTime \in Nat
  /\ Limits \in Seq([err : Errors, max : Nat \ {0}])
  /\ Strategy \in {"constant", "linear", "exponential"}
  /\ Base \in 0..maxDuration
  /\ MultNum \in Nat \ {0} /\ MultDen \in Nat \ {0} /\ MultNum >= MultDen
  /\ CtxEnds \subseteq {"canceled", "deadline"}

\* policy.Backoff.Next
NextDelay(retry) ==
  CASE Strategy = "constant"    -> ConstantNext(Base)
    [] Strategy = "linear"      -> LinearNext(Base, retry)
    [] Strategy = "exponential" -> ExponentialNext(Base, MultNum, MultDen, retry)

VARIABLES
  pc,         \* where executeJob is
  attempt,
  counts,     \* counts[i]: failures counted against Limits[i]
  failure,    \* the error of the last attempt
  delay,      \* the wait chosen for the next retry
  remaining,  \* what is left of it
  elapsed,    \* the time since the first attempt, up to TimeCap
  ctx, forceStop,
  retries,    \* the pool has a retry policy
  verdict,    \* what execute returns: "jobError" for the error of the job
              \* itself, else the Reason of a RetryError, or "ok"
  status,
  failed,     \* failed[i]: attempts that failed with the error of Limits[i]
  slept,      \* the sum of the waits before the retries, if there is a budget
  lateStarts  \* the attempts that began with the context done

engine  == <<pc, attempt, counts, failure, delay, remaining, verdict, status>>
outside == <<elapsed, ctx, forceStop, retries>>
history == <<failed, slept, lateStarts>>
vars    == <<engine, outside, history>>

\* Time beyond the budget makes no difference.
TimeCap == MaxElapsedTime + 1

Init ==
  /\ pc = "running" /\ attempt = 1
  /\ counts = [i \in DOMAIN Limits |-> 0]
  /\ failure = NoError /\ delay = 0 /\ remaining = 0 /\ elapsed = 0
  /\ ctx \in {"live"} \union CtxEnds
  /\ forceStop = FALSE /\ retries \in BOOLEAN
  /\ verdict = "none" /\ status = "none"
  /\ failed = [i \in DOMAIN Limits |-> 0]
  /\ slept = 0
  /\ lateStarts = IF ctx = "live" THEN 0 ELSE 1

-----------------------------------------------------------------------------
End(v) == pc' = "ended" /\ verdict' = v

\* runJob of a job that panics.
PanicError == [type |-> "panic", name |-> "recovered", unwraps |-> <<>>, delay |-> 0]

\* The first limit whose error err matches, 0 if there is none.
LimitOf(err) == SelectInSeq(Limits, LAMBDA l : Is(err, l.err))

Bump(f, i) == IF i \in DOMAIN f THEN [f EXCEPT ![i] = @ + 1] ELSE f

Succeed ==
  /\ pc = "running"
  /\ End("ok")
  /\ failure' = NoError
  /\ UNCHANGED <<attempt, counts, delay, remaining, status, outside, history>>

\* A *PanicError ends the job, whether the job panicked or returned one. So
\* does any error if there is no policy.
Panic ==
  /\ pc = "running"
  /\ End("jobError")
  /\ failure' = PanicError
  /\ UNCHANGED <<attempt, counts, delay, remaining, status, outside, history>>

Fail(err) ==
  /\ pc = "running"
  /\ failure' = err
  /\ IF err.type = "panic" \/ ~retries
     THEN End("jobError")
     ELSE pc' = "failed" /\ UNCHANGED verdict
  /\ failed' = Bump(failed, LimitOf(err))
  /\ UNCHANGED <<attempt, counts, delay, remaining, status, outside, slept, lateStarts>>

-----------------------------------------------------------------------------
(***************************************************************************)
(* stopReason, in the order of its cases.                                  *)
(***************************************************************************)
judged == <<attempt, failure, remaining, status, outside, history>>

isPermanent == hasMarker("permanentError", failure)

StopPermanent ==
  /\ pc = "failed" /\ isPermanent
  /\ End("permanent")
  /\ UNCHANGED <<counts, delay, judged>>

\* Mutant of Done: the engine does not ask for the context.
DoneNever == FALSE

\* ctx.Err() is not nil.
Done == ctx # "live"

StopDone ==
  /\ pc = "failed" /\ ~isPermanent
  /\ Done
  /\ End(ctx)
  /\ UNCHANGED <<counts, delay, judged>>

\* Mutant of OutOfAttempts: one attempt too many.
OneAttemptMore == attempt > MaxAttempts

OutOfAttempts == attempt >= MaxAttempts

\* Mutant of StopAtMaxAttempts: it comes before the test for Permanent.
StopAtMaxAttemptsFirst ==
  /\ pc = "failed"
  /\ OutOfAttempts
  /\ End("exhausted")
  /\ UNCHANGED <<counts, delay, judged>>

StopAtMaxAttempts ==
  /\ pc = "failed" /\ ~isPermanent /\ ~Done
  /\ OutOfAttempts
  /\ End("exhausted")
  /\ UNCHANGED <<counts, delay, judged>>

capDelay(d) == IF MaxDelay > 0 /\ MaxDelay < d THEN MaxDelay ELSE d

\* Mutant of Delays: the hint is not capped.
DelaysUncappedHint(retry, err) ==
  LET hint == findMarker("retryAfterError")[err]
      d == capDelay(NextDelay(retry))
  IN  IF hint # NoError THEN {hint.delay}
      ELSE IF Jitter /\ d > 0 THEN 0..(d - 1) ELSE {d}

\* The values delay may return: a hint goes before the backoff and is not
\* jittered.
Delays(retry, err) ==
  LET hint == findMarker("retryAfterError")[err]
      d == capDelay(NextDelay(retry))
  IN  IF hint # NoError THEN {capDelay(hint.delay)}
      ELSE IF Jitter /\ d > 0 THEN 0..(d - 1) ELSE {d}

\* Mutant of CountFailure: the limit is compared before the failure is counted.
CountFailureLate ==
  /\ pc = "failed" /\ ~isPermanent /\ ~Done /\ ~OutOfAttempts
  /\ LET i == LimitOf(failure) IN
       /\ counts' = Bump(counts, i)
       /\ IF i \in DOMAIN Limits /\ counts[i] >= Limits[i].max
          THEN End("exhausted") /\ UNCHANGED delay
          ELSE /\ pc' = "retrying" /\ UNCHANGED verdict
               /\ \E d \in Delays(attempt, failure) : delay' = d
  /\ UNCHANGED judged

\* errorLimitReached, and the delay if it was not.
CountFailure ==
  /\ pc = "failed" /\ ~isPermanent /\ ~Done /\ ~OutOfAttempts
  /\ LET i == LimitOf(failure) IN
       /\ counts' = Bump(counts, i)
       /\ IF i \in DOMAIN Limits /\ counts'[i] >= Limits[i].max
          THEN End("exhausted") /\ UNCHANGED delay
          ELSE /\ pc' = "retrying" /\ UNCHANGED verdict
               /\ \E d \in Delays(attempt, failure) : delay' = d
  /\ UNCHANGED judged

\* Mutant of CheckBudget: the time already spent is left out.
CheckBudgetFresh ==
  /\ pc = "retrying"
  /\ IF MaxElapsedTime > 0 /\ delay > MaxElapsedTime
     THEN End("budget")
     ELSE pc' = "wait" /\ UNCHANGED verdict
  /\ UNCHANGED <<counts, delay, judged>>

CheckBudget ==
  /\ pc = "retrying"
  /\ IF MaxElapsedTime > 0 /\ delay > MaxElapsedTime - elapsed
     THEN End("budget")
     ELSE pc' = "wait" /\ UNCHANGED verdict
  /\ UNCHANGED <<counts, delay, judged>>

-----------------------------------------------------------------------------
(***************************************************************************)
(* wait                                                                    *)
(***************************************************************************)
\* Mutant of NextAttempt: the attempts are not counted.
NextAttemptUncounted ==
  /\ pc' = "running"
  /\ slept' = IF MaxElapsedTime > 0 THEN slept + delay ELSE slept
  /\ lateStarts' = lateStarts + (IF ctx = "live" THEN 0 ELSE 1)
  /\ UNCHANGED <<attempt, counts, failure, delay, remaining, verdict, status, outside, failed>>

\* The next turn of the loop of execute.
NextAttempt ==
  /\ pc' = "running"
  /\ attempt' = attempt + 1
  /\ slept' = IF MaxElapsedTime > 0 THEN slept + delay ELSE slept
  /\ lateStarts' = lateStarts + (IF ctx = "live" THEN 0 ELSE 1)
  /\ UNCHANGED <<counts, failure, delay, remaining, verdict, status, outside, failed>>

\* Without a delay: the context first, then the stop, else on at once.
WaitNot ==
  /\ pc = "wait" /\ delay = 0
  /\ IF ctx = "live" /\ ~forceStop
     THEN NextAttempt
     ELSE /\ End(IF ctx # "live" THEN ctx ELSE "shutdown")
          /\ UNCHANGED <<counts, delay, judged>>

StartTimer ==
  /\ pc = "wait" /\ delay > 0
  /\ pc' = "select" /\ remaining' = delay
  /\ UNCHANGED <<attempt, counts, failure, delay, verdict, status, outside, history>>

\* The select: any case that is ready.
WaitCancelled ==
  /\ pc = "select" /\ ctx # "live"
  /\ End(ctx)
  /\ UNCHANGED <<counts, delay, judged>>

\* Mutant of WaitAborted: forceStop does not reach the engine.
NeverAborted ==
  /\ pc = "select" /\ FALSE
  /\ End("shutdown")
  /\ UNCHANGED <<counts, delay, judged>>

WaitAborted ==
  /\ pc = "select" /\ forceStop
  /\ End("shutdown")
  /\ UNCHANGED <<counts, delay, judged>>

WaitOver == pc = "select" /\ remaining = 0 /\ NextAttempt

-----------------------------------------------------------------------------
StatusFor(reason) == IF reason \in {"canceled", "deadline"} THEN "canceled" ELSE reason

\* Mutant of statusOf: without retries Permanent is an error like any other.
statusOfRetriesOnly(v, err) ==
  CASE v = "ok"                  -> "success"
    [] v \in Reasons             -> StatusFor(v)
    [] v = "jobError" /\ err.type = "panic"        -> "panic"
    [] v = "jobError" /\ ReasonOf(err) \in Reasons -> StatusFor(ReasonOf(err))
    [] OTHER -> "error"

\* The status of an error of the engine, else of the error of the job, which may
\* be a RetryError as well: the Err of a task of another pool.
statusOf(v, err) ==
  CASE v = "ok"                  -> "success"
    [] v \in Reasons             -> StatusFor(v)
    [] v = "jobError" /\ err.type = "panic"        -> "panic"
    [] v = "jobError" /\ ReasonOf(err) \in Reasons -> StatusFor(ReasonOf(err))
    [] OTHER -> IF hasMarker("permanentError", err) THEN "permanent" ELSE "error"

\* executeJob goes on with what execute returned.
Classify ==
  /\ pc = "ended"
  /\ pc' = "recorded"
  /\ status' = LET s == statusOf(verdict, failure)
               IN  IF s = "error" /\ ctx # "live" THEN "canceled" ELSE s
  /\ UNCHANGED <<attempt, counts, failure, delay, remaining, verdict, outside, history>>

-----------------------------------------------------------------------------
CtxEnd ==
  /\ ctx = "live"
  /\ \E how \in CtxEnds : ctx' = how
  /\ UNCHANGED <<engine, elapsed, forceStop, retries, history>>

ForceStop ==
  /\ ~forceStop
  /\ forceStop' = TRUE
  /\ UNCHANGED <<engine, elapsed, ctx, retries, history>>

\* A unit of time passes, for the budget and for the timer that is set.
Tick ==
  /\ elapsed < TimeCap \/ (pc = "select" /\ remaining > 0)
  /\ elapsed' = IF elapsed < TimeCap THEN elapsed + 1 ELSE elapsed
  /\ remaining' = IF pc = "select" /\ remaining > 0 THEN remaining - 1 ELSE remaining
  /\ UNCHANGED <<pc, attempt, counts, failure, delay, verdict, status, ctx, forceStop, retries,
                 history>>

AttemptEnds == Succeed \/ Panic \/ \E err \in Errors : Fail(err)

EngineStep ==
  \/ StopPermanent \/ StopDone \/ StopAtMaxAttempts \/ CountFailure \/ CheckBudget
  \/ WaitNot \/ StartTimer \/ WaitCancelled \/ WaitAborted \/ WaitOver
  \/ Classify

Recorded == pc = "recorded" /\ UNCHANGED vars

Next == AttemptEnds \/ EngineStep \/ CtxEnd \/ ForceStop \/ Tick \/ Recorded

Spec == Init /\ [][Next]_vars

\* Attempts end and the worker is scheduled. The clock may stand still, so no
\* wait ends by itself.
FairSpec == Spec /\ WF_vars(AttemptEnds) /\ WF_vars(EngineStep)

-----------------------------------------------------------------------------
Verdicts == {"ok", "jobError", "permanent", "exhausted", "budget", "shutdown"} \union CtxEnds

\* Every variable has its type; there is no attempt beyond MaxAttempts.
TypeOK ==
  /\ pc \in {"running", "failed", "retrying", "wait", "select", "ended", "recorded"}
  /\ attempt \in 1..MaxAttempts
  /\ counts \in [DOMAIN Limits -> Nat]
  /\ failure \in Errors \union {NoError, PanicError}
  /\ delay \in Nat /\ remaining \in Nat /\ elapsed \in 0..TimeCap
  /\ ctx \in {"live"} \union CtxEnds /\ forceStop \in BOOLEAN /\ retries \in BOOLEAN
  /\ verdict \in {"none"} \union Verdicts
  /\ status \in {"none", "success", "error", "panic", "exhausted", "budget", "permanent",
                 "shutdown", "canceled"}
  /\ failed \in [DOMAIN Limits -> Nat]
  /\ slept \in Nat /\ lateStarts \in Nat

\* No job fails more often with an error of ErrorLimits than its limit allows,
\* in whatever order the errors come.
LimitsKept ==
  \A i \in DOMAIN Limits : failed[i] <= Limits[i].max

Waiting == pc \in {"wait", "select"}

\* The waits of a job together never exceed its budget, and none is longer
\* than MaxDelay, hints included: a retrying job cannot hold its worker longer.
WaitsBounded ==
  Waiting => /\ MaxDelay > 0 => delay <= MaxDelay
             /\ MaxElapsedTime > 0 => slept + delay <= MaxElapsedTime

\* A job whose context is done begins at most one more attempt: the one of a
\* timer that was ready together with the context.
OneLateStart == lateStarts <= 1

\* The reason given for the end is what happened, and Permanent is the reason
\* whenever the last error was marked so.
VerdictTrue ==
  /\ verdict = "exhausted" =>
       attempt = MaxAttempts \/ \E i \in DOMAIN Limits : failed[i] = Limits[i].max
  /\ verdict \in CtxEnds => ctx = verdict
  /\ verdict = "shutdown" => forceStop
  /\ verdict = "budget" => MaxElapsedTime > 0 /\ elapsed + delay > MaxElapsedTime
  /\ verdict \notin {"none", "ok", "jobError", "permanent"} => ~isPermanent

\* The status of a task is permanent if its last error was marked Permanent,
\* wherever in the tree of errors, with and without a retry policy.
StatusPermanent ==
  pc = "recorded" =>
    (status = "permanent" <=>
       failure \in Errors /\ failure.type # "panic" /\ isPermanent)

\* The errors under an error, itself first, as errors.As visits them.
Preorder ==
  LET walk[e \in Errors] ==
        <<e>> \o FlattenSeq([i \in DOMAIN e.unwraps |-> walk[e.unwraps[i]]])
  IN  walk

\* What findMarker finds below the error of an attempt is what errors.As would:
\* the first of its type on that walk.
MarkerIsFirst ==
  pc = "failed" =>
    \A type \in ErrorTypes :
      findMarker(type)[failure] = First(Preorder[failure], LAMBDA e : e.type = type)

\* If time passes the job ends: neither limits nor backoff keep it for ever.
JobEnds == WF_vars(Tick) => <>(pc = "recorded")

\* A forced shutdown or the end of the context ends the job, if its attempts
\* end, without any timer having to fire.
StopEndsJob == (forceStop \/ ctx # "live") ~> pc = "recorded"
=============================================================================
