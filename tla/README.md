# go-adaptive-pool in TLA+

A verification development of the worker pool `adaptivepool`: modules that model its
goroutines and locks step by step, its retry engine attempt by attempt, its metrics and recorders
access by access and what `New` makes of its options, the TLC configurations that check them, an
abstract ledger of tasks the pool implements, and theorems that TLAPS checks for any number of
submissions, workers and Shutdown calls, any retry policy, any pools and recorders and any list of
options.

All paths below are relative to the repository.

## 1. Inventory of the system

| Component | Code | State it keeps | Operations |
|---|---|---|---|
| Submission | `submit.go`, `internal_types.go` | the channel `jobQueue`, `submitMu`, `closing`, the shutdown state | `Submit`, `SubmitTask`, `TrySubmit`, `submit` |
| Workers | `pool.go` `runWorker`, `execute.go` | `workerWg`, `workerCount`, `busyWorkers`, one idle timer per worker, `forceStop` | the worker's select, `executeJob`, `dropJob`, `notifyTaskDone` |
| Scaling | `pool.go` `New`, `runDispatcher`, `checkScaling`, `scaleUp` | `lastScaleUp`, `dispatcherWg`, the dispatcher's context | spawn the minimum, tick, scale up |
| Shutdown | `shutdown.go` | `shutdownStarted`, `shutdownDone`, `shutdownErr`, `workersDone`, `drained` | the first call, later calls, `detachRecorder` |
| Metrics | `metrics.go` | atomic counters, latency sums, `detached` | `record...`, `detach`, the getters |
| Recorders | `recorder.go`, `promrecorder`, `otelrecorder` | `attached`, `state`; the registry's collectors or the provider's callbacks | `Attach`, `Detach`, the events |
| Retry engine | `retry.go` | attempts, counts per error limit, start time | `execute`, `stopReason`, `delay`, `wait`, three backoffs |
| Errors and results | `errors.go`, `task.go` | none | `findMarker`, `Permanent`, `RetryAfter`, `statusOf` |
| Configuration | `options.go`, `autoconfig.go`, `pool.go` `New` | `Config` | options, profiles, system-aware sizes, `validate` |
| Host limits | `cgroup*.go` | none | read limits from files |

How they interact. A submission holds `submitMu` for reading from its checks to its report, and
sends on `jobQueue`. Workers receive from it. The dispatcher looks at the length of the queue and
the worker count and adds workers; workers retire themselves on an idle timer. `Shutdown` sets the
draining state, closes `closing` (which wakes submissions that wait for room), cancels the
dispatcher and waits for it, takes `submitMu` for writing, closes `jobQueue`, waits for the
workers; if its context ends first it closes `forceStop`, drops what is queued itself, and waits
one more second. `forceStop` also ends the waits between retries. Every event passes through the
metrics to a recorder, which is detached when the last worker has gone.

What is hard here: a submission between its check and its send while the queue is closed; blocked
readers of `submitMu` in front of a writer; retirement decided on a count that is decremented only
later; a forced shutdown that takes jobs from three places; a second of grace after which the
workers, the dropped count and the detaching go on behind Shutdown's back; several Shutdown calls;
recorders that one pool leaves while another takes them, on a registry that knows collectors by
description only; sums and counts without a common lock; options applied twice.
`PROJECT.json` lists each of these hazards at its line, with the properties that cover it.

What makes each component correct:

* submission: no send on a closed channel; accepted means queued once; nobody blocks for ever, and
  Shutdown wakes who is blocked;
* workers: a received job is started or dropped, never both or neither, and reported once; counters
  agree with the goroutines there are;
* scaling: never over `maxWorkers`; a lasting backlog gets the pool there; nothing is spawned once
  the workers are waited for;
* shutdown: it returns; its result tells the truth about dropped jobs; all calls agree; afterwards
  the pool is inert; the recorder is detached, once and after the last event of a job;
* retry: never more attempts than any limit allows, the right reason, no wait that outlives the
  context, a forced stop or the budget;
* metrics: averages are plausible at any moment;
* recorders: one pool at a time, all of its collectors while it runs and none afterwards, its own
  events in its series, none of them lost;
* configuration: whatever options are combined, what `New` uses passes `validate`; explicit options win; an
  auto-config is always valid; no delay wraps around.

## 2. Modules

| Module | Models |
|---|---|
| `PoolState` | constants with their assumptions, every variable, `Init`, the types, operators more than one component uses |
| `Submission` | `submit`: the lock, the two selects, each rejection and report, the end of the caller's context |
| `Workers` | the worker goroutine: each case of its select, execution, drop, hook, idle check, exit |
| `Scaling` | the spawning loop of `New`, the dispatcher, `scaleUp`, the cooldown |
| `ShutdownProtocol` | the first Shutdown call, the later ones, and the goroutines they leave behind |
| `AdaptivePool` | the composition, fairness, the properties, the refinement mapping |
| `TaskLedger` | abstract specification: what the pool promises about each submission |
| `MCAdaptivePool` | the instance TLC runs: symmetry of the worker slots |
| `AdaptivePoolProofs` | theorems about `AdaptivePool`: types, the closed queue, the fate of each task, the counters, the bound of workers |
| `PoolShutdownProofs` | theorems about the end of the pool: its order, its results, the recorder, who may be left waiting |
| `PoolLedgerProofs` | the refinement of `TaskLedger`, step by step |
| `Backoff` | the three backoffs of `retry.go`, in the arithmetic of a duration of limited size and of rounded floats with `NaN` and +Inf |
| `MCFloats` | a small format of floats for TLC |
| `ErrorTree` | errors as trees of wrappers and joins; `findMarker`, `hasMarker`, `errors.Is` |
| `Retry` | one job on its worker: the attempts, the stop reasons, the delay, the budget, the wait, the status |
| `MCRetry` | the errors and limits TLC runs `Retry` with |
| `Recursion` | induction and recursively defined functions, as lemmas about sets; used by the next two |
| `BackoffProofs` | theorems about `Backoff`, used by the next and by `ConfigProofs` |
| `RetryProofs` | theorems about `Retry`, with their proofs |
| `Metrics` | the counters of pools, the additions of each event one by one, the averages in their two loads, the test of `detached` |
| `Recorders` | `Attach` and `Detach` of `promrecorder` and `otelrecorder` step by step, the registry, the load of the state and the recording of an event |
| `Reporting` | the composition of the two with what of a pool's life orders them; the properties |
| `MCReporting` | three pools, two recorders and five events for TLC |
| `ReportingProofs` | theorems about `Reporting`, with their proofs |
| `Config` | `New` up to the first worker: options, auto-config, host limits, validation, the policy of the engine |
| `MCConfig` | the calls of `New` and the hosts TLC runs `Config` with |
| `ConfigProofs` | theorems about `Config`, with their proofs |

The four components share the state of one struct (`poolState`), so they share `PoolState` instead
of passing messages. A *task* stands for one call of a submitting method with the job it carries, a
*worker* for a slot a goroutine can occupy (reused after its exit), a *caller* for one call of
Shutdown.

`Retry` is a module of its own: a job shares nothing with the pool but its context and
`forceStop`, and the pool nothing with the engine but the time it takes. What is one step in
`Workers` (`running` to `reportDone`, at any time or never) is the whole of `Retry`, which
therefore lets the context end and the forced stop begin at any moment. `RetryEnds` shows that the
step is taken: it is what `Workers` assumes of a job that ends.

`Reporting` is a second look at the reports of `AdaptivePool`, from the other side: there a report is
one step and one pool, here the pool is reduced to three facts (events of jobs begin once `New` has
returned, `detach` waits for them, rejections may come at any time after that) and every access of
metrics, recorder and registry is a step. The second fact is `JobEventsBeforeDetach` of
`AdaptivePool`; the third is why `OwnEventsOnly` fails.

`Config` gives what the other modules assume: what it builds satisfies what `ConfigAssumption` and
`PolicyAssumption` say of sizes and policies (theorem `BuiltWithinAssumptions`), and its delays are
those of `Backoff`, which `Retry` uses.

### State and code

* `call[t]`: new, then `locked` (holds the read lock), `sending` (past the checks, at the first
  select), `waiting` (second select), `reporting` (decided, recorder not told yet), returned.
  `answer[t]` is the error returned, `ctx[t]` the context.
* `worker[w]`: `loop` (at the select), `taken` (job received, `forceStop` not looked at again),
  `running`, `reportDone`/`reportDrop` (the test of `detached` passed, recorder not called yet),
  `notifyDone`/`notifyDrop` (before the OnTaskDone hook), `retiring`/`stopping` (returned, deferred
  calls to come).
* `timer[w]`: `armed`, `expired` (idle since it was set), `overrun` (it expired during a job).
* `dispatcher`: `select`, `scale` (inside `scaleUp`, before the counts are read), `spawn`, `report`,
  `stopped`; `toAdd` and `booting` are the workers still to spawn.
* `shut[c]`: for the first call `won`, `dispatcher`, `lock`, `wait`, `drop`, `grace`, `finish`; for
  later ones `check`, `await`.
* `runs`, `drops`, `notices` count, for each task, starts, calls of `dropJob` and of `OnTaskDone`;
  `late` collects the kinds of event a detached recorder was told. They are history: no guard reads
  them.

In `Retry`:

* `pc`: `running` (in `runJob`), `failed` (`stopReason` to come), `retrying` (the delay is chosen,
  the budget not yet asked), `wait`, `select` (the timer is set), `ended` (`execute` has returned),
  `recorded` (`executeJob` has its status). `retries` says whether the pool has a policy at all;
  without one any failure ends the job.
* `verdict` is the `Reason` of the `RetryError`, `jobError` for an error returned as it is, `ok`.
* `counts` is the array of `execute`; `failed` is history, the failures there really were.
* `elapsed` is the clock since `start`, up to `TimeCap`, one more than the budget: further time cannot
  change a comparison. `remaining` is the timer. `slept` and `lateStarts` are history.
* The context is read in `stopReason` and again in `wait`, the clock after the delay is chosen, and
  in between the outside may move: each is a step.

In `Metrics` and `Recorders`:

* `stage[e]` is the next access of the call that reports event `e`: `new`, the additions of
  `recordJobDone` (`latency`, `wait`, `failed`, `retried`, `attempts`), `test` (of `detached`),
  `report` (the recorder is called, its state not loaded yet), `inside` (a state is loaded), `over`.
* `phase[p]` is where `New` or `Shutdown` of `p` is in `Attach` or `Detach`; `todo[p]` the collectors its
  loop has left. `attached[r]` and `state[r]` are the fields of the recorder; a state is named by the
  pool it was made for. `registered` is what the registry holds, each collector with the pool that
  made it, which the registry does not know: it compares `Id`, the description.
* `backend` is `none`, `plain` (no Attacher; may panic), `prom` or `otel`. All pools of a behaviour have
  the same kind; the two packages share no variable.
* `reading` is the one average under way: its pool, and the sum loaded so far. `exported[p]`, the
  events recorded in the series of `p`, and `loaded` are what the series show.

In `Config`: `config` is the `Config` under construction, `pc` and `next` say which pass and which
option come next, `limits` is the caller's slice of error limits, `engine` the policy of the retrier,
`retry` the retry whose delay is looked at. A fraction is a percentage, or `NaN`; a multiplier is
a pair, or `NaN` or `Inf`. An option is a record of the field it sets and the value.

In `Backoff`: a float is a number of units of the least float above zero, or `NaN`; `Floats` lists the
floats by their bit patterns, as an IEEE format orders them, and its last entry stands for +Inf.
`Round` takes the nearest, on a tie the one with the even pattern, and so overflows as the format
does. `ExponentialNext` goes through it at each operation of `retry.go:110-114`: the base becomes a
float, `math.Pow` gives one, the product is one, or `NaN` for 0 times +Inf, `maxDuration` becomes
2^63 (in the real format), and the conversion gives `Arbitrary` for what is no duration, `NaN` included.
`math.Pow` is a library function: `Pow` is the float nearest to the power. Of its digits only two facts
matter here: with a multiplier of at least 1 it gives at least 1 (all the range of the delays
needs), and no less for a larger exponent (`NeverShrinks` needs it too).

### What is one step and why

A step is as small as the code that another goroutine can tell apart:

* reading the state of the pool or the worker count, and acting on it, are separate steps where the
  code separates them: `checkScaling`/`PlanScaleUp`, `IdleCheck`/`Exit`, `PassChecks`/`SendAtOnce`,
  the test of `detached` and the report, the receive and the second look at `forceStop`;
* `SpawnWorker` is the increment, `workerWg.Add` and `go`: a goroutine that has not been scheduled
  yet is one that has not taken a step;
* `Announce` merges the draining state, `close(closing)` and `dispatcherCancel`; `Exit` merges the
  decrement and `workerWg.Done`; `Finish` merges the reading of the count, the direct detach and the
  closing of `shutdownDone`: no goroutine reads two of the variables a merged step writes, and
  none acts between them on one in a way that the step before or after does not allow;
* in `DropQueued` the leader reports and calls the hook in one step; only the leader detaches while
  it drops.

Waiting submissions may overtake each other in the model, while a Go channel serves blocked senders
in order: the model has more behaviours, so what it never does the code never does. A receive and
the blocked send it lets in are two steps. Contexts, timers and the cooldown may end at any time;
a timer that has been reset cannot deliver an expiry from before. Submissions and Shutdown calls
begin only once `New` has returned. A recorder is always there: without one the reports are
no steps, and `late` stays empty.

## 3. Runs

| Run | Question | Instance |
|---|---|---|
| `Pool` | types, exact counters, one place and at most one notice for each job, workers gone before Wait has returned and not after, no job event after Detach | 2 tasks (one TrySubmit), 2 slots, 1..2 workers, queue of 1, one Shutdown, contexts may be cancelled; symmetric slots |
| `Submitting` | three submissions of the three kinds compete for one place while Shutdown runs; refinement of `TaskLedger` | 3 tasks (Submit, TrySubmit, SubmitTask with its own context), deadlines, 1 worker |
| `ShuttingDown` | results of two Shutdown calls, the dropped count, inertness, nobody left waiting | 2 tasks and a nil job, 2 fixed workers, 2 callers |
| `ScalingUp` | the bound of workers while New, dispatcher and retiring workers change the count; a lasting backlog reaches `maxWorkers`, jobs hanging | 3 tasks, 2 slots, 1..2 workers, threshold 50 % of a queue of 1 |
| `Live` | every submission, accepted job and Shutdown call comes to its end if jobs end, and the recorder is detached; Shutdown and blocked submissions also if jobs hang for ever | 3 tasks on one worker and a queue of 1, so that one stays blocked; one Shutdown call |
| `Retrying` | attempts, limits, waits, reason and status of one job, with and without a policy | 15 errors (two limited ones, hints, Permanent, joins of both, a `*PanicError` and two `*RetryError`s of another pool), 4 attempts, limits of 2 and 3, linear delays up to a cap of 3, jitter, budget of 6, contexts canceled or past their deadline |
| `RetryEnds` | the job ends if time passes; stopped or cancelled, it ends without the clock | the same errors, 3 attempts, exponential delays, no cap, no budget |
| `Reporting` | one holder per recorder, complete and clean registries, plausible averages, own series | 3 pools of one name, p1 and p3 with one recorder; 2 collectors each; 5 events: two ended jobs and a rejection of p1, a drop, a scale-up; the four backends |
| `Configuring` | explicit options win, auto-configs are valid, queues fit, limits are copied, delays stay in their range and never shrink | all lists of up to 3 of 21 options on one host; 270 system-aware configurations on 27 hosts; every backoff with bases to 31, multipliers of 1, 3/2 and 3, floats with a significand of 3 bits, 4 slices of limits, 12 retries |
| `AbandonedJobs`, `LateRejection`, `BusyWorkerRetired` | the findings of section 6 | the smallest instance that shows each |

Bounds. One place in the queue is the smallest queue that can be full, and it is full with one
submission; two tasks make a queued and a held job, or a sent and a blocked one, and the third adds
a blocked TrySubmit or a second contender. Two workers are what the races on the worker count need: `New`
or a retiring worker and `scaleUp`. For `BacklogScalesUp` there must be a job more than `MaxWorkers`
workers can hang on and the queue lets go: with three jobs and two workers the third stays queued for
ever, so the backlog does not end by itself. (Without `workerCount >= MaxWorkers` among the outcomes
TLC finds that behaviour.) Four jobs on three workers are beyond TLC here. Two Shutdown calls are a leader and a follower;
followers do not touch each other. A job runs once, so every behaviour is finite in
its submissions; worker slots are reused, so spawning and retiring go on without a bound. The count
`AddCount` returns exceeds one only from eight workers on; that it lies within 1 and the room left
for every count is lemma `AddCountFits`, not a run.

For `Retry`: four attempts are more than each limit and not more than both together, so that any of
the three can come first; the delays 6, 12, ... lie above the cap of 3, and a budget of 6 leaves
room for two waits of that length and no third. The hints are 0, 1 and 4, below and above the cap.
`maxDuration` is 15 or 31, 2^n - 1 as in the code, so that products leave it after a few retries:
`Wrap` then gives what a signed product of that width gives.
The floats have three significant bits, fewer than the five of a duration of 31, as 53 are fewer than
63: bases are rounded, that of 31 to 32, and `Float(maxDuration)` is the first float that is no
duration. +Inf takes the place of 2^12 times 1.0 in `Configuring`, so that a multiplier of 3 reaches it
at the ninth retry, also with a base of zero. `Arbitrary` is the least duration, as on amd64. `elapsed` is the only variable that is
cut off, exactly (above); waits and attempts are bounded by the policy itself. Time is a count of
units, and an attempt may take any number of them.

For `Reporting`: two collectors make a conflict on the first and on a later one, with something to
roll back; p1 and p3 share a recorder one after the other and at the same time, p2 competes with
both for the names in the registry. Two jobs of one pool make every order of additions and loads
that an average can see, with times 2 and 3, 1 and 2 (`Longest` is 3). One average is read at a time,
any number of times; two readers do not affect each other.

For `Config`: three options are an explicit one before, behind or on both sides of an auto-config, or
two auto-configs; the fields are independent, so more change nothing new. `maxInt64` is 4095 and
memory a few hundred units, so that all branches of the queue size, zero included, are taken. The
values of a host are multiplied as they are: 64-bit overflow of sizes would need more CPUs than there
are.

Deadlock is checked everywhere: `Finished` lets the pool rest only when every submission and every
Shutdown call has returned, `Recorded` a job only with its status, `Ended` pools only when all are gone
or have failed and `New` only when it has returned, so a state in which somebody waits and nobody
moves is an error.

`NobodyStuck` asks more than the absence of deadlocks, which only concerns the end: in a state in which
no job runs and no goroutine can go on, whatever timers, contexts and callers might still do, nobody may
be left waiting for somebody who waits. `Resting` writes the guards of the steps out, one operator for each kind
of goroutine (`SubmitReady`, `WorkerReady`, `ScalingReady`, `ShutdownReady`), because `ENABLED` is
beyond the provers. `Resting` leaves out the steps of the world outside: the idle timer, the grace
second, the ticker, contexts, the end of a job, and further calls of Shutdown. Starting a worker counts as
possible even if every slot is taken, since slots are a bound of the model.

Two preconditions are part of the results. `WorkersWithinMax` is checked with a threshold above
zero: with a threshold of 0 the dispatcher may add a worker while `New` still spawns its own, and
`New` does not look at the count. `NilMeansAllRan` holds with `MinWorkers = MaxWorkers`, where nobody
retires; `AbandonedJobs` shows what happens otherwise.

## 4. Fairness

* Weak fairness for each step of a goroutine: the Go scheduler runs what can run, and a select with
  a case that stays ready takes one. It is stated per goroutine and, for workers, per kind of
  case, so no liveness result rests on a select that prefers a case. The expiry of the idle timer has
  no fairness: a worker need not retire.
* Strong fairness for `StopDispatcher`: the dispatcher's select chooses at random between a tick and
  the cancelled context, and cannot lose for ever.
* `FairSpec` has nothing more. That jobs end (`JobsEnd`) and that the callers of Shutdown give up at
  some time (`CallersGiveUp`) are premises of the single properties: `SubmissionsReturn`,
  `AcceptedIsSettled` and `RecorderDetached` need the first, `ShutdownReturns` either, and
  `ShutdownReleasesSubmits` none. `TickingSpec` has the ticker tick and cooldowns pass, lets jobs hang,
  and is strongly fair to the receive: a worker's select that finds a job and an expired idle timer
  chooses at random, so new workers cannot all retire in front of a job for ever. Without this
  assumption TLC shows that cycle.
* No context of a submission and no idle timer has to end anywhere.
* `Retry!FairSpec`: attempts end, and the worker's own steps are taken. The clock may stand still;
  `JobEnds` has passing time as its premise, `StopEndsJob` has not.

## 5. What is proved

`AdaptivePoolProofs` proves for every set of tasks, callers and worker slots and every configuration that
satisfies `ConfigAssumption`, `TasksAssumption` and `WorkersAssumption`:

* `TypesKept` (`Spec => []TypeOK`). One lemma per component; the bound of the queue comes from
  `Accept`, that of `toAdd` from `AddCountFits`.
* `NeverSendsOnClosedQueue` (`Spec => []NoSendOnClosedQueue`). Alone it is not inductive: nothing
  in it stops a submission from passing its checks after the closing. `CloseInv` adds that the
  leader past `won` has left the running state, that only one call is a leader, and that a closed
  queue implies a state that is not running; `CloseQueue` needs an empty set of readers, and
  `PassChecks` a running pool.
* `FateKept` (`Spec => []FateInv`), and from it `TasksConserved` (`TaskConservation`,
  which is `OnePlace` and `OneNotice`). `FateInv` relates, for every task, where its submission is, whether it
  is queued, who holds it, which worker is executing or reporting it, and the three counts. The last
  part is what makes it inductive: a task that is being run or dropped belongs to one worker, and
  has not been notified.

Every other theorem about the pool begins with frame lemmas (`SubmissionFrame`, `WorkerFrame`, `ScalingFrame`,
`ShutdownFrame`, `DrainFrame`): which variables a step of a component cannot touch. Each invariant below is then disturbed by few actions, and was
checked by TLC on the instances of `Pool`, `ShuttingDown` and `Submitting` before it was proved.

* `CountersAreExact` (`CountersExact`). `CountInv` is the property with the sets named and finite. That
  `jobsDropped` counts a set of tasks needs `FateInv`: the task dropped had not been dropped before.
* `NeverTooManyWorkers` (`WorkersWithinMax`), for `ThresholdPct > 0`. The property is not inductive:
  `New` spawns without a look at the count. `RoomInv` reserves the workers still to spawn and says why
  `scaleUp` does not run meanwhile: no submission has begun, and an empty queue is below a threshold
  above zero (`BusyDepthPositive`).
* `WorkersAreGoneForGood` (`WorkersGoneForGood`). `LeaderInv`: one call leads, and none once
  `shutdownDone` is set. `OrderInv`: the order in which a Shutdown passes its stages, which is what
  it rests on that nothing spawns behind `workerWg.Wait`. `ExitInv`: `drained`, `detached` and the
  pending detach follow the exit of the last worker.
* `PoolInertOnceDrained` (`InertOnceDrained`, an action property) from the same three: with the queue
  closed, no worker alive, no leader and a stopped dispatcher no step is left that changes a job.
* `AllResultsAgree` (`ResultsAgree`) and `DroppedIsExact` (`DroppedExact`). `VerdictInv` follows
  `shutdownErr` through the leader's stages and says that it is never written again, nor a drop
  counted, once `shutdownDone` is set with the pool drained.
* `NoJobEventsAfterDetach` (`JobEventsBeforeDetach`). `RecorderInv` adds that no accepted submission
  still has to report once the queue is closed, since the close waits for its read lock.
* `NilLosesOnlyQueued`: after a Shutdown that returned nil every accepted job has run once and been
  notified once (`RanOrQueued`), or it is in the queue, neither run nor dropped. It has no
  hypothesis, so it also says what `AbandonedJobs` can lose: never a job a worker had taken.
  `NoticeInv`: a job started or dropped but not yet notified is with a worker.
* `NilSaysAllRan` (`NilMeansAllRan`), for `MinWorkers = MaxWorkers` and `ThresholdPct > 0`: then the queue
  is empty as well. `ServedInv`: as long as nobody forces the pool, it has its workers or its closed
  queue is empty. Neither hypothesis can be left out: `AbandonedJobs` shows a pool whose workers
  retire, and with a threshold of 0 a pool may for a moment have more than `MaxWorkers`, all of
  which may then retire together (TLC finds it with one worker).
* `NobodyEverStuck` (`NobodyStuck`). `WakeInv` is what each wait counts on: a Shutdown that was started
  has a leader until it is done; the leader has closed `closing` and cancelled the dispatcher before it
  waits for anything; behind a forced Shutdown no job is queued; and the recorder is detached or
  somebody waits to do it. The theorem then excludes the waits one after the other: a worker that rests
  has an empty, open queue in front of it (`RestingWorkers`); hence the leader is past each
  stage (`RestingLeader`), and with it the later calls and the submissions (`RestingSubmission`). It has no
  hypothesis, so the one way to be stuck that remains is part of the property: an unforced pool all of
  whose workers have retired with jobs queued, which is the finding `AbandonedJobs`.
* `FixedPoolServesAll`: with `MinWorkers = MaxWorkers` and `ThresholdPct > 0` that way is closed as well
  (`ServedInv`): when such a pool rests the queue is empty, every submission has returned and every
  accepted task has been notified.
* `PoolImplementsLedger` (`ImplementsLedger`, the refinement). Initial states map to initial states, and
  each step maps to a step of `TaskLedger` or leaves it as it is: `LedgerStep` is split by component,
  `OneEntry` says that a step which changes the status of one task is a step of the ledger. It rests
  on `FateInv` (no task is both started and dropped) and `OrderInv` (dropped only once forced).

Two things the modules compute are defined by recursion: powers and the search of an error tree. The
library's theorems about recursion and induction take operators as parameters, which no prover here
can instantiate. `Recursion` therefore states them about sets. An induction (`NatSetInduction`, `Founded`)
shows that the set of elements a claim holds for leaves none out. A recursive definition is a function
that solves its equation (`Solves`); `RecursionExists` constructs one, as the least relation closed
under the step, and `NatRecursion` is its special case for the natural numbers. The induction rests on
`NatLessThanWellFounded` and `WFMin` of the library, which have no such parameter.

`BackoffProofs` proves under `DurationAssumption`, `FloatsAssumption` (the floats are increasing) and
`UnitAssumption` (1.0 and 2^63 are floats below +Inf), for every width of a duration, every format of
floats and whatever a conversion out of range gives:

* `LinearNextClamps`: the linear backoff is the product or `maxDuration`.
* `PowerIs`: `Power(m)`, for `math.Pow`, is positive and gains one factor with each step.
* `RoundIs` (rounding gives the greatest float reached), `RoundKeeps` (a float is rounded to itself) and
  `RoundGrows` (rounding keeps the order of two fractions), from which `TimesGrows`, `PowGrows` and
  `PowAtLeastOne` follow.
* `ExponentialNextInRange`: the exponential backoff lies between its base, as a float, and
  `maxDuration`, or is 0 with a base of 0. A base that is not zero is a finite float of at least 1.0,
  so the product is no `NaN` and at least the base; `Float(maxDuration)` is at most 2^63, so what
  passes the comparison is a duration. It does not say that delays are exact: they are not, above 2^53.
* `LinearGrows`, `ExponentialGrows`: no delay is shorter than the one before.

`RetryProofs` proves for every policy, every set of errors and every context that satisfy
`PolicyAssumption` (what `validate` accepts), `ErrorsAssumption` (what an error wraps is an error) and
`TreesAssumption` (an error does not contain itself, however deep: `findMarker` and `errors.As` would
not return from one that did):

* `BackoffsNotNegative`: no delay of an accepted policy is negative, by the theorems above. The later
  ones use it.
* `MarkerIsAs`: on every tree `findMarker` returns what `errors.As` would, the first error of the type in
  a search depth first and from left to right (`Preorder`), or none. `FindMarkerIs` and `PreorderIs`
  say that the two recursive definitions mean what they say; `FindMarkerFinds` is the induction, over the tree and,
  within it, over the branches of a join (`FlattenFinds`). It is used for `MarkersTyped`.
* `MarkerAlwaysFirst` (`MarkerIsFirst`) says the same of every failure an engine looks at.
* `TypesKept` (`Spec => []TypeOK`), which contains the bound on attempts: who waits has an attempt
  left, because `stopReason` compares before the wait and nothing counts in between.
* `LimitsAlwaysKept` (`LimitsKept`). `LimitInv` ties the engine's counts to the failures there were:
  they are equal, but for the failure `stopReason` is just looking at; and no limit is used up while
  the job goes on. A failure that an earlier case of the switch ends is not counted, and needs
  not be, since the job is over.
* `OneLateStartOnly` (`OneLateStart`): an attempt that began late is never followed by a wait,
  since `Done` stops it.
* `WaitsAlwaysBounded` (`WaitsBounded`). `BudgetInv`: the waits behind the job lie within the time
  that has passed, and the present wait within that time and what the timer has left; `CheckBudget`
  compares the delay with the rest of the budget, so the sum fits.
* `VerdictsAreTrue` (`VerdictTrue`). `ReasonInv` adds that there is no verdict before the end and that
  an error which is waited for is not Permanent. That a job which ended on an error limit failed
  exactly as often as the limit allows comes from `LimitInv`. After the end only the outside moves,
  and only in directions that keep the verdict true: a done context stays done.
* `PermanentIsReported` (`StatusPermanent`), under `EngineMade`: a `RetryError` that a job returns has the
  reason Permanent if and only if the error in it is marked so. Only the engine makes `RetryError`s in
  the repository, and `VerdictTrue` and the first case of `stopReason` say it of every engine; a
  program that builds one by hand could break it. The errors of `MCRetry` satisfy it. `ErrorInv` keeps
  what kind of error each verdict is about.

`ReportingProofs` proves for any pools, recorders, names, number of collectors and finite set of
events that satisfy `EventsAssumption`, `RecordersAssumption` and `LongestAssumption`:

* `TypesKept` (`TypeOK`).
* `OneHolderAlways` (`OneHolder`). `HolderInv` says who may be recorded to: a state belongs to a
  running pool of this recorder, and no two pools hold one recorder. The compare-and-swap of `Claim`
  is where it is needed.
* `AttachedAlwaysComplete` (`AttachedIsComplete`) and `NothingIsLeft` (`NothingLeft`) follow from
  `PartsInv`: in every phase the collectors of a pool in the registry are exactly those that
  phase and `todo` say, and no two collectors in it have the same `Id`. The second half is what makes
  unregistering by description harmless: who unregisters a collector has it registered, so it is the
  only one of its description.
* `AveragesBounded` (`AverageWithinLongest`). `AverageInv` relates the counters to sets of events: the
  processed count is the number of jobs counted, each sum at most `Longest` times the number of jobs
  summed, which are fewer, since every job is counted first; and the sum a reader has loaded is at
  most `Longest` times the count there is now, which only grows.
* `SeriesAlwaysOwn` (`SeriesOwn`). `SeriesInv`: an event of a job under way has a running pool, whose
  recorder's state is its own, so the state it loads is.

`ConfigProofs` proves for any set of inputs and any host, under `InputsAssumption` (options are a
list), `HostsAssumption` (at least one CPU, two cgroup files, sizes that are no negative number),
`NumbersAssumption`, `AutosAssumption` and `PoliciesAssumption` (options, the fields of a system-aware
configuration and of a policy have their Go types; the values are any):

* `ExplicitAlwaysWins` (`ExplicitWins`). `PassInv`: after the first i options of a pass each field has
  the value of the last option among them that sets it, else that of the base the pass began with;
  between the passes it gives the last auto-config.
* `LimitsStayNews` (`LimitsAreNews`): the engine's copy is made before the caller can write again.
* `AutoIsNeverRefused` (`AutoAlwaysValid`). `AutoSound`: whatever profile, workload, latency, memory and
  fraction, what `runAutoConfig` makes of the defaults passes `validate`; `PassInv` does the rest.
* `QueueAlwaysFits` (`QueueFitsMemory`): from the bounds of the division (`QueueByMemoryFits`), of
  `Fraction` and of `Within`, and from `PassInv`, which says that the sizes are the auto-config's.
* `DelaysAlwaysClamped` (`DelaysClamped`) and `DelaysNeverShrink` (`NeverShrinks`, an action property),
  under the assumptions of `Backoff` as well. `DelayInv`: only a validated configuration starts a pool, so the backoff
  of the engine has a base and a multiplier to which the lemmas of `BackoffProofs` apply.
  `EveryDelayIsDuration` says the same of every retry and not only of those a job gets to: the delay
  is from 0 to the largest duration, and the next one is not shorter.

* `BuiltWithinAssumptions`: the sizes of a pool that `New` builds satisfy `ConfigAssumption`, and the
  policy and the limits of its engine `PolicyAssumption` (`SizesBuilt`, `PolicyBuilt`), whatever the
  caller does with its slice of limits. So the theorems about `AdaptivePool` and `Retry` hold for
  every pool there can be, but for one with a threshold that is no number. `BuiltInv` needs `NumbersKept`,
  the part of `PassInv` that says where each field came from, `LimitsInvKept` and `DelayInv`.

All invariants and action properties of the runs are thus proved. Model-checked only are the
liveness properties (`SubmissionsReturn`, `AcceptedIsSettled`, `ShutdownReturns`,
`ShutdownReleasesSubmits`, `RecorderDetached`, `BacklogScalesUp`, `JobEnds`, `StopEndsJob`), since the
provers have no rule for fairness and `ENABLED`; for the same reason nothing proves that the guards
in `Resting` are those of the actions, which were compared with them by reading and by TLC.

## 6. Disagreements between code and documentation

Each is a run that TLC ends with a counterexample; `PROJECT.json` quotes the lines.

* `AbandonedJobs`: two idle workers that read the same count both retire, and the pool falls below
  `minWorkers`, here to none. When Shutdown begins before the dispatcher has added one, jobs still
  queued are never run, never dropped and never reported, and Shutdown returns nil.
* `LateRejection`: a rejected submission may report to the recorder after Detach. If the recorder has
  been attached to a new pool by then, it is recorded in that pool's series.
* `BusyWorkerRetired`: the idle timer runs during a job, so a worker can retire without having
  been idle.

Four more are visible in the code and have no run:

* a worker that took a job and is not scheduled until after the grace second drops it when Shutdown
  has counted (`shutdown.go:70`); the `Dropped` of the error is then short, while `errors.go:73` calls
  it "the number of queued jobs that were discarded without running", without a condition.
  `DroppedExact` has the condition that all workers had exited, which it cannot do without;
* a job that returns a `*PanicError` it got from elsewhere is treated as one that panicked
  (`retry.go:218`, `task.go:76`), while `task.go:53` says that it panicked; likewise a `*RetryError` from
  elsewhere gives the status of its reason, without retries, although the comment at `task.go:69` says
  that errors come straight from `runJob` or the retrier. `Retry` models both, in `MCErrors`;
* a threshold that is no number passes `validate` (`options.go:161`), and no utilization is ever at
  or above it: the pool never scales up. `valid` says so;
* with five queue slots a worker as the least size, a queue sized by memory may hold more than
  `MemoryLimitPercent` of it, the fraction `autoconfig.go:42` says "the queue may use".
  `QueueFitsMemory` names that case.

## 7. Not modelled, and the plan

Not modelled: task names, kinds and the logger (data no decision depends on); gauges, which are loads
of single variables at any time, and the caches of series by kind in the two recorders (a
`LoadOrStore` of equal values); an Attacher of a user, and a Detach that panics, which `metrics` recovers;
the text of the cgroup files; the rounding of floats in sizes and thresholds, and the
conversion of one that is too large for an integer (a memory limit times a fraction is not); examples
and dashboards, which only use the public interface. In `Retry`: backoffs of a user that return
negative delays; a job that ends its goroutine. `WithMetricsEnabled` has no effect and no model.

The engine is not composed with `Workers`: there a job that runs may end at any time or never, which
every behaviour of `Retry` does, so a refinement would say nothing that `JobEnds` and `StopEndsJob` do not.

What could follow: the text of the cgroup files and the rounding of floats in sizes, as conversions
with a reference definition; a pool whose recorder is a user's Attacher; and a proof of liveness, once the
prover has rules for it.
