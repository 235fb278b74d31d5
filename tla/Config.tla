-------------------------------- MODULE Config --------------------------------
(***************************************************************************)
(* What New makes of its options (pool.go, options.go, autoconfig.go,      *)
(* cgroup.go, retry.go): two passes over them around the auto-config,      *)
(* validation, and the policy of the retry engine with its delays.         *)
(*                                                                         *)
(* A fraction is a number of percent, memory and time are small units.     *)
(***************************************************************************)
EXTENDS Backoff, Sequences, FiniteSets

CONSTANTS
  Inputs,      \* what New is called with: [options, host, limits]
  maxInt64,    \* GOMEMLIMIT when it is not set
  Inf, Nil,
  LastRetry    \* the delays are looked at up to this retry

Fields == {"minWorkers", "maxWorkers", "queueSize", "scaleUpThreshold", "scaleDownIdleDuration",
           "scaleCooldown", "retry", "autoConfig"}

ASSUME InputsAssumption ==
  \A in \in Inputs :
    /\ Len(in.options) \in Nat /\ DOMAIN in.options = 1..Len(in.options)
    /\ \A i \in DOMAIN in.options : LET option == in.options[i] IN
         option.field \in Fields /\ (option.field = "autoConfig" => option.value # Nil)
    /\ in.limits # Nil /\ \A i \in DOMAIN in.limits : in.limits[i].max \in Int

\* Sizes, durations and the threshold are numbers, the threshold perhaps NaN.
ASSUME NumbersAssumption ==
  \A in \in Inputs : \A i \in DOMAIN in.options : LET option == in.options[i] IN
    option.field \in Fields \ {"retry", "autoConfig"} =>
      option.value \in Int \/ (option.field = "scaleUpThreshold" /\ option.value = NaN)

\* What the runtime and the two cgroup files say of a process.
ASSUME HostsAssumption ==
  \A in \in Inputs :
    /\ in.host.numCPU \in Nat \ {0} /\ in.host.gomaxprocs \in Nat \ {0}
    /\ in.host.gomemlimit \in Nat
    /\ DOMAIN in.host.files = 1..2
    /\ \A f \in 1..2 : in.host.files[f].holds = "number" => in.host.files[f].bytes \in Nat

\* An auto-config is a profile, of any number, or has the fields of SystemAwareConfig.
AutoTyped(auto) ==
  \/ auto.kind = "profile"
  \/ /\ auto.kind = "system" /\ auto.target \in Int /\ auto.bytes \in Int
     /\ auto.percent \in Int \union {NaN}

ASSUME AutosAssumption ==
  \A in \in Inputs : \A i \in DOMAIN in.options :
    in.options[i].field = "autoConfig" => AutoTyped(in.options[i].value)

\* A policy, with no backoff or a built-in one; a duration has the width of maxDuration.
PolicyTyped(policy) ==
  /\ DOMAIN policy = {"maxAttempts", "backoff", "maxDelay", "maxElapsedTime"}
  /\ policy.maxAttempts \in Int /\ policy.maxDelay \in Int /\ policy.maxElapsedTime \in Int
  /\ policy.backoff # Nil =>
       LET b == policy.backoff IN
         /\ b.strategy \in {"constant", "linear", "exponential"}
         /\ b.base \in Int /\ b.base <= maxDuration
         /\ b.mult \in {NaN, Inf} \/ (b.mult[1] \in Int /\ b.mult[2] \in Nat \ {0})

ASSUME PoliciesAssumption ==
  \A in \in Inputs : \A i \in DOMAIN in.options :
    in.options[i].field = "retry" => PolicyTyped(in.options[i].value)

ASSUME BoundsAssumption == maxInt64 \in Nat /\ LastRetry \in Nat

VARIABLES
  input, config,
  pc,        \* where New is
  next,      \* the next option of the pass
  limits,    \* the slice of the caller that policy.ErrorLimits refers to
  engine,    \* the policy of the retrier, Nil without one
  retry      \* the retry whose delay is asked for

vars == <<input, config, pc, next, limits, engine, retry>>

options == input.options
host == input.host

-----------------------------------------------------------------------------
(***************************************************************************)
(* The resources of the process                                            *)
(***************************************************************************)
\* A file is unreadable, or holds "max", something else, or a number. The first
\* that can be read decides, whatever it says.
parseCgroupMemoryLimit(file) ==
  IF file.holds # "number" \/ file.bytes >= (maxInt64 + 1) \div 2 THEN 0 ELSE file.bytes

cgroupMemoryLimit ==
  LET readable == {f \in DOMAIN host.files : host.files[f].holds # "nothing"}
  IN  IF readable = {} THEN 0
      ELSE parseCgroupMemoryLimit(host.files[CHOOSE f \in readable : \A g \in readable : f <= g])

memoryLimit ==
  IF host.gomemlimit > 0 /\ host.gomemlimit < maxInt64 THEN host.gomemlimit
  ELSE cgroupMemoryLimit

-----------------------------------------------------------------------------
(***************************************************************************)
(* Base values                                                             *)
(***************************************************************************)
defaultConfig ==
  [minWorkers |-> 1, maxWorkers |-> host.numCPU, queueSize |-> 1000, scaleUpThreshold |-> 70,
   scaleDownIdleDuration |-> 30, scaleCooldown |-> 5, retry |-> Nil, autoConfig |-> Nil]

\* A profile or a type of workload: workers and queue slots per CPU or worker.
Sizes(minPer, maxPer, queuePer, pct) ==
  [min |-> minPer, max |-> maxPer, queue |-> queuePer, threshold |-> pct]

ProfileSizes == [apiServer    |-> Sizes(2, 10, 20, 60), cpuIntensive |-> Sizes(1, 2, 5, 80),
                 batch        |-> Sizes(2, 4, 50, 70)]
TypeSizes ==    [ioBound      |-> Sizes(2, 8, 20, 60),  cpuBound     |-> Sizes(1, 2, 5, 80),
                 mixed        |-> Sizes(1, 4, 10, 70)]

\* A value that is no constant of the type leaves the configuration as it is.
Sized(c, table, kind) ==
  IF kind \notin DOMAIN table THEN c
  ELSE LET s == table[kind]
       IN  [c EXCEPT !.minWorkers = host.gomaxprocs * s.min,
                     !.maxWorkers = host.gomaxprocs * s.max,
                     !.queueSize = host.gomaxprocs * s.max * s.queue,
                     !.scaleUpThreshold = s.threshold]

\* Mutant of Fraction: what exceeds the whole limit is not replaced.
FractionUnbounded(pct) == IF pct # NaN /\ pct <= 0 THEN 20 ELSE pct

\* Both comparisons with NaN are false: it stays.
Fraction(pct) == IF pct # NaN /\ (pct <= 0 \/ pct > 100) THEN 20 ELSE pct

\* The float of a fraction NaN converts to no positive number on any platform.
QueueByMemory(pct, bytes) ==
  IF pct = NaN THEN 0 ELSE (memoryLimit * pct) \div (100 * bytes)

\* Mutant of Within: the queue has no least size.
WithinMaximum(lo, hi, n) == IF n > hi THEN hi ELSE n

Within(lo, hi, n) == IF n < lo THEN lo ELSE IF n > hi THEN hi ELSE n

MemorySized(c, sys) ==
  IF sys.bytes > 0 /\ memoryLimit > 0
  THEN [c EXCEPT !.queueSize = Within(c.maxWorkers * 5, c.maxWorkers * 100,
                                      QueueByMemory(Fraction(sys.percent), sys.bytes))]
  ELSE c

LatencyAdjusted(c, target) ==
  IF target > 0 /\ target < 500
  THEN [c EXCEPT !.scaleUpThreshold = IF target < 100 THEN 50 ELSE 60]
  ELSE c

applyProfile(c, profile) == Sized(c, ProfileSizes, profile)

applySystemAwareConfig(c, sys) ==
  LatencyAdjusted(MemorySized(Sized(c, TypeSizes, sys.type), sys), sys.target)

runAutoConfig(c, auto) ==
  IF auto.kind = "profile" THEN applyProfile(c, auto.profile) ELSE applySystemAwareConfig(c, auto)

SuggestConfig(type) ==
  applySystemAwareConfig(defaultConfig, [type |-> type, target |-> 0, bytes |-> 0, percent |-> 20])

-----------------------------------------------------------------------------
(***************************************************************************)
(* Validation                                                              *)
(***************************************************************************)
Finite(m) == m \notin {NaN, Inf}

\* Mutant of validBackoff: a multiplier below 1 passes.
validBackoffAnyMultiplier(b) ==
  b # Nil => /\ b.base >= 0
             /\ \/ Finite(b.mult) /\ b.mult[1] >= 0
                \/ b.strategy # "exponential"

\* Delay, Base and Multiplier; a multiplier of 0 asks for the default.
validBackoff(b) ==
  b # Nil => /\ b.base >= 0
             /\ \/ Finite(b.mult) /\ (b.mult[1] = 0 \/ b.mult[1] >= b.mult[2])
                \/ b.strategy # "exponential"

validRetry(policy) ==
  /\ policy.maxAttempts >= 1 /\ policy.maxDelay >= 0 /\ policy.maxElapsedTime >= 0
  /\ \A i \in DOMAIN limits : limits[i].err # Nil /\ limits[i].max >= 1
  /\ validBackoff(policy.backoff)

\* NaN is neither below 0 nor above 1.
valid(c) ==
  /\ c.minWorkers >= 1 /\ c.maxWorkers >= c.minWorkers /\ c.queueSize >= 1
  /\ c.scaleUpThreshold = NaN \/ c.scaleUpThreshold \in 0..100
  /\ c.scaleDownIdleDuration >= 0 /\ c.scaleCooldown >= 0
  /\ c.retry # Nil => validRetry(c.retry)

-----------------------------------------------------------------------------
(***************************************************************************)
(* New                                                                     *)
(***************************************************************************)
Init ==
  /\ input \in Inputs
  /\ config = defaultConfig /\ pc = "first" /\ next = 1
  /\ limits = input.limits /\ engine = Nil /\ retry = 1

Apply(c, option) == [c EXCEPT ![option.field] = option.value]

ApplyOption ==
  /\ pc \in {"first", "second"} /\ next <= Len(options)
  /\ config' = Apply(config, options[next]) /\ next' = next + 1
  /\ UNCHANGED <<input, pc, limits, engine, retry>>

\* Mutant of UseAutoConfig: the auto-config is applied once, behind the options.
UseAutoConfigLast ==
  /\ pc = "first" /\ next > Len(options) /\ config.autoConfig # Nil
  /\ config' = runAutoConfig(config, config.autoConfig)
  /\ pc' = "second" /\ UNCHANGED <<input, next, limits, engine, retry>>

\* The values of the first pass are thrown away, but for the auto-config.
UseAutoConfig ==
  /\ pc = "first" /\ next > Len(options) /\ config.autoConfig # Nil
  /\ config' = runAutoConfig(defaultConfig, config.autoConfig)
  /\ pc' = "second" /\ next' = 1
  /\ UNCHANGED <<input, limits, engine, retry>>

Validate ==
  /\ next > Len(options)
  /\ pc = "second" \/ (pc = "first" /\ config.autoConfig = Nil)
  /\ pc' = IF valid(config) THEN "valid" ELSE "refused"
  /\ UNCHANGED <<input, config, next, limits, engine, retry>>

\* Without a backoff it is exponential.
WithBackoff(policy) ==
  IF policy.backoff # Nil THEN policy
  ELSE [policy EXCEPT !.backoff = [strategy |-> "exponential", base |-> 1, mult |-> <<0, 1>>]]

\* Mutant of newRetrier: the engine keeps the slice of the caller.
newRetrierSharing(policy) == [policy |-> WithBackoff(policy), limits |-> Nil]

\* The limits are cloned.
newRetrier(policy) == [policy |-> WithBackoff(policy), limits |-> limits]

StartPool ==
  /\ pc = "valid"
  /\ engine' = IF config.retry = Nil THEN Nil ELSE newRetrier(config.retry)
  /\ pc' = "built"
  /\ UNCHANGED <<input, config, next, limits, retry>>

\* The caller uses its slice for something else.
CallerOverwrites(i) ==
  /\ pc = "built" /\ i \in DOMAIN limits
  /\ limits' = [limits EXCEPT ![i].max = 0]
  /\ UNCHANGED <<input, config, pc, next, engine, retry>>

\* Jobs ask for the delays of later retries.
Later ==
  /\ pc = "built" /\ engine # Nil /\ retry < LastRetry
  /\ retry' = retry + 1
  /\ UNCHANGED <<input, config, pc, next, limits, engine>>

Ended == pc \in {"built", "refused"} /\ UNCHANGED vars

Next == \/ ApplyOption \/ UseAutoConfig \/ Validate \/ StartPool
        \/ \E i \in DOMAIN limits : CallerOverwrites(i)
        \/ Later \/ Ended

Spec == Init /\ [][Next]_vars

-----------------------------------------------------------------------------
(***************************************************************************)
(* Properties                                                              *)
(***************************************************************************)
\* The last explicit value of a field wins, wherever it is among the options;
\* then the last auto-config, on its own; then the default.
Places(field) == {i \in DOMAIN options : options[i].field = field}
LastOf(S) == CHOOSE i \in S : \A j \in S : j <= i

BaseConfig ==
  LET autos == Places("autoConfig")
  IN  IF autos = {} THEN defaultConfig
      ELSE runAutoConfig(defaultConfig, options[LastOf(autos)].value)

ExplicitWins ==
  pc \in {"valid", "built", "refused"} =>
    \A f \in Fields :
      config[f] = IF Places(f) = {} THEN BaseConfig[f] ELSE options[LastOf(Places(f))].value

\* An auto-config alone is never refused, on no host and for no parameters
\* (but for a kind of workload that does not exist, which keeps the defaults).
AutoAlwaysValid ==
  (\A i \in DOMAIN options : options[i].field = "autoConfig") => pc # "refused"

\* A queue that was sized by memory stays within the fraction asked for, or is
\* at its least size: five slots a worker.
QueueFitsMemory ==
  pc \in {"valid", "built", "refused"} /\ Places("queueSize") \union Places("maxWorkers") = {} =>
    LET auto == config.autoConfig IN
      auto # Nil /\ auto.kind = "system" /\ auto.bytes > 0 /\ memoryLimit > 0 =>
        \/ /\ config.queueSize * auto.bytes <= memoryLimit
           /\ auto.percent \in 1..100 =>
                config.queueSize * auto.bytes * 100 <= memoryLimit * auto.percent
        \/ config.queueSize = config.maxWorkers * 5

\* The limits the engine counts against stay those that were validated.
EngineLimits == IF engine.limits = Nil THEN limits ELSE engine.limits

LimitsAreNews ==
  engine # Nil => \A i \in DOMAIN EngineLimits : EngineLimits[i] = input.limits[i]

\* The delay of the engine's backoff before a retry.
Multiplier(b) == IF b.mult[1] = 0 THEN <<3, 2>> ELSE b.mult

Delay(n) ==
  LET b == engine.policy.backoff IN
    CASE b.strategy = "constant"    -> ConstantNext(b.base)
      [] b.strategy = "linear"      -> LinearNext(b.base, n)
      [] b.strategy = "exponential" -> ExponentialNext(b.base, Multiplier(b)[1], Multiplier(b)[2], n)

\* Nothing wraps around and no float that is no duration is converted: a delay is
\* the product, or the largest duration where that is larger. An exponential one
\* is from its base, as a float, to the largest duration, or zero if its base is.
DelaysClamped ==
  engine # Nil =>
    LET b == engine.policy.backoff
        AtMostMax(n) == IF n > maxDuration THEN maxDuration ELSE n
    IN  CASE b.strategy = "constant"    -> Delay(retry) = b.base
          [] b.strategy = "linear"      -> Delay(retry) = AtMostMax(b.base * retry)
          [] b.strategy = "exponential" ->
               IF b.base = 0 THEN Delay(retry) = 0
               ELSE Delay(retry) \in AtMostMax(Float(b.base) \div One)..maxDuration

\* With a policy that New accepts no later retry waits less than an earlier one.
NeverShrinks == [][engine # Nil => Delay(retry') >= Delay(retry)]_retry
=============================================================================
