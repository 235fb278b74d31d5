----------------------------- MODULE ConfigProofs -----------------------------
(***************************************************************************)
(* Theorems about Config, for any options, hosts and limits.               *)
(***************************************************************************)
EXTENDS Config, BackoffProofs

\* The last of a set of places is the one that no other exceeds.
LEMMA LastIs ==
  ASSUME NEW S, S \subseteq Nat, NEW j \in S, \A i \in S : i <= j
  PROVE  LastOf(S) = j
<1>1. \A k \in S : (\A i \in S : i <= k) => k = j OBVIOUS
<1>2. LastOf(S) \in S /\ \A i \in S : i <= LastOf(S) BY DEF LastOf
<1> QED BY <1>1, <1>2

\* An option sets its own field and no other.
LEMMA ApplySets ==
  ASSUME NEW c, DOMAIN c = Fields, NEW option, option.field \in Fields
  PROVE  /\ DOMAIN Apply(c, option) = Fields
         /\ \A f \in Fields : Apply(c, option)[f] = IF f = option.field THEN option.value ELSE c[f]
BY DEF Apply

LEMMA DefaultFields == DOMAIN defaultConfig = Fields /\ defaultConfig["autoConfig"] = Nil
BY DEF defaultConfig, Fields

LEMMA AutoFields ==
  ASSUME NEW c, DOMAIN c = Fields, NEW auto
  PROVE  DOMAIN runAutoConfig(c, auto) = Fields
<1>1. \A d, table, kind : DOMAIN Sized(d, table, kind) = DOMAIN d BY DEF Sized
<1>2. \A d, sys : DOMAIN MemorySized(d, sys) = DOMAIN d BY DEF MemorySized
<1>3. \A d, target : DOMAIN LatencyAdjusted(d, target) = DOMAIN d BY DEF LatencyAdjusted
<1> QED BY <1>1, <1>2, <1>3 DEF runAutoConfig, applyProfile, applySystemAwareConfig

LEMMA SameInput ==
  ASSUME UNCHANGED input
  PROVE  /\ defaultConfig' = defaultConfig /\ BaseConfig' = BaseConfig /\ options' = options
         /\ \A f : Places(f)' = Places(f)
<1>1. options' = options /\ host' = host BY DEF options, host
<1>2. memoryLimit' = memoryLimit BY <1>1 DEF memoryLimit, cgroupMemoryLimit, parseCgroupMemoryLimit
<1>3. defaultConfig' = defaultConfig BY <1>1 DEF defaultConfig
<1>4. \A f : Places(f)' = Places(f) BY <1>1 DEF Places
<1>5. \A c, auto : runAutoConfig(c, auto)' = runAutoConfig(c, auto)
  BY <1>1, <1>2 DEF runAutoConfig, applyProfile, applySystemAwareConfig, Sized, MemorySized,
                    LatencyAdjusted, QueueByMemory, Fraction, Within
<1>6. BaseConfig' = BaseConfig BY <1>1, <1>3, <1>4, <1>5 DEF BaseConfig
<1> QED BY <1>1, <1>3, <1>4, <1>6

-----------------------------------------------------------------------------
\* The options behind the pass that set a field, and what they have made of it.
Seen(f) == {i \in Places(f) : i < next}

Overlaid(f, base) ==
  \/ Seen(f) = {} /\ config[f] = base[f]
  \/ \E j \in Seen(f) : (\A i \in Seen(f) : i <= j) /\ config[f] = options[j].value

\* Either pass lays the options over its base, from the first to the last.
PassInv ==
  /\ input \in Inputs /\ next \in Nat \ {0}
  /\ pc \in {"first", "second", "valid", "built", "refused"}
  /\ pc \notin {"first", "second"} => next > Len(options)
  /\ DOMAIN config = Fields
  /\ \A f \in Fields : Overlaid(f, IF pc = "first" THEN defaultConfig ELSE BaseConfig)

LEMMA InitPass == Init => PassInv
<1> SUFFICES ASSUME Init PROVE PassInv OBVIOUS
<1>1. \A f \in Fields : Seen(f) = {}
  BY InputsAssumption DEF Init, Seen, Places, options
<1> QED BY <1>1, DefaultFields DEF Init, PassInv, Overlaid

LEMMA ApplyPass ==
  ASSUME PassInv, ApplyOption
  PROVE  PassInv'
<1> DEFINE option == options[next]
<1>1. /\ UNCHANGED <<input, pc>> /\ next' = next + 1 /\ pc \in {"first", "second"}
      /\ config' = Apply(config, option) /\ next <= Len(options)
  BY DEF ApplyOption
<1>2. next \in DOMAIN options /\ DOMAIN options \subseteq Nat /\ option.field \in Fields
  BY <1>1, InputsAssumption DEF PassInv, options
<1>3. /\ defaultConfig' = defaultConfig /\ BaseConfig' = BaseConfig /\ options' = options
      /\ \A f : Places(f)' = Places(f)
  BY <1>1, SameInput
<1>4. \A f : Seen(f)' = IF f = option.field THEN Seen(f) \union {next} ELSE Seen(f)
  BY <1>1, <1>2, <1>3 DEF Seen, Places, PassInv
<1>5. /\ DOMAIN config' = Fields
      /\ \A f \in Fields : config'[f] = IF f = option.field THEN option.value ELSE config[f]
  BY <1>1, <1>2, ApplySets DEF PassInv
<1>6. ASSUME NEW f \in Fields, NEW base, Overlaid(f, base)
      PROVE  \/ Seen(f)' = {} /\ config'[f] = base[f]
             \/ \E j \in Seen(f)' : (\A i \in Seen(f)' : i <= j) /\ config'[f] = options[j].value
  <2>1. CASE f = option.field
    <3>1. next \in Seen(f)' /\ \A i \in Seen(f)' : i <= next
      BY <1>2, <1>4, <2>1 DEF Seen, Places
    <3> QED BY <1>5, <2>1, <3>1
  <2>2. CASE f # option.field
    <3>1. Seen(f)' = Seen(f) /\ config'[f] = config[f] BY <1>4, <1>5, <2>2
    <3> QED BY <1>6, <3>1 DEF Overlaid
  <2> QED BY <2>1, <2>2
<1>7. \A f \in Fields : Overlaid(f, IF pc = "first" THEN defaultConfig ELSE BaseConfig)'
  <2> TAKE f \in Fields
  <2>1. Overlaid(f, IF pc = "first" THEN defaultConfig ELSE BaseConfig) BY DEF PassInv
  <2> DEFINE base == IF pc = "first" THEN defaultConfig ELSE BaseConfig
  <2> HIDE DEF base
  <2>2. Overlaid(f, base) BY <2>1 DEF base
  <2>3. \/ Seen(f)' = {} /\ config'[f] = base[f]
        \/ \E j \in Seen(f)' : (\A i \in Seen(f)' : i <= j) /\ config'[f] = options[j].value
    BY <1>6, <2>2
  <2>4. base' = base BY <1>1, <1>3 DEF base
  <2> QED BY <1>3, <2>3, <2>4 DEF Overlaid, base
<1> QED BY <1>1, <1>5, <1>7 DEF PassInv

\* At the end of a pass the last option that sets a field has set it.
LEMMA PassEnds ==
  ASSUME PassInv, next > Len(options), NEW f \in Fields, NEW base, Overlaid(f, base)
  PROVE  config[f] = IF Places(f) = {} THEN base[f] ELSE options[LastOf(Places(f))].value
<1>1. DOMAIN options = 1..Len(options) /\ Len(options) \in Nat
  BY InputsAssumption DEF PassInv, options
<1>2. Places(f) \subseteq Nat /\ Seen(f) = Places(f) BY <1>1 DEF PassInv, Seen, Places
<1>3. CASE Places(f) = {} BY <1>2, <1>3 DEF Overlaid
<1>4. CASE Places(f) # {}
  <2>1. PICK j \in Places(f) : (\A i \in Places(f) : i <= j) /\ config[f] = options[j].value
    BY <1>2, <1>4 DEF Overlaid
  <2>2. LastOf(Places(f)) = j BY <1>2, <2>1, LastIs
  <2> QED BY <1>4, <2>1, <2>2
<1> QED BY <1>3, <1>4

\* An auto-config is found at the end of the first pass if and only if an option
\* asks for one, and it is then the last.
LEMMA AutoFound ==
  ASSUME PassInv, pc = "first", next > Len(options)
  PROVE  IF Places("autoConfig") = {} THEN config["autoConfig"] = Nil
         ELSE /\ config["autoConfig"] = options[LastOf(Places("autoConfig"))].value
              /\ config["autoConfig"] # Nil
<1>1. "autoConfig" \in Fields BY DEF Fields
<1>2. config["autoConfig"] = IF Places("autoConfig") = {} THEN Nil
                             ELSE options[LastOf(Places("autoConfig"))].value
  BY <1>1, PassEnds, DefaultFields DEF PassInv
<1>3. Places("autoConfig") # {} => LastOf(Places("autoConfig")) \in Places("autoConfig")
  <2>1. DOMAIN options = 1..Len(options) /\ Len(options) \in Nat
    BY InputsAssumption DEF PassInv, options
  <2>2. Places("autoConfig") \subseteq Nat /\ Seen("autoConfig") = Places("autoConfig")
    BY <2>1 DEF PassInv, Seen, Places
  <2>3. Overlaid("autoConfig", defaultConfig) BY <1>1 DEF PassInv
  <2> QED BY <2>2, <2>3, LastIs DEF Overlaid
<1>4. \A i \in Places("autoConfig") : options[i].value # Nil
  BY InputsAssumption DEF PassInv, Places, options
<1> QED BY <1>2, <1>3, <1>4

LEMMA NextPass == PassInv /\ [Next]_vars => PassInv'
<1> SUFFICES ASSUME PassInv, [Next]_vars PROVE PassInv' OBVIOUS
<1>1. CASE ApplyOption BY <1>1, ApplyPass
<1>2. CASE UseAutoConfig
  <2>1. /\ UNCHANGED input /\ pc = "first" /\ pc' = "second" /\ next' = 1 /\ next > Len(options)
        /\ config["autoConfig"] # Nil
        /\ config' = runAutoConfig(defaultConfig, config["autoConfig"])
    BY <1>2 DEF UseAutoConfig
  <2>2. config' = BaseConfig BY <2>1, AutoFound DEF BaseConfig
  <2>3. DOMAIN config' = Fields BY <2>1, DefaultFields, AutoFields
  <2>4. BaseConfig' = BaseConfig /\ \A f : Places(f)' = Places(f) BY <2>1, SameInput
  <2>5. \A f : Seen(f)' = {}
    BY <2>1, <2>4, InputsAssumption DEF Seen, Places, PassInv, options
  <2> QED BY <2>1, <2>2, <2>3, <2>4, <2>5 DEF PassInv, Overlaid
<1>3. CASE Validate
  <2>1. /\ UNCHANGED <<input, config, next>> /\ next > Len(options)
        /\ pc' \in {"valid", "refused"}
        /\ pc = "second" \/ (pc = "first" /\ config["autoConfig"] = Nil)
    BY <1>3 DEF Validate
  <2>2. /\ defaultConfig' = defaultConfig /\ BaseConfig' = BaseConfig /\ options' = options
        /\ \A f : Seen(f)' = Seen(f)
    BY <2>1, SameInput DEF Seen
  <2>3. pc = "first" => BaseConfig = defaultConfig BY <2>1, AutoFound DEF BaseConfig
  <2>4. \A f \in Fields : Overlaid(f, BaseConfig) BY <2>1, <2>3 DEF PassInv
  <2> QED BY <2>1, <2>2, <2>4 DEF PassInv, Overlaid
<1>4. CASE StartPool \/ Later \/ Ended \/ UNCHANGED vars \/ \E i \in DOMAIN limits : CallerOverwrites(i)
  <2>1. UNCHANGED <<input, config, next>> /\ (pc' = pc \/ (pc = "valid" /\ pc' = "built"))
    BY <1>4 DEF StartPool, Later, Ended, CallerOverwrites, vars
  <2>2. /\ defaultConfig' = defaultConfig /\ BaseConfig' = BaseConfig /\ options' = options
        /\ \A f : Seen(f)' = Seen(f)
    BY <2>1, SameInput DEF Seen
  <2>3. CASE pc' = pc BY <2>1, <2>2, <2>3 DEF PassInv, Overlaid
  <2>4. CASE pc = "valid" /\ pc' = "built" BY <2>1, <2>2, <2>4 DEF PassInv, Overlaid
  <2> QED BY <2>1, <2>3, <2>4
<1> QED BY <1>1, <1>2, <1>3, <1>4 DEF Next

\* For every list of options and every host: the last explicit value of a field
\* is the one New uses, wherever an auto-config stands; then that of the last
\* auto-config; then the default.
THEOREM ExplicitAlwaysWins == Spec => []ExplicitWins
<1>1. PassInv /\ [Next]_vars => PassInv' BY NextPass
<1>2. PassInv => ExplicitWins
  BY PassEnds DEF PassInv, ExplicitWins
<1> QED BY <1>1, <1>2, InitPass, PTL DEF Spec

-----------------------------------------------------------------------------
\* The slice of the caller is what New was given until the engine has its own.
LimitsInv ==
  /\ input \in Inputs
  /\ pc # "built" => limits = input.limits /\ engine = Nil
  /\ engine # Nil => engine.limits = input.limits

LEMMA LimitsInvKept == Spec => []LimitsInv
<1>1. Init => LimitsInv BY DEF Init, LimitsInv
<1>2. LimitsInv /\ [Next]_vars => LimitsInv'
  <2> SUFFICES ASSUME LimitsInv, [Next]_vars PROVE LimitsInv' OBVIOUS
  <2>1. CASE StartPool BY <2>1 DEF StartPool, newRetrier, LimitsInv
  <2>2. CASE ApplyOption \/ UseAutoConfig \/ Validate
    BY <2>2 DEF ApplyOption, UseAutoConfig, Validate, LimitsInv
  <2>3. CASE Later \/ Ended \/ UNCHANGED vars \/ \E i \in DOMAIN limits : CallerOverwrites(i)
    BY <2>3 DEF Later, Ended, CallerOverwrites, vars, LimitsInv
  <2> QED BY <2>1, <2>2, <2>3 DEF Next
<1> QED BY <1>1, <1>2, PTL DEF Spec

\* Whatever the caller does with its slice later, the engine counts against the
\* limits that were validated.
THEOREM LimitsStayNews == Spec => []LimitsAreNews
<1>1. LimitsInv => LimitsAreNews
  BY InputsAssumption DEF LimitsInv, LimitsAreNews, EngineLimits
<1> QED BY <1>1, LimitsInvKept, PTL

-----------------------------------------------------------------------------
(***************************************************************************)
(* Auto-configs: what they make of the defaults passes validation.         *)
(***************************************************************************)
\* A configuration that New accepts, with no policy of retries.
Sound(c) ==
  /\ DOMAIN c = Fields
  /\ c.minWorkers \in Nat \ {0} /\ c.maxWorkers \in Nat /\ c.maxWorkers >= c.minWorkers
  /\ c.queueSize \in Nat \ {0}
  /\ c.scaleUpThreshold \in 0..100
  /\ c.scaleDownIdleDuration \in Nat /\ c.scaleCooldown \in Nat
  /\ c.retry = Nil

LEMMA HostTyped ==
  ASSUME input \in Inputs
  PROVE  host.numCPU \in Nat \ {0} /\ host.gomaxprocs \in Nat \ {0} /\ memoryLimit \in Nat
<1>1. /\ host.numCPU \in Nat \ {0} /\ host.gomaxprocs \in Nat \ {0} /\ host.gomemlimit \in Nat
      /\ DOMAIN host.files = 1..2
      /\ \A f \in 1..2 : host.files[f].holds = "number" => host.files[f].bytes \in Nat
  BY HostsAssumption DEF host
<1>2. \A f \in 1..2 : parseCgroupMemoryLimit(host.files[f]) \in Nat
  BY <1>1 DEF parseCgroupMemoryLimit
<1>3. cgroupMemoryLimit \in Nat
  <2> DEFINE readable == {f \in DOMAIN host.files : host.files[f].holds # "nothing"}
             first == CHOOSE f \in readable : \A g \in readable : f <= g
  <2>1. CASE readable = {}
    BY <2>1 DEF cgroupMemoryLimit
  <2>2. CASE readable # {}
    <3>1. readable \subseteq {1, 2}
      BY <1>1
    <3>2. \E f \in readable : \A g \in readable : f <= g
      <4>1. CASE 1 \in readable
        BY <3>1, <4>1
      <4>2. CASE 1 \notin readable
        BY <2>2, <3>1, <4>2
      <4> QED BY <4>1, <4>2
    <3> HIDE DEF readable
    <3>3. first \in readable
      BY <3>2
    <3> HIDE DEF first
    <3>4. first \in 1..2
      BY <3>1, <3>3
    <3> USE DEF readable, first
    <3>5. cgroupMemoryLimit = parseCgroupMemoryLimit(host.files[first])
      BY <2>2 DEF cgroupMemoryLimit
    <3> HIDE DEF first
    <3> QED BY <1>2, <3>4, <3>5
  <2> QED BY <2>1, <2>2
<1> QED BY <1>1, <1>3 DEF memoryLimit

LEMMA DefaultSound ==
  ASSUME input \in Inputs
  PROVE  Sound(defaultConfig)
  BY HostTyped, DefaultFields DEF Sound, defaultConfig

\* A multiple of the CPUs for at least one worker, and for as many or more.
LEMMA SizesSound ==
  ASSUME NEW cpus \in Nat \ {0}, NEW lo \in Nat \ {0}, NEW hi \in Nat, hi >= lo, NEW q \in Nat \ {0}
  PROVE  /\ cpus * lo \in Nat \ {0} /\ cpus * hi \in Nat \ {0} /\ cpus * hi >= cpus * lo
         /\ cpus * hi * q \in Nat \ {0}
<1>1. cpus * lo \in Nat \ {0} /\ cpus * hi \in Nat \ {0}
  OBVIOUS
<1>2. cpus * hi >= cpus * lo
  OBVIOUS
<1> DEFINE m == cpus * hi
<1> HIDE DEF m
<1>3. m \in Nat \ {0} => m * q \in Nat \ {0}
  OBVIOUS
<1> QED BY <1>1, <1>2, <1>3 DEF m

LEMMA SizedSound ==
  ASSUME input \in Inputs, NEW c, Sound(c), NEW table \in {ProfileSizes, TypeSizes}, NEW kind
  PROVE  Sound(Sized(c, table, kind))
<1>1. CASE kind \notin DOMAIN table
  BY <1>1 DEF Sized
<1>2. CASE kind \in DOMAIN table
  <2> DEFINE s == table[kind]
             n == host.gomaxprocs
             d == Sized(c, table, kind)
  <2>1. /\ s.min \in Nat \ {0} /\ s.max \in Nat /\ s.max >= s.min /\ s.queue \in Nat \ {0}
        /\ s.threshold \in 0..100
    BY <1>2 DEF ProfileSizes, TypeSizes, Sizes
  <2>2. /\ n * s.min \in Nat \ {0} /\ n * s.max \in Nat /\ n * s.max >= n * s.min
        /\ n * s.max * s.queue \in Nat \ {0}
    <3> HIDE DEF s, n
    <3>1. n \in Nat \ {0}
      BY HostTyped DEF n
    <3> QED BY <2>1, <3>1, SizesSound
  <2>3. /\ DOMAIN d = Fields
        /\ d.minWorkers = n * s.min /\ d.maxWorkers = n * s.max
        /\ d.queueSize = n * s.max * s.queue /\ d.scaleUpThreshold = s.threshold
        /\ d.scaleDownIdleDuration = c.scaleDownIdleDuration
        /\ d.scaleCooldown = c.scaleCooldown /\ d.retry = c.retry
    BY <1>2 DEF Sized, Sound, Fields
  <2> HIDE DEF s, n, d
  <2>4. Sound(d)
    BY <2>1, <2>2, <2>3 DEF Sound
  <2> QED BY <2>4 DEF d
<1> QED BY <1>1, <1>2

LEMMA WithinBounds ==
  ASSUME NEW lo \in Int, NEW hi \in Int, lo <= hi, NEW n \in Int
  PROVE  /\ Within(lo, hi, n) \in Int /\ Within(lo, hi, n) \in lo..hi
         /\ Within(lo, hi, n) <= n \/ Within(lo, hi, n) = lo
  BY DEF Within

LEMMA FractionIs ==
  ASSUME NEW pct \in Int \union {NaN}
  PROVE  /\ Fraction(pct) = NaN \/ Fraction(pct) \in 1..100
         /\ pct \in 1..100 => Fraction(pct) = pct
  BY DEF Fraction

\* The slots that memory has room for fit into the fraction of it that was asked for.
LEMMA QueueByMemoryFits ==
  ASSUME input \in Inputs, NEW pct, pct = NaN \/ pct \in 1..100, NEW bytes \in Nat \ {0}
  PROVE  /\ QueueByMemory(pct, bytes) \in Nat
         /\ pct # NaN => QueueByMemory(pct, bytes) * (100 * bytes) <= memoryLimit * pct
<1>1. CASE pct = NaN
  BY <1>1 DEF QueueByMemory
<1>2. CASE pct # NaN
  <2> DEFINE whole == memoryLimit * pct
             slot == 100 * bytes
  <2>1. whole \in Nat /\ slot \in Nat \ {0}
    <3>1. memoryLimit \in Nat /\ pct \in Nat
      BY <1>2, HostTyped
    <3> QED BY <3>1
  <2>2. QueueByMemory(pct, bytes) = whole \div slot
    BY <1>2 DEF QueueByMemory
  <2> HIDE DEF whole, slot
  <2>3. whole \div slot \in Nat /\ (whole \div slot) * slot <= whole
    BY <2>1
  <2> QED BY <2>2, <2>3 DEF whole, slot
<1> QED BY <1>1, <1>2

LEMMA MemorySizedSound ==
  ASSUME input \in Inputs, NEW c, Sound(c), NEW auto, AutoTyped(auto), auto.kind # "profile"
  PROVE  Sound(MemorySized(c, auto))
<1> DEFINE q == QueueByMemory(Fraction(auto.percent), auto.bytes)
           size == Within(c.maxWorkers * 5, c.maxWorkers * 100, q)
<1>1. CASE ~(auto.bytes > 0 /\ memoryLimit > 0)
  BY <1>1 DEF MemorySized
<1>2. CASE auto.bytes > 0 /\ memoryLimit > 0
  <2>1. auto.percent \in Int \union {NaN} /\ auto.bytes \in Nat \ {0}
    BY <1>2 DEF AutoTyped
  <2>2. q \in Nat
    BY <2>1, FractionIs, QueueByMemoryFits
  <2>3. c.maxWorkers \in Nat \ {0}
    BY DEF Sound
  <2> HIDE DEF q
  <2>4. size \in (c.maxWorkers * 5)..(c.maxWorkers * 100)
    <3> DEFINE lo == c.maxWorkers * 5
               hi == c.maxWorkers * 100
    <3>1. lo \in Int /\ hi \in Int /\ lo <= hi
      BY <2>3
    <3> HIDE DEF lo, hi
    <3>2. Within(lo, hi, q) \in lo..hi
      BY <2>2, <3>1, WithinBounds
    <3> QED BY <3>2 DEF lo, hi
  <2> HIDE DEF size
  <2>5. size \in Nat \ {0}
    BY <2>3, <2>4
  <2>6. MemorySized(c, auto) = [c EXCEPT !.queueSize = size]
    BY <1>2 DEF MemorySized, size, q
  <2> QED BY <2>5, <2>6 DEF Sound, Fields
<1> QED BY <1>1, <1>2

LEMMA LatencySound ==
  ASSUME NEW c, Sound(c), NEW target
  PROVE  Sound(LatencyAdjusted(c, target))
  BY DEF LatencyAdjusted, Sound, Fields

\* No auto-config makes a configuration that New refuses, on any host.
LEMMA AutoSound ==
  ASSUME input \in Inputs, NEW auto, AutoTyped(auto)
  PROVE  Sound(runAutoConfig(defaultConfig, auto))
<1>1. Sound(defaultConfig)
  BY DefaultSound
<1>2. CASE auto.kind = "profile"
  BY <1>1, <1>2, SizedSound DEF runAutoConfig, applyProfile
<1>3. CASE auto.kind # "profile"
  <2> DEFINE c == Sized(defaultConfig, TypeSizes, auto.type)
  <2>1. Sound(c)
    BY <1>1, SizedSound
  <2> HIDE DEF c
  <2>2. Sound(LatencyAdjusted(MemorySized(c, auto), auto.target))
    BY <1>3, <2>1, MemorySizedSound, LatencySound
  <2> QED BY <1>3, <2>2 DEF runAutoConfig, applySystemAwareConfig, c
<1> QED BY <1>2, <1>3

\* The last auto-config is one of the options, if there is one.
LEMMA LastAuto ==
  ASSUME PassInv, next > Len(options), Places("autoConfig") # {}
  PROVE  LET auto == options[LastOf(Places("autoConfig"))].value
         IN  AutoTyped(auto) /\ auto # Nil /\ BaseConfig = runAutoConfig(defaultConfig, auto)
<1>1. DOMAIN options = 1..Len(options) /\ Len(options) \in Nat
  BY InputsAssumption DEF PassInv, options
<1>2. Places("autoConfig") \subseteq Nat /\ Seen("autoConfig") = Places("autoConfig")
  BY <1>1 DEF PassInv, Seen, Places
<1>3. "autoConfig" \in Fields
  BY DEF Fields
<1>4. \E j \in Places("autoConfig") : \A i \in Places("autoConfig") : i <= j
  BY <1>2, <1>3 DEF PassInv, Overlaid
<1>5. LastOf(Places("autoConfig")) \in Places("autoConfig")
  BY <1>2, <1>4, LastIs
<1>6. \A i \in Places("autoConfig") : AutoTyped(options[i].value) /\ options[i].value # Nil
  BY AutosAssumption, InputsAssumption DEF PassInv, Places, options
<1> QED BY <1>5, <1>6 DEF BaseConfig

LEMMA BaseSound ==
  ASSUME PassInv, next > Len(options)
  PROVE  Sound(BaseConfig)
<1>1. input \in Inputs
  BY DEF PassInv
<1>2. CASE Places("autoConfig") = {}
  BY <1>1, <1>2, DefaultSound DEF BaseConfig
<1>3. CASE Places("autoConfig") # {}
  BY <1>1, <1>3, LastAuto, AutoSound
<1> QED BY <1>2, <1>3

\* With auto-configs alone the rest of the configuration is its base.
LEMMA AutoAloneValid ==
  ASSUME PassInv, next > Len(options),
         pc = "second" \/ (pc = "first" /\ config.autoConfig = Nil),
         \A i \in DOMAIN options : options[i].field = "autoConfig"
  PROVE  valid(config)
<1> DEFINE base == IF pc = "first" THEN defaultConfig ELSE BaseConfig
<1>1. Sound(base)
  BY BaseSound, DefaultSound DEF PassInv
<1>2. \A f \in Fields \ {"autoConfig"} : Places(f) = {}
  BY DEF Places
<1>3. \A f \in Fields : Overlaid(f, base)
  BY DEF PassInv
<1> HIDE DEF base
<1>4. \A f \in Fields \ {"autoConfig"} : config[f] = base[f]
  BY <1>2, <1>3, PassEnds
<1>5. /\ config.minWorkers = base.minWorkers /\ config.maxWorkers = base.maxWorkers
      /\ config.queueSize = base.queueSize /\ config.scaleUpThreshold = base.scaleUpThreshold
      /\ config.scaleDownIdleDuration = base.scaleDownIdleDuration
      /\ config.scaleCooldown = base.scaleCooldown /\ config.retry = base.retry
  BY <1>4 DEF Fields
<1> QED BY <1>1, <1>5 DEF Sound, valid

LEMMA AutoStep == PassInv /\ AutoAlwaysValid /\ [Next]_vars => AutoAlwaysValid'
<1> SUFFICES ASSUME PassInv, AutoAlwaysValid, [Next]_vars PROVE AutoAlwaysValid'
  OBVIOUS
<1>1. UNCHANGED input
  BY DEF Next, ApplyOption, UseAutoConfig, Validate, StartPool, CallerOverwrites, Later, Ended, vars
<1>2. options' = options
  BY <1>1 DEF options
<1>3. CASE Validate
  BY <1>2, <1>3, AutoAloneValid DEF Validate, AutoAlwaysValid
<1>4. CASE ~Validate
  <2>1. pc' = pc \/ pc' # "refused"
    BY <1>4 DEF Next, ApplyOption, UseAutoConfig, StartPool, CallerOverwrites, Later, Ended, vars
  <2> QED BY <1>2, <2>1 DEF AutoAlwaysValid
<1> QED BY <1>3, <1>4

\* New refuses no pool that is configured by auto-configs alone, whatever the
\* host, the profile or type of workload and the parameters are.
THEOREM AutoIsNeverRefused == Spec => []AutoAlwaysValid
<1>1. Init => AutoAlwaysValid
  BY DEF Init, AutoAlwaysValid
<1>2. PassInv /\ [Next]_vars => PassInv'
  BY NextPass
<1> QED BY <1>1, <1>2, AutoStep, InitPass, PTL DEF Spec

-----------------------------------------------------------------------------
(***************************************************************************)
(* Memory: a queue that was sized by it fits into the fraction asked for.  *)
(***************************************************************************)
LEMMA SizedByMemory ==
  ASSUME input \in Inputs, NEW c, c.maxWorkers \in Nat, DOMAIN c = Fields,
         NEW auto, AutoTyped(auto), auto.kind = "system",
         auto.bytes > 0, memoryLimit > 0
  PROVE  LET d == MemorySized(c, auto) IN
           /\ d.maxWorkers = c.maxWorkers
           /\ \/ /\ d.queueSize * auto.bytes <= memoryLimit
                 /\ auto.percent \in 1..100 =>
                      d.queueSize * auto.bytes * 100 <= memoryLimit * auto.percent
              \/ d.queueSize = d.maxWorkers * 5
<1> DEFINE pct == Fraction(auto.percent)
           q == QueueByMemory(pct, auto.bytes)
           size == Within(c.maxWorkers * 5, c.maxWorkers * 100, q)
           d == MemorySized(c, auto)
           bytes == auto.bytes
<1>1. bytes \in Nat \ {0} /\ memoryLimit \in Nat
  BY HostTyped DEF AutoTyped
<1>2. /\ pct = NaN \/ pct \in 1..100
      /\ auto.percent \in 1..100 => pct = auto.percent
  BY FractionIs DEF AutoTyped
<1>3. d.queueSize = size /\ d.maxWorkers = c.maxWorkers
  BY DEF MemorySized, Fields
<1>4. q \in Nat /\ (pct # NaN => q * (100 * bytes) <= memoryLimit * pct)
  BY <1>1, <1>2, QueueByMemoryFits
<1>5. pct = NaN => q = 0
  BY DEF QueueByMemory
<1>6. size \in Nat /\ (size <= q \/ size = c.maxWorkers * 5)
  <2> DEFINE lo == c.maxWorkers * 5
             hi == c.maxWorkers * 100
  <2>1. lo \in Nat /\ hi \in Nat /\ lo <= hi
    OBVIOUS
  <2> HIDE DEF q, lo, hi
  <2>2. Within(lo, hi, q) \in Nat /\ (Within(lo, hi, q) <= q \/ Within(lo, hi, q) = lo)
    <3>1. q \in Int /\ lo \in Int /\ hi \in Int
      BY <1>4, <2>1
    <3>2. /\ Within(lo, hi, q) \in lo..hi
          /\ Within(lo, hi, q) <= q \/ Within(lo, hi, q) = lo
      BY <2>1, <3>1, WithinBounds
    <3> QED BY <2>1, <3>2
  <2> QED BY <2>2 DEF lo, hi
<1> HIDE DEF pct, q, size, d, bytes
<1>7. CASE size <= q /\ pct # NaN
  <2>1. size * bytes <= q * bytes
    BY <1>1, <1>4, <1>6, <1>7
  <2>2. q * (100 * bytes) = (q * bytes) * 100
    BY <1>1, <1>4
  <2>3. pct \in 1..100
    BY <1>2, <1>7
  <2> DEFINE used == size * bytes
             most == q * bytes
             part == memoryLimit * pct
  <2>4. used \in Nat /\ most \in Nat /\ part \in Nat /\ part <= memoryLimit * 100
    BY <1>1, <1>4, <1>6, <2>3
  <2>5. used <= most /\ most * 100 <= part
    BY <1>4, <1>7, <2>1, <2>2
  <2> HIDE DEF used, most, part
  <2>6. used <= memoryLimit /\ used * 100 <= part
    BY <1>1, <2>4, <2>5
  <2>7. auto.percent \in 1..100 => pct = auto.percent
    BY <1>2, <1>7
  <2>8. d.queueSize * bytes <= memoryLimit /\ d.queueSize * bytes * 100 <= part
    BY <1>3, <2>6 DEF used
  <2> QED BY <1>3, <2>7, <2>8 DEF part, d, bytes
<1>8. CASE size <= q /\ pct = NaN
  <2>1. size = 0
    BY <1>5, <1>6, <1>8
  <2> QED BY <1>1, <1>3, <2>1 DEF d, bytes
<1> QED BY <1>3, <1>6, <1>7, <1>8 DEF d

\* At the end the queue has the size that the last auto-config gave it.
LEMMA QueueFits == PassInv => QueueFitsMemory
<1> SUFFICES ASSUME PassInv, pc \in {"valid", "built", "refused"},
                    Places("queueSize") = {}, Places("maxWorkers") = {},
                    config.autoConfig # Nil, config.autoConfig.kind = "system",
                    config.autoConfig.bytes > 0, memoryLimit > 0
             PROVE  \/ /\ config.queueSize * config.autoConfig.bytes <= memoryLimit
                       /\ config.autoConfig.percent \in 1..100 =>
                            config.queueSize * config.autoConfig.bytes * 100
                              <= memoryLimit * config.autoConfig.percent
                    \/ config.queueSize = config.maxWorkers * 5
  BY DEF QueueFitsMemory
<1> DEFINE auto == config.autoConfig
           c == Sized(defaultConfig, TypeSizes, auto.type)
<1>1. next > Len(options) /\ input \in Inputs
  BY DEF PassInv
<1>2. \A f \in Fields : config[f] = IF Places(f) = {} THEN BaseConfig[f]
                                    ELSE options[LastOf(Places(f))].value
  BY <1>1, PassEnds DEF PassInv
<1>3. config.queueSize = BaseConfig.queueSize /\ config.maxWorkers = BaseConfig.maxWorkers
  BY <1>2 DEF Fields
<1>4. Places("autoConfig") # {}
  BY <1>2, DefaultFields DEF Fields, BaseConfig
<1>5. auto = options[LastOf(Places("autoConfig"))].value
  BY <1>2, <1>4 DEF Fields
<1>6. AutoTyped(auto) /\ BaseConfig = runAutoConfig(defaultConfig, auto)
  BY <1>1, <1>4, <1>5, LastAuto
<1>7. Sound(c)
  BY <1>1, DefaultSound, SizedSound
<1> HIDE DEF c, auto
<1>8. BaseConfig = LatencyAdjusted(MemorySized(c, auto), auto.target)
  BY <1>6 DEF runAutoConfig, applySystemAwareConfig, c, auto
<1> DEFINE d == MemorySized(c, auto)
<1>9. BaseConfig.queueSize = d.queueSize /\ BaseConfig.maxWorkers = d.maxWorkers
  <2>1. DOMAIN d = Fields
    BY <1>7 DEF MemorySized, Sound
  <2> HIDE DEF d
  <2> QED BY <1>8, <2>1 DEF LatencyAdjusted, Fields, d
<1>10. /\ \/ /\ d.queueSize * auto.bytes <= memoryLimit
             /\ auto.percent \in 1..100 =>
                  d.queueSize * auto.bytes * 100 <= memoryLimit * auto.percent
          \/ d.queueSize = d.maxWorkers * 5
  <2>1. c.maxWorkers \in Nat /\ DOMAIN c = Fields
    BY <1>7 DEF Sound
  <2>2. auto.kind = "system" /\ auto.bytes > 0 /\ memoryLimit > 0
    BY DEF auto
  <2> QED BY <1>1, <1>6, <2>1, <2>2, SizedByMemory
<1> HIDE DEF d
<1> QED BY <1>3, <1>9, <1>10 DEF auto

\* The queue that an auto-config sized by memory, which no explicit option
\* changed, holds no more jobs than fit into the fraction of the limit that was
\* asked for, or five for each worker, on every host.
THEOREM QueueAlwaysFits == Spec => []QueueFitsMemory
<1>1. PassInv /\ [Next]_vars => PassInv'
  BY NextPass
<1> QED BY <1>1, QueueFits, InitPass, PTL DEF Spec

-----------------------------------------------------------------------------
(***************************************************************************)
(* Delays: a backoff that New accepts, or the default one, has a base and  *)
(* a multiplier for which nothing wraps around and no delay shrinks.       *)
(***************************************************************************)
BackoffSound(b) ==
  /\ b.strategy \in {"constant", "linear", "exponential"}
  /\ b.base \in 0..maxDuration
  /\ b.strategy = "exponential" =>
       /\ Multiplier(b)[1] \in Nat \ {0} /\ Multiplier(b)[2] \in Nat \ {0}
       /\ Multiplier(b)[1] >= Multiplier(b)[2]

\* Only what was validated starts a pool, and the engine has its backoff.
DelayInv ==
  /\ retry \in Nat \ {0}
  /\ pc = "valid" => valid(config)
  /\ engine # Nil => BackoffSound(engine.policy.backoff)

\* A policy of the configuration was given as an option: no base has one.
LEMMA PolicyIsOption ==
  ASSUME PassInv, next > Len(options), pc \notin {"first", "second"}, config.retry # Nil
  PROVE  PolicyTyped(config.retry)
<1>1. "retry" \in Fields
  BY DEF Fields
<1>2. BaseConfig.retry = Nil
  BY BaseSound DEF Sound
<1>3. Overlaid("retry", BaseConfig)
  BY <1>1 DEF PassInv
<1>4. PICK j \in Seen("retry") : config.retry = options[j].value
  BY <1>2, <1>3 DEF Overlaid
<1>5. j \in DOMAIN options /\ options[j].field = "retry"
  BY DEF Seen, Places
<1> QED BY <1>4, <1>5, PoliciesAssumption DEF PassInv, options

LEMMA EngineBackoffSound ==
  ASSUME NEW policy, PolicyTyped(policy), validBackoff(policy.backoff)
  PROVE  BackoffSound(WithBackoff(policy).backoff)
<1> DEFINE b == WithBackoff(policy).backoff
<1>1. CASE policy.backoff = Nil
  <2>1. b.strategy = "exponential" /\ b.base = 1 /\ b.mult = <<0, 1>>
    BY <1>1 DEF WithBackoff, PolicyTyped
  <2> HIDE DEF b
  <2>2. BackoffSound(b)
    BY <2>1, DurationAssumption DEF BackoffSound, Multiplier
  <2> QED BY <2>2 DEF b
<1>2. CASE policy.backoff # Nil
  <2>1. b = policy.backoff
    BY <1>2 DEF WithBackoff
  <2>2. /\ b.strategy \in {"constant", "linear", "exponential"}
        /\ b.base \in Int /\ b.base <= maxDuration /\ b.base >= 0
    BY <1>2, <2>1 DEF PolicyTyped, validBackoff
  <2>3. b.strategy = "exponential" =>
          /\ b.mult[1] \in Int /\ b.mult[2] \in Nat \ {0}
          /\ b.mult[1] = 0 \/ b.mult[1] >= b.mult[2]
    BY <1>2, <2>1 DEF PolicyTyped, validBackoff, Finite
  <2> HIDE DEF b
  <2>4. b.strategy = "exponential" =>
          /\ Multiplier(b)[1] \in Nat \ {0} /\ Multiplier(b)[2] \in Nat \ {0}
          /\ Multiplier(b)[1] >= Multiplier(b)[2]
    BY <2>3 DEF Multiplier
  <2>5. BackoffSound(b)
    BY <2>2, <2>4, DurationAssumption DEF BackoffSound
  <2> QED BY <2>5 DEF b
<1> QED BY <1>1, <1>2

LEMMA DelayStep == PassInv /\ DelayInv /\ [Next]_vars => DelayInv'
<1> SUFFICES ASSUME PassInv, DelayInv, [Next]_vars PROVE DelayInv'
  OBVIOUS
<1>1. CASE Validate
  <2>1. UNCHANGED <<config, limits, engine, retry>> /\ (pc' = "valid" => valid(config))
    BY <1>1 DEF Validate
  <2>2. valid(config) => valid(config)'
    BY <2>1 DEF valid, validRetry, validBackoff, Finite
  <2> QED BY <2>1, <2>2 DEF DelayInv, BackoffSound, Multiplier
<1>2. CASE StartPool
  <2>1. pc' = "built" /\ UNCHANGED retry
    BY <1>2 DEF StartPool
  <2>2. ASSUME config.retry # Nil, engine' = newRetrier(config.retry)
        PROVE  BackoffSound(engine'.policy.backoff)
    <3>1. PolicyTyped(config.retry)
      BY <1>2, <2>2, PolicyIsOption DEF StartPool, PassInv
    <3>2. validBackoff(config.retry.backoff)
      BY <1>2, <2>2 DEF StartPool, DelayInv, valid, validRetry
    <3>3. engine'.policy.backoff = WithBackoff(config.retry).backoff
      BY <2>2 DEF newRetrier
    <3> QED BY <3>1, <3>2, <3>3, EngineBackoffSound
  <2>3. engine' # Nil => BackoffSound(engine'.policy.backoff)
    BY <1>2, <2>2 DEF StartPool
  <2> QED BY <2>1, <2>3 DEF DelayInv, BackoffSound, Multiplier
<1>3. CASE ApplyOption \/ UseAutoConfig
  BY <1>3 DEF ApplyOption, UseAutoConfig, DelayInv, BackoffSound, Multiplier
<1>4. ASSUME NEW i \in DOMAIN limits, CallerOverwrites(i) PROVE DelayInv'
  BY <1>4 DEF CallerOverwrites, DelayInv, BackoffSound, Multiplier
<1>5. CASE Later
  BY <1>5 DEF Later, DelayInv, BackoffSound, Multiplier
<1>6. CASE Ended \/ UNCHANGED vars
  BY <1>6 DEF Ended, vars, DelayInv, BackoffSound, Multiplier, valid, validRetry, validBackoff, Finite
<1> QED BY <1>1, <1>2, <1>3, <1>4, <1>5, <1>6 DEF Next

LEMMA DelayKept == Spec => []DelayInv
<1>1. Init => DelayInv
  BY DEF Init, DelayInv
<1>2. PassInv /\ [Next]_vars => PassInv'
  BY NextPass
<1> QED BY <1>1, <1>2, DelayStep, InitPass, PTL DEF Spec

\* For every policy that New accepts and every retry the linear delay is exact or
\* the largest duration, and the exponential one at least its base as a float, but
\* for the largest duration; in every format of floats, and whatever conversions
\* out of range give.
THEOREM DelaysAlwaysClamped ==
  Spec => []DelaysClamped
<1>1. DelayInv => DelaysClamped
  <2> SUFFICES ASSUME DelayInv, engine # Nil PROVE DelaysClamped
    BY DEF DelaysClamped
  <2> DEFINE b == engine.policy.backoff
  <2>1. BackoffSound(b) /\ retry \in Nat \ {0} /\ maxDuration \in Nat
    BY DurationAssumption DEF DelayInv
  <2>2. CASE b.strategy = "constant"
    BY <2>1, <2>2 DEF DelaysClamped, Delay, ConstantNext, BackoffSound
  <2>3. CASE b.strategy = "linear"
    BY <2>1, <2>3, LinearNextClamps DEF DelaysClamped, Delay, BackoffSound
  <2>4. CASE b.strategy = "exponential"
    BY <2>1, <2>4, ExponentialNextInRange DEF DelaysClamped, Delay, BackoffSound
  <2> QED BY <2>1, <2>2, <2>3, <2>4 DEF BackoffSound
<1> QED BY <1>1, DelayKept, PTL

\* With a policy that New accepts no job waits less before a later retry than
\* before an earlier one, as far as its backoff goes.
THEOREM DelaysNeverShrink ==
  Spec => NeverShrinks
<1>1. DelayInv /\ [Next]_vars => [engine # Nil => Delay(retry') >= Delay(retry)]_retry
  <2> SUFFICES ASSUME DelayInv, [Next]_vars, retry' # retry, engine # Nil
               PROVE  Delay(retry') >= Delay(retry)
    OBVIOUS
  <2> DEFINE b == engine.policy.backoff
  <2>1. retry' = retry + 1
    BY DEF Next, ApplyOption, UseAutoConfig, Validate, StartPool, CallerOverwrites, Later, Ended, vars
  <2>2. BackoffSound(b) /\ retry \in Nat \ {0} /\ maxDuration \in Nat
    BY DurationAssumption DEF DelayInv
  <2>3. CASE b.strategy = "constant"
    BY <2>2, <2>3 DEF Delay, ConstantNext, BackoffSound
  <2>4. CASE b.strategy = "linear"
    BY <2>1, <2>2, <2>4, LinearGrows DEF Delay, BackoffSound
  <2>5. CASE b.strategy = "exponential"
    BY <2>1, <2>2, <2>5, ExponentialGrows DEF Delay, BackoffSound
  <2> QED BY <2>2, <2>3, <2>4, <2>5 DEF BackoffSound
<1> QED BY <1>1, DelayKept, PTL DEF Spec, NeverShrinks

\* Whatever policy New accepts: the delay before any retry, not only those a run
\* gets to, is a duration that is not negative, and never less than the one before.
THEOREM EveryDelayIsDuration ==
  Spec => [](engine # Nil =>
                      \A n \in Nat \ {0} : Delay(n) \in 0..maxDuration /\ Delay(n + 1) >= Delay(n))
<1>1. ASSUME DelayInv, engine # Nil, NEW n \in Nat \ {0}
      PROVE  Delay(n) \in 0..maxDuration /\ Delay(n + 1) >= Delay(n)
  <2> DEFINE b == engine.policy.backoff
  <2>1. BackoffSound(b) /\ maxDuration \in Nat
    BY <1>1, DurationAssumption DEF DelayInv
  <2>2. CASE b.strategy = "constant"
    BY <2>1, <2>2 DEF Delay, ConstantNext, BackoffSound
  <2>3. CASE b.strategy = "linear"
    BY <2>1, <2>3, LinearNextTyped, LinearGrows DEF Delay, BackoffSound
  <2>4. CASE b.strategy = "exponential"
    BY <2>1, <2>4, ExponentialNextTyped, ExponentialGrows DEF Delay, BackoffSound
  <2> QED BY <2>1, <2>2, <2>3, <2>4 DEF BackoffSound
<1>2. DelayInv => (engine # Nil =>
        \A n \in Nat \ {0} : Delay(n) \in 0..maxDuration /\ Delay(n + 1) >= Delay(n))
  BY <1>1
<1> QED BY <1>2, DelayKept, PTL
-----------------------------------------------------------------------------
(***************************************************************************)
(* What New builds is what the models of the pool and of the retry engine  *)
(* assume: the clauses of ConfigAssumption in PoolState, of the            *)
(* configuration, and those of PolicyAssumption in Retry, of the engine.   *)
(***************************************************************************)
SizesBuilt(c) ==
  /\ c.minWorkers \in Nat \ {0}
  /\ c.maxWorkers \in Nat /\ c.maxWorkers >= c.minWorkers
  /\ c.queueSize \in Nat \ {0}
  /\ c.scaleUpThreshold \in 0..100 \/ c.scaleUpThreshold = NaN

PolicyBuilt(e) ==
  /\ e.policy.maxAttempts \in Nat \ {0}
  /\ e.policy.maxDelay \in Nat /\ e.policy.maxElapsedTime \in Nat
  /\ \A i \in DOMAIN e.limits : e.limits[i].err # Nil /\ e.limits[i].max \in Nat \ {0}
  /\ BackoffSound(e.policy.backoff)

\* From New on neither the configuration nor the engine changes; the caller may
\* overwrite its own slice.
BuiltInv ==
  /\ pc = "built" => SizesBuilt(config)
  /\ engine # Nil => PolicyBuilt(engine)

\* Behind the last option a field that is neither the policy nor the auto-config
\* is a number, the threshold perhaps NaN.
LEMMA NumbersKept ==
  ASSUME PassInv, next > Len(options), pc \notin {"first", "second"},
         NEW f \in Fields \ {"retry", "autoConfig"}
  PROVE  config[f] \in Int \/ (f = "scaleUpThreshold" /\ config[f] = NaN)
<1>1. BaseConfig[f] \in Int
  BY BaseSound DEF Sound, Fields
<1>2. Overlaid(f, BaseConfig)
  BY DEF PassInv
<1>3. ASSUME NEW j \in Seen(f), config[f] = options[j].value
      PROVE  config[f] \in Int \/ (f = "scaleUpThreshold" /\ config[f] = NaN)
  <2>1. j \in DOMAIN options /\ options[j].field = f
    BY DEF Seen, Places
  <2> QED BY <1>3, <2>1, NumbersAssumption DEF PassInv, options
<1> QED BY <1>1, <1>2, <1>3 DEF Overlaid

LEMMA ValidIsBuilt ==
  ASSUME PassInv, pc = "valid", valid(config)
  PROVE  SizesBuilt(config)
<1>1. next > Len(options)
  BY DEF PassInv
<1>2. /\ config.minWorkers \in Int /\ config.maxWorkers \in Int /\ config.queueSize \in Int
  BY <1>1, NumbersKept DEF Fields
<1> QED BY <1>2 DEF valid, SizesBuilt

LEMMA EngineIsBuilt ==
  ASSUME PassInv, LimitsInv, pc = "valid", valid(config), config.retry # Nil
  PROVE  PolicyBuilt(newRetrier(config.retry))
<1> DEFINE policy == config.retry
           e == newRetrier(policy)
<1>1. PolicyTyped(policy)
  BY PolicyIsOption DEF PassInv
<1>2. validRetry(policy)
  BY DEF valid
<1>3. BackoffSound(e.policy.backoff)
  BY <1>1, <1>2, EngineBackoffSound DEF validRetry, newRetrier
<1>4. /\ e.policy.maxAttempts = policy.maxAttempts /\ e.policy.maxDelay = policy.maxDelay
      /\ e.policy.maxElapsedTime = policy.maxElapsedTime /\ e.limits = limits
  BY <1>1 DEF newRetrier, WithBackoff, PolicyTyped
<1>5. \A i \in DOMAIN limits : limits[i].max \in Int
  BY InputsAssumption DEF LimitsInv
<1> HIDE DEF policy, e
<1>6. PolicyBuilt(e)
  BY <1>1, <1>2, <1>3, <1>4, <1>5 DEF PolicyTyped, validRetry, PolicyBuilt
<1> QED BY <1>6 DEF e, policy

LEMMA BuiltStep == PassInv /\ LimitsInv /\ DelayInv /\ BuiltInv /\ [Next]_vars => BuiltInv'
<1> SUFFICES ASSUME PassInv, LimitsInv, DelayInv, BuiltInv, [Next]_vars PROVE BuiltInv'
  OBVIOUS
<1>1. CASE StartPool
  <2>1. pc = "valid" /\ valid(config) /\ config' = config
    BY <1>1 DEF StartPool, DelayInv
  <2>2. SizesBuilt(config')
    BY <2>1, ValidIsBuilt
  <2>3. engine' # Nil => engine' = newRetrier(config.retry) /\ config.retry # Nil
    BY <1>1 DEF StartPool
  <2>4. engine' # Nil => PolicyBuilt(engine')
    BY <2>1, <2>3, EngineIsBuilt
  <2> QED BY <2>2, <2>4 DEF BuiltInv, PolicyBuilt, BackoffSound, Multiplier, SizesBuilt
<1>2. CASE ApplyOption \/ UseAutoConfig \/ Validate
  BY <1>2 DEF ApplyOption, UseAutoConfig, Validate, BuiltInv, PolicyBuilt, BackoffSound, Multiplier
<1>3. CASE Later \/ Ended \/ UNCHANGED vars \/ \E i \in DOMAIN limits : CallerOverwrites(i)
  BY <1>3 DEF Later, Ended, CallerOverwrites, vars, BuiltInv, PolicyBuilt, BackoffSound, Multiplier,
     SizesBuilt
<1> QED BY <1>1, <1>2, <1>3 DEF Next

\* What the pool and the retry engine are proved to do, for every configuration
\* and policy within their assumptions, holds for all that New builds: whatever
\* the options and the auto-config, and whatever the caller does with its slice
\* of limits later. A threshold that is no number is the one exception.
THEOREM BuiltWithinAssumptions ==
  Spec => [](/\ pc = "built" => SizesBuilt(config)
             /\ engine # Nil => PolicyBuilt(engine))
<1>1. Init => BuiltInv
  BY DEF Init, BuiltInv
<1>2. PassInv /\ [Next]_vars => PassInv'
  BY NextPass
<1>3. BuiltInv => /\ pc = "built" => SizesBuilt(config)
                  /\ engine # Nil => PolicyBuilt(engine)
  BY DEF BuiltInv
<1> QED BY <1>1, <1>2, <1>3, InitPass, BuiltStep, LimitsInvKept, DelayKept, PTL DEF Spec
=============================================================================
