------------------------------- MODULE MCConfig -------------------------------
(***************************************************************************)
(* Calls of New for TLC: lists of up to three options that set sizes, on   *)
(* hosts with different limits, and single retry policies.                 *)
(***************************************************************************)
EXTENDS Config, MCFloats

Option(field, values) == {[field |-> field, value |-> v] : v \in values}

System(type, target, bytes, percent) ==
  [kind |-> "system", type |-> type, target |-> target, bytes |-> bytes, percent |-> percent]

Autos ==
  {[kind |-> "profile", profile |-> p] : p \in {"apiServer", "cpuIntensive", "batch", "unknown"}}
  \union {System("ioBound", 50, 3, 20), System("cpuBound", 200, 0, 20), System("unknown", 0, 1, 20)}

\* Every kind of system-aware configuration, alone.
Systems ==
  {System(t, l, b, p) : t \in {"ioBound", "cpuBound", "mixed"}, l \in {0, 99, 100, 499, 500},
                        b \in {0, 1, 3}, p \in {NaN, 0, 1, 20, 100, 150}}

SizeOptions ==
  Option("minWorkers", {0, 1, 5}) \union Option("maxWorkers", {1, 4})
  \union Option("queueSize", {0, 7}) \union Option("scaleUpThreshold", {NaN, -1, 0, 100, 101})
  \union Option("scaleCooldown", {-1, 0}) \union Option("autoConfig", Autos)

File(holds, bytes) == [holds |-> holds, bytes |-> bytes]

Host(limit, files) == [numCPU |-> 4, gomaxprocs |-> 2, gomemlimit |-> limit, files |-> files]

Nothing == File("nothing", 0)
Hosts ==
  {Host(m, <<f, g>>) : m \in {0, 90, maxInt64},
                       f \in {Nothing, File("text", 0), File("number", 700)},
                       g \in {Nothing, File("number", maxInt64 - 95), File("number", 20)}}

Backoffs ==
  {Nil}
  \union {[strategy |-> s, base |-> b, mult |-> <<0, 1>>] :
            s \in {"constant", "linear"}, b \in -1..maxDuration}
  \union {[strategy |-> "exponential", base |-> b, mult |-> m] :
            b \in -1..maxDuration, m \in {<<0, 1>>, <<1, 1>>, <<3, 1>>, <<1, 2>>, <<-1, 1>>, NaN, Inf}}

Policy(b, attempts, delay, budget) ==
  [backoff |-> b, maxAttempts |-> attempts, maxDelay |-> delay, maxElapsedTime |-> budget]

Policies ==
  {Policy(b, 2, 0, 0) : b \in Backoffs}
  \union {Policy(Nil, n, d, t) : n \in {0, 1}, d \in {-1, 3}, t \in {-1, 9}}

Limits == {<<>>, <<[err |-> "e", max |-> 1], [err |-> "f", max |-> 2]>>,
           <<[err |-> "e", max |-> 0]>>, <<[err |-> Nil, max |-> 1]>>}

SizeLists == UNION {[1..n -> SizeOptions] : n \in 0..3}

Input(opts, h, l) == [options |-> opts, host |-> h, limits |-> l]
Container == Host(maxInt64, <<File("number", 700), Nothing>>)

MCInputs ==
  {Input(opts, Container, <<>>) : opts \in SizeLists}
  \union {Input(<<o>>, h, <<>>) : o \in Option("autoConfig", Systems), h \in Hosts}
  \union {Input(<<o>>, Container, l) : o \in Option("retry", Policies), l \in Limits}
=============================================================================
