------------------------------- MODULE Backoff -------------------------------
(***************************************************************************)
(* The built-in backoffs (retry.go): the delay before a retry, in the      *)
(* arithmetic of a signed duration whose largest value is maxDuration, and *)
(* of the floats ExponentialBackoff computes with.                         *)
(*                                                                         *)
(* A float is NaN or not negative here. Floats[i] is the one with the bit  *)
(* pattern i, in units of the least one above zero; Floats[Top] is what    *)
(* +Inf takes the place of. One is 1.0 in these units.                     *)
(***************************************************************************)
EXTENDS Integers

CONSTANTS
  maxDuration,
  Top, Floats, One,
  NaN,
  Arbitrary    \* what the conversion of a float that is no duration gives

ASSUME DurationAssumption == maxDuration \in Nat \ {0}

ASSUME FloatsAssumption ==
  /\ Top \in Nat /\ Floats \in [0..Top -> Nat] /\ Floats[0] = 0
  /\ \A i, j \in 0..Top : i < j => Floats[i] < Floats[j]
  /\ NaN \notin Nat

\* 1.0 is a float, and 2^63, the first whole number that is no duration, is
\* one below +Inf.
ASSUME UnitAssumption ==
  /\ \E i \in 1..Top : Floats[i] = One
  /\ \E i \in 1..(Top - 1) : Floats[i] = (maxDuration + 1) * One

\* What is left of a product that does not fit, in two's complement.
Wrap(n) ==
  LET half == maxDuration + 1 IN ((n + half) % (2 * half)) - half

ConstantNext(delay) == delay

LinearNext(base, retry) ==
  IF base > 0 /\ retry > maxDuration \div base
  THEN maxDuration
  ELSE Wrap(base * retry)

-----------------------------------------------------------------------------
(***************************************************************************)
(* Floats                                                                  *)
(***************************************************************************)
PlusInf == Floats[Top]

\* num / den is above the middle of Floats[i - 1] and Floats[i], or is the middle
\* and the pattern i is even.
Reaches(i, num, den) ==
  i = 0 \/ LET middle == (Floats[i - 1] + Floats[i]) * den
           IN  2 * num > middle \/ (2 * num = middle /\ i % 2 = 0)

\* The float nearest to num / den units, +Inf if that is too large.
Round(num, den) ==
  Floats[CHOOSE i \in 0..Top :
           Reaches(i, num, den) /\ (i < Top => ~Reaches(i + 1, num, den))]

Float(n) == Round(n * One, 1)

Times(x, y) ==
  IF PlusInf \notin {x, y} THEN Round(x * y, One)
  ELSE IF 0 \in {x, y} THEN NaN
  ELSE PlusInf

\* No comparison with NaN is true.
AtLeast(x, y) == x # NaN /\ y # NaN /\ x >= y

Power(m) == LET pow[n \in Nat] == IF n = 0 THEN 1 ELSE m * pow[n - 1] IN pow

\* math.Pow of the multiplier num / den and a whole exponent.
Pow(num, den, k) == Round(Power(num)[k] * One, Power(den)[k])

\* The whole part of a float, if that is a duration.
ToDuration(x) ==
  IF x # NaN /\ x < (maxDuration + 1) * One THEN x \div One ELSE Arbitrary

-----------------------------------------------------------------------------
(***************************************************************************)
(* ExponentialBackoff, with a multiplier of num / den.                     *)
(***************************************************************************)
\* Mutant of ExponentialNext: nothing is done about a base of zero.
ExponentialNextUnguarded(base, num, den, retry) ==
  LET d == Times(Float(base), Pow(num, den, retry - 1))
  IN  IF AtLeast(d, Float(maxDuration)) THEN maxDuration ELSE ToDuration(d)

ExponentialNext(base, num, den, retry) ==
  LET d == Times(Float(base), Pow(num, den, retry - 1))
  IN  IF base = 0 THEN 0
      ELSE IF AtLeast(d, Float(maxDuration)) THEN maxDuration
      ELSE ToDuration(d)
=============================================================================
