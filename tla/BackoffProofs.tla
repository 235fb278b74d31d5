---------------------------- MODULE BackoffProofs ----------------------------
(***************************************************************************)
(* Theorems about the built-in backoffs, for every base and multiplier,    *)
(* every width of a duration and every format of floats.                   *)
(***************************************************************************)
EXTENDS Backoff, Recursion

LEMMA WrapKeeps ==
  ASSUME NEW n \in Nat, n <= maxDuration
  PROVE  Wrap(n) = n
  BY DurationAssumption DEF Wrap

\* The product of LinearBackoff never wraps around: it is exact or clamped.
THEOREM LinearNextClamps ==
  ASSUME NEW base \in 0..maxDuration, NEW retry \in Nat
  PROVE  LinearNext(base, retry) =
           IF base * retry > maxDuration THEN maxDuration ELSE base * retry
<1>1. CASE base = 0
  <2>1. base * retry = 0
    BY <1>1
  <2>2. Wrap(0) = 0
    BY DurationAssumption DEF Wrap
  <2> QED BY <1>1, <2>1, <2>2, DurationAssumption DEF LinearNext
<1>2. CASE base > 0
  <2>1. retry > maxDuration \div base <=> base * retry > maxDuration
    BY <1>2, DurationAssumption
  <2>2. base * retry \in Nat
    BY <1>2
  <2> QED BY <1>2, <2>1, <2>2, WrapKeeps, DurationAssumption DEF LinearNext
<1> QED BY <1>1, <1>2, DurationAssumption

LEMMA LinearNextTyped ==
  ASSUME NEW base \in 0..maxDuration, NEW retry \in Nat
  PROVE  LinearNext(base, retry) \in 0..maxDuration
<1> DEFINE product == base * retry
<1>1. product \in Nat
  BY DurationAssumption
<1>2. LinearNext(base, retry) = IF product > maxDuration THEN maxDuration ELSE product
  BY LinearNextClamps
<1> HIDE DEF product
<1> QED BY <1>1, <1>2, DurationAssumption

\* No later retry waits less than an earlier one.
LEMMA LinearGrows ==
  ASSUME NEW base \in 0..maxDuration, NEW retry \in Nat
  PROVE  LinearNext(base, retry + 1) >= LinearNext(base, retry)
<1> DEFINE now == base * retry
           later == base * (retry + 1)
<1>1. now \in Nat /\ later \in Nat /\ now <= later
  BY DurationAssumption
<1>2. /\ LinearNext(base, retry) = IF now > maxDuration THEN maxDuration ELSE now
      /\ LinearNext(base, retry + 1) = IF later > maxDuration THEN maxDuration ELSE later
  BY LinearNextClamps
<1> HIDE DEF now, later
<1> QED BY <1>1, <1>2, DurationAssumption

-----------------------------------------------------------------------------
(***************************************************************************)
(* Powers.                                                                 *)
(***************************************************************************)
\* Power is the function its definition describes.
LEMMA PowerIs ==
  ASSUME NEW m \in Nat \ {0}, NEW k \in Nat
  PROVE  /\ Power(m)[k] \in Nat \ {0} /\ Power(m)[k + 1] = Power(m)[k] * m
         /\ Power(m)[0] = 1
<1> DEFINE G == [n \in Nat \ {0} |-> [v \in Nat \ {0} |-> m * v]]
           Solution(pow) == pow = [n \in Nat |-> IF n = 0 THEN 1 ELSE m * pow[n - 1]]
<1>1. \A n \in Nat \ {0} : \A v \in Nat \ {0} : G[n][v] = m * v /\ G[n][v] \in Nat \ {0}
  OBVIOUS
<1> HIDE DEF G
<1>2. PICK f \in [Nat -> Nat \ {0}] : \A n \in Nat : f[n] = IF n = 0 THEN 1 ELSE G[n][f[n - 1]]
  <2> DEFINE V == Nat \ {0}
  <2>1. 1 \in V /\ NatStepOn(V, G)
    BY <1>1 DEF NatStepOn
  <2> HIDE DEF V
  <2>2. \E f \in [Nat -> V] : NatSolves(f, 1, G)
    BY <2>1, NatRecursion
  <2> QED BY <2>2 DEF V, NatSolves
<1>3. Solution(f)
  <2>1. ASSUME NEW n \in Nat PROVE f[n] = IF n = 0 THEN 1 ELSE m * f[n - 1]
    <3>1. n # 0 => n - 1 \in Nat
      OBVIOUS
    <3> QED BY <1>1, <1>2, <3>1
  <2> QED BY <2>1
<1>4. Power(m) = CHOOSE pow : Solution(pow)
  BY DEF Power
<1> HIDE DEF Solution
<1>5. Solution(Power(m))
  BY <1>3, <1>4
<1> DEFINE p == Power(m)
<1> HIDE DEF p
<1>6. p = [n \in Nat |-> IF n = 0 THEN 1 ELSE m * p[n - 1]]
  BY <1>5 DEF Solution, p
<1>7. \A n \in Nat : p[n + 1] = m * p[n]
  BY <1>6
<1>8. Nat \subseteq {n \in Nat : p[n] \in Nat \ {0}}
  <2> DEFINE S == {n \in Nat : p[n] \in Nat \ {0}}
  <2>1. 0 \in S
    BY <1>6
  <2>2. \A n \in Nat : n \in S => n + 1 \in S
    BY <1>7
  <2> HIDE DEF S
  <2> QED BY <2>1, <2>2, NatSetInduction DEF S
<1>9. p[k] \in Nat \ {0}
  BY <1>8
<1> QED BY <1>6, <1>7, <1>9 DEF p

-----------------------------------------------------------------------------
(***************************************************************************)
(* Rounding, for any format of floats.                                     *)
(***************************************************************************)
LEMMA UnitIs ==
  /\ One \in Nat \ {0} /\ Top \in Nat \ {0} /\ (maxDuration + 1) * One \in Nat
  /\ One <= (maxDuration + 1) * One /\ (maxDuration + 1) * One < PlusInf
<1>1. PICK i \in 1..Top : Floats[i] = One
  BY UnitAssumption
<1>2. i \in 0..Top /\ 0 \in 0..Top /\ 0 < i /\ Top \in Nat \ {0}
  BY FloatsAssumption
<1>3. One \in Nat \ {0}
  BY <1>1, <1>2, FloatsAssumption
<1>4. PICK j \in 1..(Top - 1) : Floats[j] = (maxDuration + 1) * One
  BY UnitAssumption
<1>5. j \in 0..Top /\ Top \in 0..Top /\ j < Top
  BY <1>2
<1>6. (maxDuration + 1) * One \in Nat /\ (maxDuration + 1) * One < PlusInf
  BY <1>4, <1>5, FloatsAssumption DEF PlusInf
<1>7. One <= (maxDuration + 1) * One
  <2>1. 1 * One <= (maxDuration + 1) * One
    BY <1>3, DurationAssumption
  <2> QED BY <1>3, <2>1
<1> QED BY <1>2, <1>3, <1>6, <1>7

\* A common factor keeps the order.
LEMMA ScalingKeepsOrder ==
  ASSUME NEW a \in Nat, NEW b \in Nat, NEW u \in Nat \ {0}
  PROVE  (a * u < b * u <=> a < b) /\ (a * u <= b * u <=> a <= b) /\ a * u \in Nat /\ b * u \in Nat
<1>1. a * u \in Nat /\ b * u \in Nat
  OBVIOUS
<1>2. a <= b => a * u <= b * u
  OBVIOUS
<1>3. b <= a => b * u <= a * u
  OBVIOUS
<1>4. a < b => a * u < b * u
  <2>1. a + 1 <= b => (a + 1) * u <= b * u
    OBVIOUS
  <2>2. (a + 1) * u = a * u + u
    OBVIOUS
  <2> QED BY <1>1, <2>1, <2>2
<1>5. b < a => b * u < a * u
  <2>1. b + 1 <= a => (b + 1) * u <= a * u
    OBVIOUS
  <2>2. (b + 1) * u = b * u + u
    OBVIOUS
  <2> QED BY <1>1, <2>1, <2>2
<1> QED BY <1>1, <1>2, <1>3, <1>4, <1>5

\* The floats on both sides of a middle, and the middles in their order.
LEMMA MiddlesIncrease ==
  ASSUME NEW i \in 1..Top, NEW j \in 1..Top, i < j
  PROVE  /\ Floats[i - 1] \in Nat /\ Floats[i] \in Nat /\ Floats[j - 1] \in Nat /\ Floats[j] \in Nat
         /\ Floats[i - 1] < Floats[i] /\ Floats[i] <= Floats[j - 1] /\ Floats[j - 1] < Floats[j]
<1>1. i \in 0..Top /\ i - 1 \in 0..Top /\ j \in 0..Top /\ j - 1 \in 0..Top /\ Top \in Nat
  BY FloatsAssumption
<1>2. /\ Floats[i - 1] \in Nat /\ Floats[i] \in Nat /\ Floats[j - 1] \in Nat /\ Floats[j] \in Nat
  BY <1>1, FloatsAssumption
<1>3. Floats[i - 1] < Floats[i] /\ Floats[j - 1] < Floats[j]
  <2>1. i - 1 < i /\ j - 1 < j
    BY <1>1
  <2> QED BY <1>1, <2>1, FloatsAssumption
<1>4. i = j - 1 \/ i < j - 1
  BY <1>1
<1>5. Floats[i] <= Floats[j - 1]
  BY <1>1, <1>2, <1>4, FloatsAssumption
<1> QED BY <1>2, <1>3, <1>5

\* What reaches a float reaches every smaller one.
LEMMA ReachesBelow ==
  ASSUME NEW num \in Nat, NEW den \in Nat \ {0}, NEW j \in 0..Top, Reaches(j, num, den),
         NEW i \in 0..Top, i < j
  PROVE  Reaches(i, num, den)
<1>1. CASE i = 0
  BY <1>1 DEF Reaches
<1>2. CASE i # 0
  <2>1. i \in 1..Top /\ j \in 1..Top /\ j # 0
    BY <1>2, FloatsAssumption
  <2> DEFINE low == Floats[i - 1] + Floats[i]
             high == Floats[j - 1] + Floats[j]
  <2>2. low \in Nat /\ high \in Nat /\ low < high
    BY <2>1, MiddlesIncrease
  <2>3. 2 * num > high * den \/ 2 * num = high * den
    BY <2>1 DEF Reaches
  <2>4. low * den < high * den /\ low * den \in Nat /\ high * den \in Nat
    <3> HIDE DEF low, high
    <3> QED BY <2>2, ScalingKeepsOrder
  <2>5. 2 * num > low * den
    <3> HIDE DEF low, high
    <3> QED BY <2>3, <2>4
  <2> QED BY <2>5 DEF Reaches
<1> QED BY <1>1, <1>2

\* Rounding gives the greatest float that is reached.
LEMMA RoundIs ==
  ASSUME NEW num \in Nat, NEW den \in Nat \ {0}
  PROVE  \E i \in 0..Top :
           /\ Round(num, den) = Floats[i]
           /\ Reaches(i, num, den)
           /\ \A j \in 0..Top : Reaches(j, num, den) => j <= i
<1> DEFINE Found(i) == Reaches(i, num, den) /\ (i < Top => ~Reaches(i + 1, num, den))
<1>0. Top \in Nat
  BY FloatsAssumption
<1>1. \E i \in 0..Top : Found(i)
  <2> SUFFICES ASSUME \A i \in 0..Top : ~Found(i) PROVE FALSE
    OBVIOUS
  <2> DEFINE S == {n \in Nat : n <= Top => Reaches(n, num, den)}
  <2>1. 0 \in S
    BY DEF Reaches
  <2>2. ASSUME NEW n \in Nat, n \in S PROVE n + 1 \in S
    <3>1. CASE n + 1 <= Top
      <4>1. n \in 0..Top /\ n < Top /\ Reaches(n, num, den)
        BY <1>0, <2>2, <3>1
      <4>2. Reaches(n + 1, num, den)
        BY <4>1
      <4> QED BY <4>2
    <3>2. CASE ~(n + 1 <= Top)
      BY <3>2
    <3> QED BY <3>1, <3>2
  <2> HIDE DEF S
  <2>3. Top \in S
    BY <1>0, <2>1, <2>2, NatSetInduction
  <2>4. Reaches(Top, num, den) /\ Top \in 0..Top
    BY <1>0, <2>3 DEF S
  <2> QED BY <1>0, <2>4
<1> DEFINE i == CHOOSE k \in 0..Top : Found(k)
<1>2. i \in 0..Top /\ Found(i)
  BY <1>1
<1>3. Round(num, den) = Floats[i]
  BY DEF Round
<1> HIDE DEF i
<1>4. ASSUME NEW j \in 0..Top, Reaches(j, num, den) PROVE j <= i
  <2>1. SUFFICES ASSUME i < j PROVE FALSE
    BY <1>2
  <2>2. i < Top /\ i + 1 \in 0..Top /\ (i + 1 = j \/ i + 1 < j)
    BY <1>0, <1>2, <2>1
  <2>3. Reaches(i + 1, num, den)
    BY <1>4, <2>2, ReachesBelow
  <2> QED BY <1>2, <2>2, <2>3
<1> QED BY <1>2, <1>3, <1>4

LEMMA RoundTyped ==
  ASSUME NEW num \in Nat, NEW den \in Nat \ {0}
  PROVE  Round(num, den) \in Nat /\ Round(num, den) <= PlusInf
<1>1. PICK i \in 0..Top : Round(num, den) = Floats[i]
  BY RoundIs
<1>2. Top \in 0..Top /\ (i = Top \/ i < Top)
  BY FloatsAssumption
<1>3. Floats[i] \in Nat /\ Floats[Top] \in Nat /\ Floats[i] <= Floats[Top]
  BY <1>2, FloatsAssumption
<1> QED BY <1>1, <1>3 DEF PlusInf

\* A float stays what it is.
LEMMA RoundKeeps ==
  ASSUME NEW k \in 0..Top, NEW den \in Nat \ {0}
  PROVE  Round(Floats[k] * den, den) = Floats[k]
<1>0. Top \in Nat /\ Floats[k] \in Nat
  BY FloatsAssumption
<1> DEFINE num == Floats[k] * den
<1>1. num \in Nat
  BY <1>0
<1>2. Reaches(k, num, den)
  <2>1. CASE k = 0
    BY <2>1 DEF Reaches
  <2>2. CASE k # 0
    <3>1. k - 1 \in 0..Top /\ k - 1 < k
      BY <1>0, <2>2
    <3>2. Floats[k - 1] \in Nat /\ Floats[k - 1] < Floats[k]
      BY <3>1, FloatsAssumption
    <3> DEFINE middle == Floats[k - 1] + Floats[k]
               twice == 2 * Floats[k]
    <3>3. middle \in Nat /\ twice \in Nat /\ middle < twice
      BY <1>0, <3>2
    <3>4. 2 * num = twice * den
      BY <1>0
    <3>5. middle * den < twice * den
      <4> HIDE DEF middle, twice
      <4> QED BY <3>3, ScalingKeepsOrder
    <3>6. 2 * num > middle * den
      <4>1. middle * den \in Nat /\ twice * den \in Nat
        BY <3>3
      <4> HIDE DEF middle, twice, num
      <4> QED BY <3>4, <3>5, <4>1
    <3> QED BY <3>6 DEF Reaches
  <2> QED BY <2>1, <2>2
<1>3. ASSUME NEW j \in 0..Top, k < j PROVE ~Reaches(j, num, den)
  <2>1. j # 0 /\ j - 1 \in 0..Top /\ (k = j - 1 \/ k < j - 1) /\ j - 1 < j
    BY <1>0, <1>3
  <2>2. /\ Floats[j - 1] \in Nat /\ Floats[j] \in Nat
        /\ Floats[k] <= Floats[j - 1] /\ Floats[j - 1] < Floats[j]
    BY <1>0, <2>1, FloatsAssumption
  <2> DEFINE middle == Floats[j - 1] + Floats[j]
             twice == 2 * Floats[k]
  <2>3. middle \in Nat /\ twice \in Nat /\ twice < middle
    BY <1>0, <2>2
  <2>4. 2 * num = twice * den
    BY <1>0
  <2>5. twice * den < middle * den /\ middle * den \in Nat /\ twice * den \in Nat
    <3> HIDE DEF middle, twice
    <3> QED BY <2>3, ScalingKeepsOrder
  <2>6. ~(2 * num > middle * den) /\ 2 * num # middle * den
    <3> HIDE DEF middle, twice, num
    <3> QED BY <2>4, <2>5
  <2> QED BY <2>1, <2>6 DEF Reaches
<1> HIDE DEF num
<1>4. PICK i \in 0..Top : /\ Round(num, den) = Floats[i]
                          /\ Reaches(i, num, den)
                          /\ \A j \in 0..Top : Reaches(j, num, den) => j <= i
  BY <1>1, RoundIs
<1>5. k <= i /\ ~(k < i)
  BY <1>2, <1>3, <1>4
<1> QED BY <1>4, <1>5 DEF num

\* Rounding keeps the order of two fractions.
LEMMA RoundGrows ==
  ASSUME NEW n1 \in Nat, NEW d1 \in Nat \ {0}, NEW n2 \in Nat, NEW d2 \in Nat \ {0},
         n1 * d2 <= n2 * d1
  PROVE  Round(n1, d1) <= Round(n2, d2)
<1>1. ASSUME NEW i \in 0..Top, Reaches(i, n1, d1) PROVE Reaches(i, n2, d2)
  <2>1. CASE i = 0
    BY <2>1 DEF Reaches
  <2>2. CASE i # 0
    <3> DEFINE m == Floats[i - 1] + Floats[i]
               left == 2 * n1
               right == 2 * n2
    <3>1. i - 1 \in 0..Top
      BY <2>2, FloatsAssumption
    <3>2. m \in Nat /\ left \in Nat /\ right \in Nat
      BY <3>1, FloatsAssumption
    <3>3. left * d2 <= right * d1
      <4>1. left * d2 = 2 * (n1 * d2) /\ right * d1 = 2 * (n2 * d1)
        OBVIOUS
      <4>2. n1 * d2 \in Nat /\ n2 * d1 \in Nat
        OBVIOUS
      <4> QED BY <4>1, <4>2
    <3>4. left > m * d1 \/ (left = m * d1 /\ i % 2 = 0)
      BY <1>1, <2>2 DEF Reaches
    <3> HIDE DEF m, left, right
    <3> DEFINE a == m * d1
               b == m * d2
    <3>5. a \in Nat /\ b \in Nat /\ a * d2 = b * d1 /\ left * d2 \in Nat /\ right * d1 \in Nat
          /\ a * d2 \in Nat
      BY <3>2
    <3> HIDE DEF a, b
    <3>6. CASE left > a
      <4>1. a * d2 < left * d2
        BY <3>2, <3>5, <3>6, ScalingKeepsOrder
      <4>2. b * d1 < right * d1
        BY <3>3, <3>5, <4>1
      <4>3. b < right
        BY <3>2, <3>5, <4>2, ScalingKeepsOrder
      <4> QED BY <3>2, <3>5, <4>3 DEF Reaches, b, m, right
    <3>7. CASE left = a /\ i % 2 = 0
      <4>1. b * d1 <= right * d1
        BY <3>3, <3>5, <3>7
      <4>2. b <= right
        BY <3>2, <3>5, <4>1, ScalingKeepsOrder
      <4>3. b < right \/ b = right
        BY <3>2, <3>5, <4>2
      <4> QED BY <3>2, <3>5, <3>7, <4>3 DEF Reaches, b, m, right
    <3> QED BY <3>4, <3>6, <3>7 DEF a
  <2> QED BY <2>1, <2>2
<1>2. PICK i \in 0..Top : Round(n1, d1) = Floats[i] /\ Reaches(i, n1, d1)
  BY RoundIs
<1>3. PICK j \in 0..Top : /\ Round(n2, d2) = Floats[j]
                          /\ \A k \in 0..Top : Reaches(k, n2, d2) => k <= j
  BY RoundIs
<1>4. i <= j /\ (i = j \/ i < j)
  BY <1>1, <1>2, <1>3
<1>5. Floats[i] \in Nat /\ Floats[j] \in Nat /\ Floats[i] <= Floats[j]
  BY <1>4, FloatsAssumption
<1> QED BY <1>2, <1>3, <1>5

\* A duration as a float is a finite one, and at least 1.0 if it is not zero.
LEMMA FloatTyped ==
  ASSUME NEW n \in 0..maxDuration
  PROVE  /\ Float(n) \in Nat /\ Float(n) <= (maxDuration + 1) * One
         /\ n # 0 => One <= Float(n)
         /\ \E i \in 0..Top : Float(n) = Floats[i]
<1> DEFINE limit == (maxDuration + 1) * One
<1>1. n \in Nat /\ One \in Nat /\ limit \in Nat /\ n <= maxDuration + 1
  BY UnitIs, DurationAssumption
<1>2. n * One \in Nat /\ n * One <= limit
  BY <1>1, UnitIs, DurationAssumption, ScalingKeepsOrder
<1>3. /\ \E i \in 0..Top : Floats[i] = limit
      /\ \E i \in 0..Top : Floats[i] = One
  BY UnitAssumption, UnitIs
<1>4. Round(limit, 1) = limit /\ Round(One, 1) = One
  <2>1. \A i \in 0..Top : Floats[i] \in Nat /\ Round(Floats[i] * 1, 1) = Floats[i]
    BY RoundKeeps, FloatsAssumption
  <2>2. \A i \in 0..Top : Floats[i] * 1 = Floats[i]
    BY <2>1
  <2> HIDE DEF limit
  <2> QED BY <1>3, <2>1, <2>2
<1> HIDE DEF limit
<1>5. Round(n * One, 1) \in Nat
  BY <1>2, RoundTyped
<1>6. Round(n * One, 1) <= limit
  <2>1. (n * One) * 1 <= limit * 1
    BY <1>1, <1>2
  <2> QED BY <1>1, <1>2, <1>4, <2>1, RoundGrows
<1>7. n # 0 => One <= Round(n * One, 1)
  <2> SUFFICES ASSUME n # 0 PROVE One <= Round(n * One, 1)
    OBVIOUS
  <2>1. 1 * One <= n * One
    BY <1>1, UnitIs, ScalingKeepsOrder
  <2>2. One * 1 <= (n * One) * 1
    BY <1>1, <1>2, <2>1
  <2>3. Round(One, 1) <= Round(n * One, 1)
    BY <1>1, <1>2, <2>2, RoundGrows
  <2> QED BY <1>4, <2>3
<1>8. \E i \in 0..Top : Round(n * One, 1) = Floats[i]
  <2> DEFINE num == n * One
  <2>1. num \in Nat
    BY <1>2
  <2> HIDE DEF num
  <2>2. \E i \in 0..Top : Round(num, 1) = Floats[i]
    BY <2>1, RoundIs
  <2> QED BY <2>2 DEF num
<1> QED BY <1>5, <1>6, <1>7, <1>8 DEF Float, limit

LEMMA PowTyped ==
  ASSUME NEW num \in Nat \ {0}, NEW den \in Nat \ {0}, NEW k \in Nat
  PROVE  Pow(num, den, k) \in Nat /\ Pow(num, den, k) <= PlusInf
<1> DEFINE p == Power(num)[k]
           u == Power(den)[k]
<1>1. p \in Nat \ {0} /\ u \in Nat \ {0}
  BY PowerIs
<1> HIDE DEF p, u
<1>2. p * One \in Nat
  BY <1>1, UnitIs
<1> QED BY <1>1, <1>2, RoundTyped DEF Pow, p, u

\* With a multiplier of at least 1 no power is smaller than the one before.
LEMMA PowGrows ==
  ASSUME NEW num \in Nat \ {0}, NEW den \in Nat \ {0}, num >= den, NEW k \in Nat
  PROVE  Pow(num, den, k) <= Pow(num, den, k + 1)
<1> DEFINE p == Power(num)[k]
           u == Power(den)[k]
<1>1. /\ p \in Nat \ {0} /\ u \in Nat \ {0}
      /\ Power(num)[k + 1] = p * num /\ Power(den)[k + 1] = u * den
  BY PowerIs
<1> HIDE DEF p, u
<1> DEFINE c == (p * One) * u
<1>2. p * One \in Nat /\ (p * num) * One \in Nat /\ u * den \in Nat \ {0} /\ c \in Nat
  BY <1>1, UnitIs
<1>3. (p * One) * (u * den) = c * den /\ ((p * num) * One) * u = c * num
  BY <1>1, UnitIs
<1>4. c * den <= c * num
  <2> HIDE DEF c
  <2> QED BY <1>2
<1> QED BY <1>1, <1>2, <1>3, <1>4, RoundGrows DEF Pow, p, u

\* Nor is any smaller than 1.0.
LEMMA PowAtLeastOne ==
  ASSUME NEW num \in Nat \ {0}, NEW den \in Nat \ {0}, num >= den, NEW k \in Nat
  PROVE  One <= Pow(num, den, k)
<1> DEFINE S == {n \in Nat : Power(den)[n] <= Power(num)[n]}
<1>1. 0 \in S
  <2>1. Power(den)[0] = 1 /\ Power(num)[0] = 1
    BY PowerIs
  <2> QED BY <2>1
<1>2. ASSUME NEW n \in Nat, n \in S PROVE n + 1 \in S
  <2> DEFINE p == Power(num)[n]
             u == Power(den)[n]
  <2>1. /\ p \in Nat \ {0} /\ u \in Nat \ {0} /\ u <= p
        /\ Power(num)[n + 1] = p * num /\ Power(den)[n + 1] = u * den
    BY <1>2, PowerIs
  <2> HIDE DEF p, u
  <2>2. u * den <= p * den /\ den * p <= num * p
    BY <2>1, ScalingKeepsOrder
  <2>3. u * den \in Nat /\ p * den \in Nat /\ p * num \in Nat /\ den * p = p * den /\ num * p = p * num
    BY <2>1
  <2> QED BY <2>1, <2>2, <2>3
<1> HIDE DEF S
<1>3. k \in S
  BY <1>1, <1>2, NatSetInduction
<1> DEFINE p == Power(num)[k]
           u == Power(den)[k]
<1>4. p \in Nat \ {0} /\ u \in Nat \ {0} /\ u <= p
  BY <1>3, PowerIs DEF S
<1> HIDE DEF p, u
<1>5. p * One \in Nat /\ u * One <= p * One /\ One * u = u * One /\ (p * One) * 1 = p * One
  BY <1>4, UnitIs, ScalingKeepsOrder
<1>6. Round(One, 1) <= Round(p * One, u)
  BY <1>4, <1>5, UnitIs, RoundGrows
<1>7. Round(One, 1) = One
  <2>1. PICK i \in 1..Top : Floats[i] = One
    BY UnitAssumption
  <2>2. i \in 0..Top /\ Floats[i] * 1 = Floats[i]
    BY <2>1, UnitIs
  <2> QED BY <2>1, <2>2, RoundKeeps
<1> QED BY <1>6, <1>7 DEF Pow, p, u

\* A product with a finite float that is not zero is a float and no NaN.
LEMMA TimesTyped ==
  ASSUME NEW x \in Nat \ {0}, x < PlusInf, NEW y \in Nat
  PROVE  Times(x, y) \in Nat /\ Times(x, y) <= PlusInf
<1>1. PlusInf \in Nat
  BY FloatsAssumption DEF PlusInf
<1>2. x * y \in Nat /\ One \in Nat \ {0}
  BY UnitIs
<1>3. Round(x * y, One) \in Nat /\ Round(x * y, One) <= PlusInf
  BY <1>2, RoundTyped
<1>4. y = PlusInf => y # 0
  BY <1>1
<1> QED BY <1>1, <1>3, <1>4 DEF Times

LEMMA TimesGrows ==
  ASSUME NEW x \in Nat \ {0}, x < PlusInf, NEW y \in Nat, NEW z \in Nat, y <= z, z <= PlusInf
  PROVE  Times(x, y) <= Times(x, z)
<1>1. PlusInf \in Nat \ {0}
  BY FloatsAssumption DEF PlusInf
<1>2. CASE z = PlusInf
  <2>1. Times(x, z) = PlusInf
    BY <1>1, <1>2 DEF Times
  <2> QED BY <2>1, TimesTyped
<1>3. CASE z < PlusInf
  <2>1. Times(x, y) = Round(x * y, One) /\ Times(x, z) = Round(x * z, One)
    BY <1>1, <1>3 DEF Times
  <2>2. y * x <= z * x /\ x * y = y * x /\ x * z = z * x /\ x * y \in Nat /\ x * z \in Nat
    BY ScalingKeepsOrder
  <2>3. x * y <= x * z
    BY <2>2
  <2>4. (x * y) * One <= (x * z) * One
    BY <2>2, <2>3, UnitIs, ScalingKeepsOrder
  <2> QED BY <2>1, <2>2, <2>4, UnitIs, RoundGrows
<1> QED BY <1>1, <1>2, <1>3

-----------------------------------------------------------------------------
(***************************************************************************)
(* The exponential backoff.                                                *)
(***************************************************************************)
LEMMA QuotientIs ==
  ASSUME NEW m \in Nat, NEW unit \in Nat \ {0}
  PROVE  /\ m \div unit \in Nat
         /\ \A q \in Nat : q * unit <= m <=> q <= m \div unit
<1> DEFINE quotient == m \div unit
<1>1. quotient \in Nat /\ quotient * unit <= m /\ m < (quotient + 1) * unit
  OBVIOUS
<1> HIDE DEF quotient
<1>2. ASSUME NEW q \in Nat PROVE q * unit <= m <=> q <= quotient
  <2>1. q <= quotient => q * unit <= quotient * unit
    BY <1>1
  <2>2. q >= quotient + 1 => q * unit >= (quotient + 1) * unit
    BY <1>1
  <2>3. q * unit \in Nat /\ quotient * unit \in Nat /\ (quotient + 1) * unit \in Nat
    BY <1>1
  <2> QED BY <1>1, <2>1, <2>2, <2>3
<1> QED BY <1>1, <1>2 DEF quotient

\* A larger float has no smaller whole part.
LEMMA QuotientGrows ==
  ASSUME NEW m \in Nat, NEW n \in Nat, m <= n
  PROVE  m \div One \in Nat /\ n \div One \in Nat /\ m \div One <= n \div One
<1> DEFINE q == m \div One
<1>1. q \in Nat /\ q * One \in Nat
  BY QuotientIs, UnitIs
<1>2. q * One <= m
  BY <1>1, QuotientIs, UnitIs
<1> HIDE DEF q
<1>3. q * One <= n
  BY <1>1, <1>2
<1>4. q <= n \div One /\ n \div One \in Nat
  BY <1>1, <1>3, QuotientIs, UnitIs
<1> QED BY <1>1, <1>4 DEF q

\* The last steps of Next, for a product that is no NaN: what is converted is a
\* duration, and a larger product gives no shorter one.
Truncated(d) == IF AtLeast(d, Float(maxDuration)) THEN maxDuration ELSE ToDuration(d)

LEMMA TruncatedIs ==
  ASSUME NEW d \in Nat
  PROVE  Truncated(d) = IF d >= Float(maxDuration) THEN maxDuration ELSE d \div One
<1>1. maxDuration \in 0..maxDuration
  BY DurationAssumption
<1>2. /\ Float(maxDuration) \in Nat /\ Float(maxDuration) <= (maxDuration + 1) * One
      /\ (maxDuration + 1) * One \in Nat
  BY <1>1, FloatTyped, UnitIs
<1>3. d # NaN /\ Float(maxDuration) # NaN
  BY <1>2, FloatsAssumption
<1>4. d < Float(maxDuration) => d < (maxDuration + 1) * One
  BY <1>2
<1> QED BY <1>2, <1>3, <1>4 DEF Truncated, AtLeast, ToDuration

LEMMA TruncatedTyped ==
  ASSUME NEW d \in Nat
  PROVE  Truncated(d) \in 0..maxDuration
<1> DEFINE limit == (maxDuration + 1) * One
<1>1. maxDuration \in 0..maxDuration /\ maxDuration \in Nat
  BY DurationAssumption
<1>2. Float(maxDuration) \in Nat /\ Float(maxDuration) <= limit /\ limit \in Nat
  BY <1>1, FloatTyped, UnitIs
<1>3. CASE d >= Float(maxDuration)
  BY <1>1, <1>3, TruncatedIs
<1>4. CASE d < Float(maxDuration)
  <2>1. d < limit
    <3> HIDE DEF limit
    <3> QED BY <1>2, <1>4
  <2>2. ~(limit <= d)
    <3> HIDE DEF limit
    <3> QED BY <1>2, <2>1
  <2>3. maxDuration + 1 \in Nat /\ (d \div One) \in Nat
    BY <1>1, QuotientIs, UnitIs
  <2>4. ~(maxDuration + 1 <= d \div One)
    BY <2>2, <2>3, QuotientIs, UnitIs
  <2>5. Truncated(d) = d \div One
    BY <1>2, <1>4, TruncatedIs
  <2> DEFINE q == d \div One
  <2> HIDE DEF q
  <2>6. q \in Nat /\ ~(maxDuration + 1 <= q)
    BY <2>3, <2>4 DEF q
  <2>7. q \in 0..maxDuration
    BY <1>1, <2>6
  <2> QED BY <2>5, <2>7 DEF q
<1> QED BY <1>2, <1>3, <1>4

LEMMA TruncatedGrows ==
  ASSUME NEW d \in Nat, NEW e \in Nat, d <= e
  PROVE  Truncated(d) <= Truncated(e)
<1>1. maxDuration \in 0..maxDuration /\ maxDuration \in Nat
  BY DurationAssumption
<1>2. Float(maxDuration) \in Nat
  BY <1>1, FloatTyped
<1>3. CASE e >= Float(maxDuration)
  <2>1. Truncated(e) = maxDuration
    BY <1>3, TruncatedIs
  <2> QED BY <1>1, <2>1, TruncatedTyped
<1>4. CASE e < Float(maxDuration)
  <2>1. ~(d >= Float(maxDuration)) /\ ~(e >= Float(maxDuration))
    BY <1>2, <1>4
  <2>2. Truncated(d) = d \div One /\ Truncated(e) = e \div One
    BY <2>1, TruncatedIs
  <2> QED BY <2>2, QuotientGrows
<1> QED BY <1>2, <1>3, <1>4

\* What ExponentialNext computes, for a base that is not zero.
LEMMA ExponentialNextIs ==
  ASSUME NEW base \in 1..maxDuration, NEW num \in Nat \ {0}, NEW den \in Nat \ {0},
         NEW retry \in Nat \ {0}
  PROVE  LET x == Float(base)
             y == Pow(num, den, retry - 1)
         IN  /\ ExponentialNext(base, num, den, retry) = Truncated(Times(x, y))
             /\ x \in Nat \ {0} /\ x < PlusInf
             /\ y \in Nat /\ y <= PlusInf
             /\ Times(x, y) \in Nat
<1> DEFINE x == Float(base)
           y == Pow(num, den, retry - 1)
           limit == (maxDuration + 1) * One
<1>1. retry - 1 \in Nat /\ base \in 0..maxDuration /\ base # 0
  BY DurationAssumption
<1>2. y \in Nat /\ y <= PlusInf
  BY <1>1, PowTyped
<1>3. x \in Nat /\ x <= limit /\ One <= x
  BY <1>1, FloatTyped
<1>4. limit < PlusInf /\ limit \in Nat /\ PlusInf \in Nat /\ One \in Nat \ {0}
  BY UnitIs, FloatsAssumption DEF PlusInf
<1>5. ExponentialNext(base, num, den, retry) = Truncated(Times(x, y))
  BY <1>1 DEF ExponentialNext, Truncated
<1> HIDE DEF x, y, limit
<1>6. x \in Nat \ {0} /\ x < PlusInf
  BY <1>3, <1>4
<1>7. Times(x, y) \in Nat
  BY <1>2, <1>6, TimesTyped
<1> QED BY <1>2, <1>5, <1>6, <1>7 DEF x, y

\* Whatever the multiplier, no NaN and no float that is no duration is converted.
LEMMA ExponentialNextTyped ==
  ASSUME NEW base \in 0..maxDuration, NEW num \in Nat \ {0}, NEW den \in Nat \ {0},
         NEW retry \in Nat \ {0}
  PROVE  ExponentialNext(base, num, den, retry) \in 0..maxDuration
<1>1. CASE base = 0
  BY <1>1, DurationAssumption DEF ExponentialNext
<1>2. CASE base # 0
  <2>1. base \in 1..maxDuration
    BY <1>2, DurationAssumption
  <2> QED BY <2>1, ExponentialNextIs, TruncatedTyped
<1> QED BY <1>1, <1>2

\* ExponentialBackoff waits for its base, as a float, or longer, but never longer
\* than the largest duration, however its product is rounded or overflows to
\* +Inf; with a base of zero not at all, though 0 times +Inf is no number. What a
\* conversion gives that is out of range does not matter: none is.
THEOREM ExponentialNextInRange ==
  ASSUME NEW base \in 0..maxDuration, NEW num \in Nat \ {0}, NEW den \in Nat \ {0},
         num >= den, NEW retry \in Nat \ {0}
  PROVE  LET AtMostMax(n) == IF n > maxDuration THEN maxDuration ELSE n
         IN  IF base = 0 THEN ExponentialNext(base, num, den, retry) = 0
             ELSE ExponentialNext(base, num, den, retry)
                    \in AtMostMax(Float(base) \div One)..maxDuration
<1> DEFINE AtMostMax(n) == IF n > maxDuration THEN maxDuration ELSE n
<1>1. CASE base = 0
  BY <1>1 DEF ExponentialNext
<1>2. CASE base # 0
  <2> DEFINE x == Float(base)
             y == Pow(num, den, retry - 1)
             d == Times(x, y)
  <2>1. base \in 1..maxDuration /\ retry - 1 \in Nat /\ maxDuration \in Nat
    BY <1>2, DurationAssumption
  <2>2. /\ ExponentialNext(base, num, den, retry) = Truncated(d)
        /\ x \in Nat \ {0} /\ x < PlusInf /\ y \in Nat /\ y <= PlusInf /\ d \in Nat
    BY <2>1, ExponentialNextIs
  <2>3. One <= y
    BY <2>1, PowAtLeastOne
  <2>4. Times(x, One) = x
    <3>1. PICK i \in 0..Top : x = Floats[i]
      BY <2>1, FloatTyped
    <3>2. One \in Nat \ {0} /\ One < PlusInf /\ PlusInf \in Nat
      BY UnitIs, FloatsAssumption DEF PlusInf
    <3>3. Times(x, One) = Round(x * One, One)
      BY <2>2, <3>2 DEF Times
    <3> QED BY <3>1, <3>2, <3>3, RoundKeeps
  <2> HIDE DEF x, y
  <2>5. x <= d
    BY <2>2, <2>3, <2>4, UnitIs, TimesGrows
  <2> HIDE DEF d
  <2>6. Truncated(x) <= Truncated(d) /\ Truncated(d) \in 0..maxDuration /\ Truncated(x) \in 0..maxDuration
    BY <2>2, <2>5, TruncatedGrows, TruncatedTyped
  <2>7. Truncated(x) >= AtMostMax(x \div One)
    <3> DEFINE q == x \div One
    <3>1. Truncated(x) = maxDuration \/ Truncated(x) = q
      BY <2>2, TruncatedIs
    <3>2. q \in Nat
      BY <2>2, QuotientIs, UnitIs
    <3> HIDE DEF q
    <3>3. Truncated(x) >= AtMostMax(q)
      BY <2>1, <3>1, <3>2
    <3> QED BY <3>3 DEF q
  <2>8. AtMostMax(x \div One) \in Nat
    <3>1. x \div One \in Nat
      BY <2>2, QuotientIs, UnitIs
    <3> QED BY <2>1, <3>1
  <2> DEFINE low == AtMostMax(x \div One)
  <2> HIDE DEF low
  <2>9. low \in Nat /\ Truncated(x) >= low
    BY <2>7, <2>8 DEF low
  <2>10. Truncated(d) \in low..maxDuration
    BY <2>1, <2>6, <2>9
  <2> QED BY <1>2, <2>2, <2>10 DEF low, x
<1> QED BY <1>1, <1>2

\* With a multiplier of at least 1 no later retry waits less.
LEMMA ExponentialGrows ==
  ASSUME NEW base \in 0..maxDuration, NEW num \in Nat \ {0}, NEW den \in Nat \ {0},
         num >= den, NEW retry \in Nat \ {0}
  PROVE  ExponentialNext(base, num, den, retry + 1) >= ExponentialNext(base, num, den, retry)
<1>1. CASE base = 0
  BY <1>1 DEF ExponentialNext
<1>2. CASE base # 0
  <2> DEFINE x == Float(base)
             y == Pow(num, den, retry - 1)
             z == Pow(num, den, retry)
  <2>1. /\ base \in 1..maxDuration /\ retry - 1 \in Nat /\ (retry - 1) + 1 = retry
        /\ retry + 1 \in Nat \ {0} /\ (retry + 1) - 1 = retry
    BY <1>2, DurationAssumption
  <2>2. /\ ExponentialNext(base, num, den, retry) = Truncated(Times(x, y))
        /\ x \in Nat \ {0} /\ x < PlusInf /\ y \in Nat /\ Times(x, y) \in Nat
    BY <2>1, ExponentialNextIs
  <2>3. /\ ExponentialNext(base, num, den, retry + 1) = Truncated(Times(x, z))
        /\ z \in Nat /\ z <= PlusInf /\ Times(x, z) \in Nat
    <3>1. LET w == Pow(num, den, (retry + 1) - 1)
          IN  /\ ExponentialNext(base, num, den, retry + 1) = Truncated(Times(x, w))
              /\ w \in Nat /\ w <= PlusInf /\ Times(x, w) \in Nat
      BY <2>1, ExponentialNextIs
    <3> QED BY <2>1, <3>1
  <2>4. y <= z
    BY <2>1, PowGrows
  <2> HIDE DEF x, y, z
  <2>5. Times(x, y) <= Times(x, z)
    BY <2>2, <2>3, <2>4, TimesGrows
  <2>6. /\ Truncated(Times(x, y)) <= Truncated(Times(x, z))
        /\ Truncated(Times(x, y)) \in 0..maxDuration /\ Truncated(Times(x, z)) \in 0..maxDuration
    BY <2>2, <2>3, <2>5, TruncatedGrows, TruncatedTyped
  <2> QED BY <2>2, <2>3, <2>6, DurationAssumption
<1> QED BY <1>1, <1>2
=============================================================================
