----------------------------- MODULE RetryProofs -----------------------------
(***************************************************************************)
(* Theorems about Retry, for every policy, every set of errors and every   *)
(* backoff that satisfy the assumptions of Retry.                          *)
(***************************************************************************)
EXTENDS Retry, BackoffProofs

\* A failure is between two attempts: its limits have been looked at, or the
\* wait has been chosen.
Going == pc \in {"retrying", "wait", "select"}

\* The types, and what keeps attempt and delay in theirs: who waits has an
\* attempt left, what is judged is an error of the job, and an end has a verdict.
TypeInv ==
  /\ TypeOK
  /\ Going => attempt < MaxAttempts
  /\ pc = "failed" => failure \in Errors
  /\ pc = "ended" => verdict # "none"

-----------------------------------------------------------------------------
(***************************************************************************)
(* The trees of errors: what findMarker returns, and that it returns what  *)
(* errors.As would.                                                        *)
(***************************************************************************)
\* Among the first n elements of s, x is the first one in P, or NoError if none is.
Finds(s, n, P, x) ==
  \/ \E k \in 1..n : s[k] = x /\ x \in P /\ \A j \in 1..(k - 1) : s[j] \notin P
  \/ (\A k \in 1..n : s[k] \notin P) /\ x = NoError

\* A function on 1..n is a sequence.
LEMMA SequenceTyped ==
  ASSUME NEW T, NEW n \in Nat, NEW s \in [1..n -> T]
  PROVE  s \in Seq(T) /\ Len(s) = n
  OBVIOUS

\* NoError stands for no error of the job.
LEMMA NoErrorIsNone == NoError \notin Errors
  BY ErrorsAssumption DEF NoError, ErrorTypes

\* A set of numbers that is not empty has a least one.
LEMMA MinIs ==
  ASSUME NEW I \in SUBSET Nat, I # {}
  PROVE  Min(I) \in I /\ \A j \in I : Min(I) <= j
<1> DEFINE R == {p \in Nat \X Nat : p[1] < p[2]}
<1>1. IsWellFoundedOn(R, Nat)
  BY LessIsWellFounded
<1>r. \A x, y \in Nat : <<y, x>> \in R <=> y < x
  OBVIOUS
<1> HIDE DEF R
<1>2. PICK x \in I : \A y \in I : ~(<<y, x>> \in R)
  BY <1>1, WFMin
<1>3. ASSUME NEW y \in I PROVE x <= y
  <2>1. x \in Nat /\ y \in Nat /\ ~(<<y, x>> \in R)
    BY <1>2
  <2>2. ~(y < x)
    BY <1>r, <2>1
  <2> QED BY <2>1, <2>2
<1> QED BY <1>3 DEF Min

\* First finds what it is named for.
LEMMA FirstFinds ==
  ASSUME NEW T, NEW s \in Seq(T), NEW P, NEW I,
         I = {i \in 1..Len(s) : s[i] \in P}
  PROVE  LET i == IF I # {} THEN Min(I) ELSE 0
         IN  Finds(s, Len(s), P, IF i = 0 THEN NoError ELSE s[i])
<1>1. I \in SUBSET Nat /\ 0 \notin I
  OBVIOUS
<1>2. CASE I = {}
  BY <1>2 DEF Finds
<1>3. CASE I # {}
  <2>1. Min(I) \in I /\ \A j \in I : Min(I) <= j
    BY <1>1, <1>3, MinIs
  <2> DEFINE m == Min(I)
  <2> HIDE DEF m
  <2>2. m \in I /\ \A j \in I : m <= j
    BY <2>1 DEF m
  <2>3. m \in 1..Len(s) /\ s[m] \in P /\ m # 0
    BY <2>2
  <2>4. ASSUME NEW j \in 1..(m - 1) PROVE s[j] \notin P
    <3>1. j \in 1..Len(s) /\ ~(m <= j)
      BY <2>3
    <3> QED BY <2>2, <3>1
  <2>5. Finds(s, Len(s), P, s[m])
    BY <2>3, <2>4 DEF Finds
  <2> QED BY <1>3, <2>3, <2>5 DEF m
<1> QED BY <1>2, <1>3

\* There is one such element.
LEMMA FindsOne ==
  ASSUME NEW s, NEW n \in Nat, NEW P, NoError \notin P,
         NEW x, NEW y, Finds(s, n, P, x), Finds(s, n, P, y)
  PROVE  x = y
<1>1. CASE \E k \in 1..n : s[k] = x /\ x \in P /\ \A j \in 1..(k - 1) : s[j] \notin P
  <2>1. PICK k \in 1..n : s[k] = x /\ x \in P /\ \A j \in 1..(k - 1) : s[j] \notin P
    BY <1>1
  <2>2. PICK l \in 1..n : s[l] = y /\ y \in P /\ \A j \in 1..(l - 1) : s[j] \notin P
    BY <2>1 DEF Finds
  <2>3. k = l
    BY <2>1, <2>2
  <2> QED BY <2>1, <2>2, <2>3
<1>2. CASE (\A k \in 1..n : s[k] \notin P) /\ x = NoError
  BY <1>2 DEF Finds
<1> QED BY <1>1, <1>2 DEF Finds

\* In two sequences one behind the other, what is in the first one comes first.
LEMMA FindsInBoth ==
  ASSUME NEW T, NEW s \in Seq(T), NEW t \in Seq(T), NEW P, NoError \notin P,
         NEW x, Finds(s, Len(s), P, x), NEW y, Finds(t, Len(t), P, y)
  PROVE  Finds(s \o t, Len(s \o t), P, IF x # NoError THEN x ELSE y)
<1> DEFINE u == s \o t
           m == Len(s)
           n == Len(t)
<1>1. /\ m \in Nat /\ n \in Nat /\ u \in Seq(T) /\ Len(u) = m + n
      /\ \A i \in 1..m : u[i] = s[i]
      /\ \A i \in 1..n : u[m + i] = t[i]
  OBVIOUS
<1>2. ASSUME NEW i \in 1..(m + n), i \notin 1..m PROVE i - m \in 1..n /\ u[i] = t[i - m]
  BY <1>1, <1>2
<1> HIDE DEF u, m, n
<1>3. CASE x # NoError
  <2>1. PICK k \in 1..m : s[k] = x /\ x \in P /\ \A j \in 1..(k - 1) : s[j] \notin P
    BY <1>3 DEF Finds, m
  <2>2. k \in 1..(m + n) /\ u[k] = x /\ \A j \in 1..(k - 1) : u[j] \notin P
    BY <1>1, <2>1
  <2>3. Finds(u, m + n, P, x)
    BY <2>1, <2>2 DEF Finds
  <2> QED BY <1>1, <1>3, <2>3 DEF u
<1>4. CASE x = NoError
  <2>1. \A i \in 1..m : u[i] \notin P
    BY <1>1, <1>4 DEF Finds, m
  <2>2. CASE \E k \in 1..n : t[k] = y /\ y \in P /\ \A j \in 1..(k - 1) : t[j] \notin P
    <3>1. PICK k \in 1..n : t[k] = y /\ y \in P /\ \A j \in 1..(k - 1) : t[j] \notin P
      BY <2>2
    <3>2. m + k \in 1..(m + n) /\ u[m + k] = y
      <4>1. u[m + k] = t[k]
        BY <1>1
      <4> QED BY <1>1, <3>1, <4>1
    <3>3. ASSUME NEW j \in 1..((m + k) - 1) PROVE u[j] \notin P
      <4>1. CASE j \in 1..m
        BY <2>1, <4>1
      <4>2. CASE j \notin 1..m
        <5>1. j \in 1..(m + n) /\ j - m \in 1..(k - 1)
          BY <1>1, <4>2
        <5> QED BY <1>2, <3>1, <4>2, <5>1
      <4> QED BY <4>1, <4>2
    <3> QED BY <1>1, <1>4, <3>1, <3>2, <3>3 DEF Finds, u
  <2>3. CASE (\A k \in 1..n : t[k] \notin P) /\ y = NoError
    <3>1. \A j \in 1..(m + n) : u[j] \notin P
      BY <1>2, <2>1, <2>3
    <3> QED BY <1>1, <1>4, <2>3, <3>1 DEF Finds, u
  <2> QED BY <2>2, <2>3 DEF Finds, n
<1> QED BY <1>3, <1>4

\* What FlattenSeq builds up, sequence by sequence.
Flattened(F, T, vs) ==
  \A i \in 1..Len(vs) : /\ F[i] \in Seq(T)
                        /\ F[i] = IF i = 1 THEN vs[1] ELSE F[i - 1] \o vs[i]

\* FlattenSeq is the last of them.
LEMMA FlattenIs ==
  ASSUME NEW T, NEW vs \in Seq(Seq(T)), Len(vs) # 0
  PROVE  \E F : Flattened(F, T, vs) /\ FlattenSeq(vs) = F[Len(vs)]
<1> DEFINE N == Len(vs)
           V == Seq(T)
           G == [n \in Nat \ {0} |-> [v \in V |->
                  IF n = 1 THEN vs[1] ELSE IF n \in 1..N THEN v \o vs[n] ELSE v]]
           Solution(f) == f = [i \in 1..N |-> IF i = 1 THEN vs[i] ELSE f[i - 1] \o vs[i]]
<1>1. N \in Nat \ {0} /\ \A i \in 1..N : vs[i] \in V
  OBVIOUS
<1>2. <<>> \in V /\ \A v, w \in V : v \o w \in V
  OBVIOUS
<1>3. \A n \in Nat \ {0} : \A v \in V :
        G[n][v] = IF n = 1 THEN vs[1] ELSE IF n \in 1..N THEN v \o vs[n] ELSE v
  OBVIOUS
<1>f. FlattenSeq(vs) = (CHOOSE f : Solution(f))[N]
  BY DEF FlattenSeq
<1> HIDE DEF V, G, N
<1>4. NatStepOn(V, G)
  <2> SUFFICES ASSUME NEW n \in Nat \ {0}, NEW v \in V PROVE G[n][v] \in V
    BY DEF NatStepOn
  <2>1. 1 \in 1..N
    BY <1>1
  <2> QED BY <1>1, <1>2, <1>3, <2>1
<1>5. PICK g \in [Nat -> V] : NatSolves(g, <<>>, G)
  BY <1>2, <1>4, NatRecursion
<1> DEFINE h == [i \in 1..N |-> g[i]]
<1>6. Solution(h)
  <2>1. ASSUME NEW i \in 1..N PROVE h[i] = IF i = 1 THEN vs[i] ELSE h[i - 1] \o vs[i]
    <3>1. i \in Nat \ {0} /\ i - 1 \in Nat /\ (i # 1 => i - 1 \in 1..N)
      BY <1>1
    <3>2. g[i] = G[i][g[i - 1]] /\ g[i - 1] \in V
      BY <1>5, <3>1 DEF NatSolves
    <3>3. g[i] = IF i = 1 THEN vs[1] ELSE g[i - 1] \o vs[i]
      BY <1>3, <3>1, <3>2
    <3> QED BY <3>1, <3>3
  <2> HIDE DEF h
  <2>2. h = [i \in 1..N |-> h[i]]
    BY DEF h
  <2> QED BY <2>1, <2>2
<1> DEFINE F == CHOOSE f : Solution(f)
<1> HIDE DEF Solution, h
<1>7. Solution(F)
  BY <1>6
<1> HIDE DEF F
<1>8. \A i \in 1..N : F[i] = IF i = 1 THEN vs[i] ELSE F[i - 1] \o vs[i]
  BY <1>7 DEF Solution
<1>9. \A i \in 1..N : F[i] \in V
  <2> DEFINE S == {i \in Nat : i \in 1..N => F[i] \in V}
  <2>1. 0 \in S
    OBVIOUS
  <2>2. ASSUME NEW i \in Nat, i \in S PROVE i + 1 \in S
    <3> SUFFICES ASSUME i + 1 \in 1..N PROVE F[i + 1] \in V
      OBVIOUS
    <3>1. vs[i + 1] \in V
      BY <1>1
    <3>2. CASE i = 0
      BY <1>8, <3>1, <3>2
    <3>3. CASE i # 0
      <4>1. i \in 1..N /\ (i + 1) - 1 = i /\ i + 1 # 1
        BY <1>1, <3>3
      <4>2. F[i] \in V
        BY <2>2, <4>1
      <4>3. F[i + 1] = F[i] \o vs[i + 1]
        BY <1>8, <4>1
      <4> QED BY <1>2, <3>1, <4>2, <4>3
    <3> QED BY <3>2, <3>3
  <2> HIDE DEF S
  <2>3. Nat \subseteq S
    BY <2>1, <2>2, NatSetInduction
  <2> QED BY <1>1, <2>3 DEF S
<1>10. Flattened(F, T, vs)
  BY <1>8, <1>9 DEF Flattened, N, V
<1>11. FlattenSeq(vs) = F[N]
  BY <1>f DEF F
<1> QED BY <1>10, <1>11 DEF N

\* What is found is in P, or nothing was.
LEMMA FindsWhat ==
  ASSUME NEW s, NEW n, NEW P, NEW x, Finds(s, n, P, x)
  PROVE  x \in P \/ x = NoError
  BY DEF Finds

\* The first one in the sequences together is the first one of the first sequence
\* that has one.
LEMMA FlattenFinds ==
  ASSUME NEW T, NEW vs \in Seq(Seq(T)), NEW P, NoError \notin P, NEW xs,
         \A i \in 1..Len(vs) : Finds(vs[i], Len(vs[i]), P, xs[i]),
         NEW x, Finds(xs, Len(vs), P, x)
  PROVE  FlattenSeq(vs) \in Seq(T) /\ Finds(FlattenSeq(vs), Len(FlattenSeq(vs)), P, x)
<1>1. CASE Len(vs) = 0
  <2>1. FlattenSeq(vs) = vs /\ vs = <<>>
    BY <1>1 DEF FlattenSeq
  <2>2. Len(<<>>) = 0 /\ <<>> \in Seq(T)
    OBVIOUS
  <2> QED BY <1>1, <2>1, <2>2 DEF Finds
<1>2. CASE Len(vs) # 0
  <2> DEFINE N == Len(vs)
  <2>1. N \in Nat \ {0} /\ \A i \in 1..N : vs[i] \in Seq(T)
    BY <1>2
  <2>2. PICK F : Flattened(F, T, vs) /\ FlattenSeq(vs) = F[N]
    BY <1>2, FlattenIs
  <2>3. \A i \in 1..N : F[i] \in Seq(T) /\ F[i] = IF i = 1 THEN vs[1] ELSE F[i - 1] \o vs[i]
    BY <2>2 DEF Flattened
  <2> DEFINE Right(i) == \E y : Finds(F[i], Len(F[i]), P, y) /\ Finds(xs, i, P, y)
             S == {i \in Nat : i \in 1..N => Right(i)}
  <2>4. \A i \in 1..N : Finds(vs[i], Len(vs[i]), P, xs[i])
    OBVIOUS
  <2> HIDE DEF N
  <2>5. 0 \in S
    OBVIOUS
  <2>6. ASSUME NEW i \in Nat, i \in S PROVE i + 1 \in S
    <3> SUFFICES ASSUME i + 1 \in 1..N PROVE Right(i + 1)
      OBVIOUS
    <3>1. Finds(vs[i + 1], Len(vs[i + 1]), P, xs[i + 1])
      BY <2>4
    <3>2. CASE i = 0
      <4>1. F[1] = vs[1] /\ Finds(vs[1], Len(vs[1]), P, xs[1])
        BY <2>3, <3>1, <3>2
      <4>2. Finds(xs, 1, P, xs[1])
        BY <4>1 DEF Finds
      <4> QED BY <3>2, <4>1, <4>2
    <3>3. CASE i # 0
      <4>1. i \in 1..N /\ (i + 1) - 1 = i /\ i + 1 # 1
        BY <2>1, <3>3
      <4>2. PICK y : Finds(F[i], Len(F[i]), P, y) /\ Finds(xs, i, P, y)
        BY <2>6, <4>1
      <4>3. F[i] \in Seq(T) /\ vs[i + 1] \in Seq(T) /\ F[i + 1] = F[i] \o vs[i + 1]
        BY <2>1, <2>3, <4>1
      <4> DEFINE z == IF y # NoError THEN y ELSE xs[i + 1]
      <4>4. Finds(F[i + 1], Len(F[i + 1]), P, z)
        <5> DEFINE s == F[i]
                   t == vs[i + 1]
        <5>1. s \in Seq(T) /\ t \in Seq(T) /\ Finds(s, Len(s), P, y) /\ Finds(t, Len(t), P, xs[i + 1])
          BY <3>1, <4>2, <4>3
        <5> HIDE DEF s, t
        <5>2. Finds(s \o t, Len(s \o t), P, z)
          BY <5>1, FindsInBoth
        <5> QED BY <4>3, <5>2 DEF s, t
      <4>5. Finds(xs, i + 1, P, z)
        <5>1. CASE y # NoError
          <6>1. PICK k \in 1..i : xs[k] = y /\ y \in P /\ \A j \in 1..(k - 1) : xs[j] \notin P
            BY <4>2, <5>1 DEF Finds
          <6>2. k \in 1..(i + 1)
            OBVIOUS
          <6> QED BY <5>1, <6>1, <6>2 DEF Finds
        <5>2. CASE y = NoError
          <6>1. \A k \in 1..i : xs[k] \notin P
            BY <4>2, <5>2 DEF Finds
          <6>2. i + 1 \in 1..(i + 1) /\ (i + 1) - 1 = i /\ 1..(i + 1) = (1..i) \union {i + 1}
            OBVIOUS
          <6>3. xs[i + 1] \in P \/ xs[i + 1] = NoError
            BY <3>1, FindsWhat
          <6>4. z = xs[i + 1]
            BY <5>2
          <6> HIDE DEF z
          <6>5. CASE xs[i + 1] \in P
            BY <6>1, <6>2, <6>4, <6>5 DEF Finds
          <6>6. CASE xs[i + 1] \notin P
            <7>1. \A k \in 1..(i + 1) : xs[k] \notin P
              BY <6>1, <6>2, <6>6
            <7> QED BY <6>3, <6>4, <6>6, <7>1 DEF Finds
          <6> QED BY <6>5, <6>6
        <5> QED BY <5>1, <5>2
      <4> HIDE DEF z
      <4> QED BY <4>4, <4>5
    <3> QED BY <3>2, <3>3
  <2> HIDE DEF S
  <2>7. N \in S
    BY <2>1, <2>5, <2>6, NatSetInduction
  <2>8. N \in 1..N
    BY <2>1
  <2>9. PICK y : Finds(F[N], Len(F[N]), P, y) /\ Finds(xs, N, P, y)
    BY <2>7, <2>8 DEF S
  <2>10. y = x
    BY <2>1, <2>9, FindsOne DEF N
  <2> QED BY <2>2, <2>3, <2>8, <2>9, <2>10
<1> QED BY <1>1, <1>2

\* The arguments of the two recursions are the errors an error wraps.
Wraps == [e \in Errors |-> e.unwraps]

\* TreesAssumption, in the form RecursionExists asks for.
LEMMA ErrorsFounded ==
  /\ Founded(Errors, Wraps)
  /\ \A e \in Errors : e.unwraps \in Seq(Errors) /\ Wraps[e] = e.unwraps
  BY TreesAssumption, ErrorsAssumption DEF Founded, Wraps

\* Induction over the errors, by the set of those for which the claim holds.
LEMMA ErrorInduction ==
  ASSUME NEW S \in SUBSET Errors,
         \A e \in Errors : (\A i \in DOMAIN e.unwraps : e.unwraps[i] \in S) => e \in S
  PROVE  S = Errors
  BY TreesAssumption

\* findMarker is the function its definition describes.
LEMMA FindMarkerIs ==
  ASSUME NEW type
  PROVE  LET find == findMarker(type) IN
         \A e \in Errors :
           find[e] = IF e.type = type THEN e
                     ELSE First([i \in DOMAIN e.unwraps |-> find[e.unwraps[i]]], LAMBDA f : f # NoError)
<1> DEFINE V == Errors \union {NoError}
           Value(e, vs) == IF e.type = type THEN e ELSE First(vs, LAMBDA f : f # NoError)
           Step == [e \in Errors |-> [vs \in [DOMAIN e.unwraps -> V] |-> Value(e, vs)]]
           Solution(find) ==
             find = [e \in Errors |-> Value(e, [i \in DOMAIN e.unwraps |-> find[e.unwraps[i]]])]
<1>1. ASSUME NEW e \in Errors, NEW vs \in [DOMAIN e.unwraps -> V] PROVE Value(e, vs) \in V
  <2> DEFINE I == {i \in 1..Len(vs) : vs[i] # NoError}
  <2>1. DOMAIN e.unwraps = 1..Len(e.unwraps) /\ Len(e.unwraps) \in Nat
    BY ErrorsFounded
  <2>2. vs \in Seq(V) /\ Len(vs) = Len(e.unwraps)
    BY <2>1
  <2>3. First(vs, LAMBDA f : f # NoError) = LET i == IF I # {} THEN Min(I) ELSE 0
                                            IN  IF i = 0 THEN NoError ELSE vs[i]
    BY DEF First, SelectInSeq
  <2>4. I # {} => Min(I) \in I
    <3>1. I \in SUBSET Nat
      OBVIOUS
    <3> HIDE DEF I
    <3> QED BY <3>1, MinIs
  <2>5. First(vs, LAMBDA f : f # NoError) \in V
    <3> DEFINE m == Min(I)
    <3>1. I # {} => vs[m] \in V
      BY <2>1, <2>2, <2>4
    <3> HIDE DEF I, V
    <3>2. NoError \in V
      BY DEF V
    <3> QED BY <2>3, <3>1, <3>2
  <2> QED BY <2>5
<1> HIDE DEF Value
<1>2. StepOn(Errors, Wraps, V, Step)
  <2>1. ASSUME NEW e \in Errors
        PROVE  /\ \A i \in DOMAIN Wraps[e] : Wraps[e][i] \in Errors
               /\ \A vs \in [DOMAIN Wraps[e] -> V] : Step[e][vs] \in V
    BY <1>1, ErrorsFounded
  <2> QED BY <2>1 DEF StepOn
<1>3. PICK g \in [Errors -> V] : Solves(g, Errors, Wraps, Step)
  <2> HIDE DEF V, Step
  <2> QED BY <1>2, ErrorsFounded, RecursionExists
<1>4. Solution(g)
  <2>1. ASSUME NEW e \in Errors
        PROVE  g[e] = Value(e, [i \in DOMAIN e.unwraps |-> g[e.unwraps[i]]])
    <3> DEFINE vs == [i \in DOMAIN e.unwraps |-> g[e.unwraps[i]]]
    <3>1. vs \in [DOMAIN e.unwraps -> V]
      BY ErrorsFounded
    <3>2. g[e] = Step[e][vs]
      BY <1>3, ErrorsFounded DEF Solves
    <3> HIDE DEF vs
    <3>3. Step[e][vs] = Value(e, vs)
      BY <3>1
    <3> QED BY <3>2, <3>3 DEF vs
  <2> QED BY <2>1
<1>5. findMarker(type) = CHOOSE find : Solution(find)
  BY DEF findMarker, Value
<1> HIDE DEF Solution
<1>6. Solution(findMarker(type))
  BY <1>4, <1>5
<1> DEFINE find == findMarker(type)
<1> HIDE DEF find
<1>7. \A e \in Errors : find[e] = Value(e, [i \in DOMAIN e.unwraps |-> find[e.unwraps[i]]])
  BY <1>6 DEF Solution, find
<1> QED BY <1>7 DEF Value, find

\* FlattenSeq makes one sequence of many.
LEMMA FlattenTyped ==
  ASSUME NEW T, NEW vs \in Seq(Seq(T))
  PROVE  FlattenSeq(vs) \in Seq(T)
<1>1. CASE Len(vs) = 0
  <2>1. FlattenSeq(vs) = vs /\ vs = <<>>
    BY <1>1 DEF FlattenSeq
  <2> QED BY <2>1
<1>2. CASE Len(vs) # 0
  <2>1. PICK F : Flattened(F, T, vs) /\ FlattenSeq(vs) = F[Len(vs)]
    BY <1>2, FlattenIs
  <2>2. Len(vs) \in 1..Len(vs)
    BY <1>2
  <2> QED BY <2>1, <2>2 DEF Flattened
<1> QED BY <1>1, <1>2

\* So is the walk errors.As takes.
LEMMA PreorderIs ==
  \A e \in Errors :
    /\ Preorder[e] \in Seq(Errors)
    /\ Preorder[e] = <<e>> \o FlattenSeq([i \in DOMAIN e.unwraps |-> Preorder[e.unwraps[i]]])
<1> DEFINE V == Seq(Errors)
           Value(e, vs) == <<e>> \o FlattenSeq(vs)
           Step == [e \in Errors |-> [vs \in [DOMAIN e.unwraps -> V] |-> Value(e, vs)]]
           Solution(walk) ==
             walk = [e \in Errors |-> Value(e, [i \in DOMAIN e.unwraps |-> walk[e.unwraps[i]]])]
<1>1. ASSUME NEW e \in Errors, NEW vs \in [DOMAIN e.unwraps -> V] PROVE Value(e, vs) \in V
  <2>1. DOMAIN e.unwraps = 1..Len(e.unwraps) /\ Len(e.unwraps) \in Nat
    BY ErrorsFounded
  <2>2. vs \in Seq(Seq(Errors))
    BY <2>1
  <2>3. FlattenSeq(vs) \in Seq(Errors)
    BY <2>2, FlattenTyped
  <2> QED BY <2>3
<1> HIDE DEF Value
<1>2. StepOn(Errors, Wraps, V, Step)
  <2>1. ASSUME NEW e \in Errors
        PROVE  /\ \A i \in DOMAIN Wraps[e] : Wraps[e][i] \in Errors
               /\ \A vs \in [DOMAIN Wraps[e] -> V] : Step[e][vs] \in V
    <3> HIDE DEF V
    <3> QED BY <1>1, ErrorsFounded
  <2> QED BY <2>1 DEF StepOn
<1>3. PICK g \in [Errors -> V] : Solves(g, Errors, Wraps, Step)
  <2> HIDE DEF V, Step
  <2> QED BY <1>2, ErrorsFounded, RecursionExists
<1> HIDE DEF V
<1>4. Solution(g)
  <2>1. ASSUME NEW e \in Errors
        PROVE  g[e] = Value(e, [i \in DOMAIN e.unwraps |-> g[e.unwraps[i]]])
    <3> DEFINE vs == [i \in DOMAIN e.unwraps |-> g[e.unwraps[i]]]
    <3>1. vs \in [DOMAIN e.unwraps -> V]
      BY ErrorsFounded
    <3>2. g[e] = Step[e][vs]
      BY <1>3, ErrorsFounded DEF Solves
    <3> HIDE DEF vs
    <3>3. Step[e][vs] = Value(e, vs)
      BY <3>1
    <3> QED BY <3>2, <3>3 DEF vs
  <2> QED BY <2>1
<1>5. Preorder = CHOOSE walk : Solution(walk)
  BY DEF Preorder, Value
<1> HIDE DEF Solution
<1>6. Solution(Preorder)
  BY <1>4, <1>5
<1>7. \A e \in Errors : Preorder[e] = Value(e, [i \in DOMAIN e.unwraps |-> Preorder[e.unwraps[i]]])
  BY <1>6 DEF Solution
<1> DEFINE S == {e \in Errors : Preorder[e] \in V}
<1>8. ASSUME NEW e \in Errors, \A i \in DOMAIN e.unwraps : e.unwraps[i] \in S PROVE e \in S
  <2> DEFINE vs == [i \in DOMAIN e.unwraps |-> Preorder[e.unwraps[i]]]
  <2>1. vs \in [DOMAIN e.unwraps -> V]
    BY <1>8
  <2>2. Preorder[e] = Value(e, vs)
    BY <1>7
  <2> HIDE DEF vs
  <2> QED BY <1>1, <2>1, <2>2
<1>9. S = Errors
  <2>1. S \in SUBSET Errors
    OBVIOUS
  <2> HIDE DEF S
  <2> QED BY <1>8, <2>1, ErrorInduction
<1> QED BY <1>7, <1>9 DEF Value, V

\* What findMarker returns is the first error of its type on that walk.
LEMMA FindMarkerFinds ==
  ASSUME NEW type, NEW e \in Errors
  PROVE  Finds(Preorder[e], Len(Preorder[e]), {f \in Errors : f.type = type}, findMarker(type)[e])
<1> DEFINE find == findMarker(type)
           P == {f \in Errors : f.type = type}
           Right(x) == Finds(Preorder[x], Len(Preorder[x]), P, find[x])
           S == {x \in Errors : Right(x)}
<1>1. NoError \notin P
  BY NoErrorIsNone
<1>2. \A x \in Errors :
        find[x] = IF x.type = type THEN x
                  ELSE First([i \in DOMAIN x.unwraps |-> find[x.unwraps[i]]], LAMBDA f : f # NoError)
  BY FindMarkerIs
<1>p. \A x \in Errors : x \in P <=> x.type = type
  OBVIOUS
<1> HIDE DEF find, P
<1>3. ASSUME NEW x \in Errors, \A i \in DOMAIN x.unwraps : x.unwraps[i] \in S PROVE x \in S
  <2> DEFINE vs == [i \in DOMAIN x.unwraps |-> Preorder[x.unwraps[i]]]
             xs == [i \in DOMAIN x.unwraps |-> find[x.unwraps[i]]]
             rest == FlattenSeq(vs)
             V == Errors \union {NoError}
  <2>1. /\ DOMAIN x.unwraps = 1..Len(x.unwraps) /\ Len(x.unwraps) \in Nat
        /\ \A i \in DOMAIN x.unwraps : x.unwraps[i] \in Errors
    BY ErrorsFounded
  <2>2. vs \in Seq(Seq(Errors)) /\ Len(vs) = Len(x.unwraps)
    <3>1. \A i \in DOMAIN x.unwraps : Preorder[x.unwraps[i]] \in Seq(Errors)
      BY <2>1, PreorderIs
    <3>2. vs \in [1..Len(x.unwraps) -> Seq(Errors)]
      BY <2>1, <3>1
    <3> HIDE DEF vs
    <3> QED BY <2>1, <3>2, SequenceTyped
  <2>3. rest \in Seq(Errors) /\ Preorder[x] = <<x>> \o rest
    BY <2>2, FlattenTyped, PreorderIs
  <2>4. \A i \in 1..Len(vs) : Finds(vs[i], Len(vs[i]), P, xs[i])
    BY <1>3, <2>1, <2>2
  <2>5. \A i \in 1..Len(vs) : xs[i] \in P \/ xs[i] = NoError
    BY <2>4, FindsWhat
  <2>6. xs \in Seq(V) /\ Len(xs) = Len(vs)
    <3>1. \A i \in 1..Len(vs) : xs[i] \in V
      BY <2>5 DEF P
    <3>2. xs \in [1..Len(vs) -> V] /\ Len(vs) \in Nat
      <4> HIDE DEF vs, V
      <4> QED BY <2>1, <2>2, <3>1
    <3> HIDE DEF vs, xs, V
    <3> QED BY <3>2, SequenceTyped
  <2>7. CASE x.type = type
    <3>1. find[x] = x /\ x \in P
      BY <1>2, <1>p, <2>7
    <3>2. Preorder[x][1] = x /\ 1 \in 1..Len(Preorder[x])
      BY <2>3
    <3>3. Right(x)
      BY <3>1, <3>2 DEF Finds
    <3> QED BY <3>3
  <2>8. CASE x.type # type
    <3> DEFINE I == {i \in 1..Len(xs) : xs[i] # NoError}
               first == First(xs, LAMBDA f : f # NoError)
    <3>1. find[x] = first
      BY <1>2, <2>8
    <3>2. I = {i \in 1..Len(xs) : xs[i] \in P}
      BY <1>1, <2>5, <2>6
    <3>3. first = LET i == IF I # {} THEN Min(I) ELSE 0 IN IF i = 0 THEN NoError ELSE xs[i]
      BY DEF First, SelectInSeq
    <3> HIDE DEF vs, xs, I, first, rest, V
    <3>4. Finds(xs, Len(xs), P, first)
      BY <2>6, <3>2, <3>3, FirstFinds
    <3>5. Finds(rest, Len(rest), P, first)
      BY <1>1, <2>2, <2>4, <2>6, <3>4, FlattenFinds DEF rest
    <3>6. <<x>> \in Seq(Errors) /\ Finds(<<x>>, Len(<<x>>), P, NoError)
      <4>1. Len(<<x>>) = 1 /\ <<x>>[1] = x /\ x \notin P
        BY <1>p, <2>8
      <4> QED BY <4>1 DEF Finds
    <3>7. Finds(<<x>> \o rest, Len(<<x>> \o rest), P, IF NoError # NoError THEN NoError ELSE first)
      BY <1>1, <2>3, <3>5, <3>6, FindsInBoth
    <3> QED BY <2>3, <3>1, <3>7
  <2> QED BY <2>7, <2>8
<1>4. S = Errors
  <2>1. S \in SUBSET Errors
    OBVIOUS
  <2> HIDE DEF S
  <2> QED BY <1>3, <2>1, ErrorInduction
<1> QED BY <1>4 DEF find, P

\* It is an error of the tree, or none.
LEMMA MarkersTyped ==
  ASSUME NEW type, NEW e \in Errors
  PROVE  findMarker(type)[e] \in Errors \union {NoError}
  BY FindMarkerFinds, FindsWhat

\* findMarker is errors.As for a marker type, on every tree of errors: of all the
\* errors under one it returns the first that errors.As comes to.
THEOREM MarkerIsAs ==
  ASSUME NEW type, NEW e \in Errors
  PROVE  findMarker(type)[e] = First(Preorder[e], LAMBDA f : f.type = type)
<1> DEFINE s == Preorder[e]
           P == {f \in Errors : f.type = type}
           I == {i \in 1..Len(s) : s[i].type = type}
           first == First(s, LAMBDA f : f.type = type)
<1>1. s \in Seq(Errors)
  BY PreorderIs
<1>2. Finds(s, Len(s), P, findMarker(type)[e])
  BY FindMarkerFinds
<1>3. first = LET i == IF I # {} THEN Min(I) ELSE 0 IN IF i = 0 THEN NoError ELSE s[i]
  BY DEF First, SelectInSeq
<1>4. NoError \notin P
  BY NoErrorIsNone
<1> HIDE DEF s
<1>5. I = {i \in 1..Len(s) : s[i] \in P}
  BY <1>1
<1> HIDE DEF P, I
<1>6. Finds(s, Len(s), P, first)
  <2> HIDE DEF first
  <2> QED BY <1>1, <1>3, <1>5, FirstFinds
<1> HIDE DEF first
<1>7. Len(s) \in Nat
  BY <1>1
<1>8. findMarker(type)[e] = first
  BY <1>2, <1>4, <1>6, <1>7, FindsOne
<1> QED BY <1>8 DEF first, s

-----------------------------------------------------------------------------
(***************************************************************************)
(* The operators.                                                          *)
(***************************************************************************)
LEMMA LimitsTyped == \A i \in DOMAIN Limits : Limits[i].max \in Nat \ {0}
<1> DEFINE Limit == [err : Errors, max : Nat \ {0}]
<1>1. Limits \in Seq(Limit)
  BY PolicyAssumption
<1>2. ASSUME NEW i \in DOMAIN Limits PROVE Limits[i] \in Limit
  <2> HIDE DEF Limit
  <2> QED BY <1>1
<1> QED BY <1>2

LEMMA BumpTyped ==
  ASSUME NEW D, NEW f \in [D -> Nat], NEW i
  PROVE  Bump(f, i) \in [D -> Nat]
  BY DEF Bump

\* What capDelay returns is no longer than MaxDelay, if there is one.
LEMMA CapDelayBounds ==
  ASSUME NEW d \in Nat
  PROVE  /\ capDelay(d) \in Nat
         /\ MaxDelay > 0 => capDelay(d) <= MaxDelay
  BY PolicyAssumption DEF capDelay

\* The built-in backoffs return no negative delay, for any base, multiplier and
\* retry that validate accepts.
THEOREM BackoffsNotNegative ==
  \A retry \in 1..MaxAttempts : NextDelay(retry) \in Nat
<1> SUFFICES ASSUME NEW retry \in 1..MaxAttempts PROVE NextDelay(retry) \in Nat
  OBVIOUS
<1>1. /\ retry \in Nat \ {0} /\ maxDuration \in Nat /\ Base \in 0..maxDuration /\ Base \in Nat
      /\ MultNum \in Nat \ {0} /\ MultDen \in Nat \ {0}
      /\ Strategy \in {"constant", "linear", "exponential"}
  BY PolicyAssumption, DurationAssumption
<1>2. CASE Strategy = "constant"
  BY <1>1, <1>2 DEF NextDelay, ConstantNext
<1>3. CASE Strategy = "linear"
  BY <1>1, <1>3, LinearNextTyped DEF NextDelay
<1>4. CASE Strategy = "exponential"
  BY <1>1, <1>4, ExponentialNextTyped DEF NextDelay
<1> QED BY <1>1, <1>2, <1>3, <1>4

\* Every wait delay may choose is a duration within MaxDelay, hints and jitter
\* included.
LEMMA DelaysBounded ==
  ASSUME NEW retry \in 1..MaxAttempts, NEW err \in Errors, NEW d \in Delays(retry, err)
  PROVE  d \in Nat /\ (MaxDelay > 0 => d <= MaxDelay)
<1> DEFINE hint == findMarker("retryAfterError")[err]
           next == capDelay(NextDelay(retry))
<1>1. next \in Nat /\ (MaxDelay > 0 => next <= MaxDelay)
  BY CapDelayBounds, BackoffsNotNegative
<1>2. CASE hint # NoError
  <2>1. hint \in Errors
    BY <1>2, MarkersTyped
  <2>2. hint.delay \in Nat
    BY <2>1, ErrorsAssumption
  <2>3. d = capDelay(hint.delay)
    BY <1>2 DEF Delays
  <2> QED BY <2>2, <2>3, CapDelayBounds
<1>3. CASE hint = NoError
  <2> HIDE DEF next
  <2>1. d \in (IF Jitter /\ next > 0 THEN 0..(next - 1) ELSE {next})
    BY <1>3 DEF Delays, next
  <2> QED BY <1>1, <2>1, PolicyAssumption
<1> QED BY <1>2, <1>3

-----------------------------------------------------------------------------
(***************************************************************************)
(* Types.                                                                  *)
(***************************************************************************)
LEMMA TypeInit == Init => TypeInv
<1> SUFFICES ASSUME Init PROVE TypeInv
  OBVIOUS
<1> USE PolicyAssumption DEF Init
<1>1. attempt \in 1..MaxAttempts /\ elapsed \in 0..TimeCap
  BY DEF TimeCap
<1>2. counts \in [DOMAIN Limits -> Nat] /\ failed \in [DOMAIN Limits -> Nat]
  OBVIOUS
<1>3. ctx \in {"live"} \union CtxEnds /\ lateStarts \in Nat
  OBVIOUS
<1> QED BY <1>1, <1>2, <1>3 DEF TypeInv, TypeOK, Going

LEMMA StatusTyped ==
  ASSUME TypeOK, pc = "ended", verdict # "none"
  PROVE  statusOf(verdict, failure) \in
           {"success", "error", "panic", "exhausted", "budget", "permanent",
            "shutdown", "canceled"}
<1> DEFINE ended == {"success", "error", "panic", "exhausted", "budget", "permanent",
                     "shutdown", "canceled"}
<1>1. ASSUME NEW r \in Reasons PROVE StatusFor(r) \in ended
  BY <1>1 DEF StatusFor, Reasons
<1> HIDE DEF ended
<1>2. statusOf(verdict, failure) \in
        {"success", "panic", "permanent", "error"} \union {StatusFor(r) : r \in Reasons}
  BY Zenon DEF statusOf
<1> QED BY <1>1, <1>2 DEF ended

\* Every action keeps the types. The limits matter for the type of attempt:
\* who waits has an attempt left.
LEMMA TypeStep == TypeInv /\ [Next]_vars => TypeInv'
<1> SUFFICES ASSUME TypeInv, [Next]_vars PROVE TypeInv'
  OBVIOUS
<1> USE PolicyAssumption
<1>t. TypeOK
  BY DEF TypeInv
<1>1. CASE Succeed
  BY <1>1 DEF TypeInv, TypeOK, Going, Succeed, End, Verdicts, outside, history
<1>2. CASE Panic
  BY <1>2 DEF TypeInv, TypeOK, Going, Panic, End, Verdicts, outside, history
<1>3. ASSUME NEW err \in Errors, Fail(err) PROVE TypeInv'
  <2>1. failed' \in [DOMAIN Limits -> Nat]
    BY <1>3, <1>t, BumpTyped DEF Fail, TypeOK
  <2> QED BY <1>3, <2>1 DEF TypeInv, TypeOK, Going, Fail, End, Verdicts, outside
<1>4. CASE StopPermanent
  BY <1>4 DEF TypeInv, TypeOK, Going, StopPermanent, End, Verdicts, judged, outside, history
<1>5. CASE StopDone
  BY <1>5 DEF TypeInv, TypeOK, Going, StopDone, Done, End, Verdicts, judged, outside, history
<1>6. CASE StopAtMaxAttempts
  BY <1>6 DEF TypeInv, TypeOK, Going, StopAtMaxAttempts, End, Verdicts, judged, outside, history
<1>7. CASE CountFailure
  <2> DEFINE i == LimitOf(failure)
  <2>1. counts' \in [DOMAIN Limits -> Nat]
    BY <1>7, <1>t, BumpTyped DEF CountFailure, TypeOK
  <2>2. delay' \in Nat
    <3>1. CASE UNCHANGED delay
      BY <3>1, <1>t DEF TypeOK
    <3>2. CASE \E d \in Delays(attempt, failure) : delay' = d
      <4>1. attempt \in 1..MaxAttempts
        BY <1>t DEF TypeOK
      <4>2. failure \in Errors
        BY <1>7 DEF CountFailure, TypeInv
      <4> QED BY <3>2, <4>1, <4>2, DelaysBounded
    <3> QED BY <1>7, <3>1, <3>2 DEF CountFailure
  <2>3. /\ pc' \in {"ended", "retrying"} /\ verdict' \in {"none"} \union Verdicts
        /\ pc' = "ended" => verdict' # "none"
    BY <1>7, <1>t DEF CountFailure, TypeOK, End, Verdicts
  <2>4. attempt < MaxAttempts
    BY <1>7, <1>t DEF CountFailure, OutOfAttempts, TypeOK
  <2> QED BY <1>7, <1>t, <2>1, <2>2, <2>3, <2>4
       DEF TypeInv, TypeOK, Going, CountFailure, judged, outside, history
<1>8. CASE CheckBudget
  BY <1>8 DEF TypeInv, TypeOK, Going, CheckBudget, End, Verdicts, judged, outside, history
<1>9. ASSUME NextAttempt, Going PROVE TypeInv'
  <2>1. attempt' \in 1..MaxAttempts
    BY <1>9 DEF NextAttempt, Going, TypeInv, TypeOK
  <2>2. slept' \in Nat /\ lateStarts' \in Nat
    BY <1>9 DEF NextAttempt, TypeInv, TypeOK
  <2> QED BY <1>9, <2>1, <2>2 DEF NextAttempt, TypeInv, TypeOK, Going, outside
<1>10. CASE WaitNot
  <2>1. CASE NextAttempt
    BY <1>9, <1>10, <2>1 DEF WaitNot, Going
  <2>2. CASE ~NextAttempt
    BY <1>10, <2>2 DEF TypeInv, TypeOK, Going, WaitNot, End, Verdicts, judged, outside, history
  <2> QED BY <2>1, <2>2
<1>11. CASE StartTimer
  BY <1>11 DEF TypeInv, TypeOK, Going, StartTimer, outside, history
<1>12. CASE WaitCancelled
  BY <1>12 DEF TypeInv, TypeOK, Going, WaitCancelled, End, Verdicts, judged, outside, history
<1>13. CASE WaitAborted
  BY <1>13 DEF TypeInv, TypeOK, Going, WaitAborted, End, Verdicts, judged, outside, history
<1>14. CASE WaitOver
  BY <1>9, <1>14 DEF WaitOver, Going
<1>15. CASE Classify
  <2>1. status' \in {"success", "error", "panic", "exhausted", "budget", "permanent",
                     "shutdown", "canceled"}
    BY <1>15, StatusTyped DEF TypeInv, Classify
  <2> QED BY <1>15, <2>1 DEF TypeInv, TypeOK, Going, Classify, outside, history
<1>16. CASE CtxEnd
  BY <1>16 DEF TypeInv, TypeOK, Going, CtxEnd, engine, history
<1>17. CASE ForceStop
  BY <1>17 DEF TypeInv, TypeOK, Going, ForceStop, engine, history
<1>18. CASE Tick
  BY <1>18 DEF TypeInv, TypeOK, Going, Tick, TimeCap, history
<1>19. CASE UNCHANGED vars
  BY <1>19 DEF TypeInv, TypeOK, Going, vars, engine, outside, history
<1> QED
  BY <1>1, <1>2, <1>3, <1>4, <1>5, <1>6, <1>7, <1>8, <1>10, <1>11, <1>12, <1>13,
     <1>14, <1>15, <1>16, <1>17, <1>18, <1>19
  DEF Next, AttemptEnds, EngineStep, Recorded

\* Types are kept for ever; in particular no job makes more than MaxAttempts
\* attempts, and every wait is a natural number of time units.
THEOREM TypesKept == Spec => []TypeOK
<1>1. TypeInv => TypeOK
  BY DEF TypeInv
<1> QED BY <1>1, TypeInit, TypeStep, PTL DEF Spec

LEMMA TypeInvKept == Spec => []TypeInv
  BY TypeInit, TypeStep, PTL DEF Spec

\* MarkerIsFirst, for every tree of errors: what the engine reads out of the error
\* of an attempt, wherever wrapping and joining put it, is what errors.As would.
THEOREM MarkerAlwaysFirst == Spec => []MarkerIsFirst
<1>1. TypeInv => MarkerIsFirst
  BY MarkerIsAs DEF TypeInv, MarkerIsFirst, First, SelectInSeq
<1> QED BY <1>1, TypeInvKept, PTL

-----------------------------------------------------------------------------
(***************************************************************************)
(* Limits: the counts of the engine are the failures there have been, until *)
(* a failure ends the job without being counted.                           *)
(***************************************************************************)
LimitInv ==
  /\ LimitsKept
  /\ pc = "running" \/ Going => failed = counts
  /\ pc = "failed" => failed = Bump(counts, LimitOf(failure))
  /\ pc = "failed" \/ pc = "running" \/ Going =>
       \A i \in DOMAIN Limits : counts[i] < Limits[i].max

LEMMA LimitInit == Init => LimitInv
  BY LimitsTyped DEF Init, LimitInv, LimitsKept, Going

\* One more failure for a limit that is not used up does not exceed it.
LEMMA BumpWithin ==
  ASSUME NEW f \in [DOMAIN Limits -> Nat], NEW i,
         \A j \in DOMAIN Limits : f[j] < Limits[j].max
  PROVE  \A j \in DOMAIN Limits : Bump(f, i)[j] <= Limits[j].max
  BY LimitsTyped DEF Bump

\* The limits are kept by the two actions that count, and by every other one
\* because it changes neither count.
LEMMA LimitStep == TypeInv /\ LimitInv /\ [Next]_vars => LimitInv'
<1> SUFFICES ASSUME TypeInv, LimitInv, [Next]_vars PROVE LimitInv'
  OBVIOUS
<1>t. counts \in [DOMAIN Limits -> Nat] /\ failed \in [DOMAIN Limits -> Nat]
  BY DEF TypeInv, TypeOK
<1>1. ASSUME NEW err \in Errors, Fail(err) PROVE LimitInv'
  <2>1. failed' = Bump(counts, LimitOf(failure')) /\ counts' = counts
    BY <1>1 DEF Fail, LimitInv
  <2>2. \A i \in DOMAIN Limits : counts[i] < Limits[i].max
    BY <1>1 DEF Fail, LimitInv
  <2>3. LimitsKept'
    BY <1>t, <2>1, <2>2, BumpWithin DEF LimitsKept
  <2>4. pc' \in {"failed", "ended"}
    BY <1>1 DEF Fail, End
  <2>5. LimitOf(failure)' = LimitOf(failure')
    OBVIOUS
  <2> QED BY <2>1, <2>2, <2>3, <2>4, <2>5 DEF LimitInv, Going
<1>2. CASE CountFailure
  <2>1. counts' = failed /\ failed' = failed
    BY <1>2 DEF CountFailure, LimitInv, judged, history
  <2>2. LimitsKept'
    BY <2>1 DEF LimitsKept, LimitInv
  <2>3. ASSUME pc' = "retrying", NEW i \in DOMAIN Limits PROVE counts'[i] < Limits[i].max
    <3> DEFINE j == LimitOf(failure)
    <3>1. j \in DOMAIN Limits => counts'[j] < Limits[j].max
      <4>1. j \in DOMAIN Limits => ~(counts'[j] >= Limits[j].max)
        BY <1>2, <2>3 DEF CountFailure, End
      <4> HIDE DEF j
      <4> QED BY <4>1, <1>t, <2>1, LimitsTyped
    <3>2. i # j => counts'[i] = counts[i]
      BY <1>2, <1>t DEF CountFailure, Bump
    <3>3. counts[i] < Limits[i].max
      BY <1>2 DEF CountFailure, LimitInv
    <3> HIDE DEF j
    <3> QED BY <3>1, <3>2, <3>3
  <2>4. pc' \in {"ended", "retrying"}
    BY <1>2 DEF CountFailure, End
  <2>5. pc' = "retrying" => \A i \in DOMAIN Limits : counts'[i] < Limits[i].max
    BY <2>3
  <2> QED BY <2>1, <2>2, <2>4, <2>5 DEF LimitInv, Going
<1>3. ASSUME UNCHANGED <<counts, failed>>,
             \/ pc' \in {"ended", "recorded"}
             \/ UNCHANGED <<pc, failure>>
             \/ Going /\ (Going' \/ pc' = "running")
      PROVE  LimitInv'
  <2>1. CASE pc' \in {"ended", "recorded"}
    BY <1>3, <2>1 DEF LimitInv, LimitsKept, Going
  <2>2. CASE UNCHANGED <<pc, failure>>
    <3>1. LimitOf(failure)' = LimitOf(failure)
      BY <2>2
    <3> QED BY <1>3, <2>2, <3>1 DEF LimitInv, LimitsKept, Going
  <2>3. CASE Going /\ (Going' \/ pc' = "running")
    BY <1>3, <2>3 DEF LimitInv, LimitsKept, Going
  <2> QED BY <1>3, <2>1, <2>2, <2>3
<1>4. CASE Succeed \/ Panic
  BY <1>3, <1>4 DEF Succeed, Panic, End, history
<1>5. CASE StopPermanent \/ StopDone \/ StopAtMaxAttempts
  BY <1>3, <1>5 DEF StopPermanent, StopDone, StopAtMaxAttempts, End, judged, history
<1>6. CASE CheckBudget
  BY <1>3, <1>6 DEF CheckBudget, End, judged, history, Going
<1>7. CASE WaitNot \/ WaitOver
  BY <1>3, <1>7 DEF WaitNot, WaitOver, NextAttempt, End, judged, history, Going
<1>8. CASE StartTimer
  BY <1>3, <1>8 DEF StartTimer, history, Going
<1>9. CASE WaitCancelled \/ WaitAborted \/ Classify
  BY <1>3, <1>9 DEF WaitCancelled, WaitAborted, Classify, End, judged, history
<1>10. CASE CtxEnd \/ ForceStop \/ Tick \/ UNCHANGED vars
  BY <1>3, <1>10 DEF CtxEnd, ForceStop, Tick, vars, engine, history
<1> QED
  BY <1>1, <1>2, <1>4, <1>5, <1>6, <1>7, <1>8, <1>9, <1>10
  DEF Next, AttemptEnds, EngineStep, Recorded

\* No job fails more often with an error than its ErrorLimit allows.
THEOREM LimitsAlwaysKept == Spec => []LimitsKept
<1>1. LimitInv => LimitsKept
  BY DEF LimitInv
<1> QED BY <1>1, LimitInit, LimitStep, TypeInvKept, PTL DEF Spec

-----------------------------------------------------------------------------
(***************************************************************************)
(* Late starts: an attempt that began late is the last one, because the    *)
(* engine asks for the context between two attempts.                       *)
(***************************************************************************)
LateInv ==
  /\ lateStarts \in {0, 1}
  /\ lateStarts = 1 => ctx # "live" /\ ~Going

LEMMA LateInit == Init => LateInv
  BY DEF Init, LateInv, Going

LEMMA LateStep == LateInv /\ [Next]_vars => LateInv'
<1> SUFFICES ASSUME LateInv, [Next]_vars PROVE LateInv'
  OBVIOUS
<1> USE DEF LateInv, Going
<1>1. ASSUME Going, NextAttempt PROVE LateInv'
  BY <1>1 DEF NextAttempt, outside
<1>2. ASSUME UNCHANGED <<lateStarts, ctx>>, Going' => Going \/ ctx = "live"
      PROVE  LateInv'
  BY <1>2
<1>3. CASE Succeed \/ Panic \/ \E err \in Errors : Fail(err)
  BY <1>2, <1>3 DEF Succeed, Panic, Fail, End, outside, history
<1>4. CASE StopPermanent \/ StopDone \/ StopAtMaxAttempts
  BY <1>2, <1>4 DEF StopPermanent, StopDone, StopAtMaxAttempts, End, judged, outside, history
<1>5. CASE CountFailure
  BY <1>2, <1>5 DEF CountFailure, Done, judged, outside, history
<1>6. CASE CheckBudget \/ StartTimer
  BY <1>2, <1>6 DEF CheckBudget, StartTimer, judged, outside, history
<1>7. CASE WaitNot \/ WaitOver
  <2>1. CASE NextAttempt
    BY <1>1, <1>7, <2>1 DEF WaitNot, WaitOver
  <2>2. CASE ~NextAttempt
    BY <1>2, <1>7, <2>2 DEF WaitNot, WaitOver, judged, outside, history
  <2> QED BY <2>1, <2>2
<1>8. CASE WaitCancelled \/ WaitAborted \/ Classify
  BY <1>2, <1>8 DEF WaitCancelled, WaitAborted, Classify, End, judged, outside, history
<1>9. CASE CtxEnd
  BY <1>9 DEF CtxEnd, engine, history
<1>10. CASE ForceStop \/ Tick \/ UNCHANGED vars
  BY <1>2, <1>10 DEF ForceStop, Tick, vars, engine, outside, history
<1> QED
  BY <1>3, <1>4, <1>5, <1>6, <1>7, <1>8, <1>9, <1>10
  DEF Next, AttemptEnds, EngineStep, Recorded

\* At most one attempt of a job begins with its context done.
THEOREM OneLateStartOnly == Spec => []OneLateStart
<1>1. LateInv => OneLateStart
  BY DEF LateInv, OneLateStart
<1> QED BY <1>1, LateInit, LateStep, PTL DEF Spec

-----------------------------------------------------------------------------
(***************************************************************************)
(* Waits: the time that has passed covers the waits behind it, and what is *)
(* left of the timer the rest of the present one.                          *)
(***************************************************************************)
BudgetInv ==
  /\ WaitsBounded
  /\ Going /\ MaxDelay > 0 => delay <= MaxDelay
  /\ MaxElapsedTime > 0 =>
       /\ slept <= elapsed
       /\ slept <= MaxElapsedTime
       /\ pc = "select" => slept + delay <= elapsed + remaining

LEMMA BudgetInit == Init => BudgetInv
  BY PolicyAssumption DEF Init, BudgetInv, WaitsBounded, Waiting, Going

LEMMA BudgetStep == TypeInv /\ TypeInv' /\ BudgetInv /\ [Next]_vars => BudgetInv'
<1> SUFFICES ASSUME TypeInv, TypeInv', BudgetInv, [Next]_vars PROVE BudgetInv'
  OBVIOUS
<1>p. MaxElapsedTime \in Nat /\ MaxDelay \in Nat
  BY PolicyAssumption
<1>t. /\ delay \in Nat /\ remaining \in Nat /\ elapsed \in Nat /\ slept \in Nat
      /\ delay' \in Nat /\ remaining' \in Nat /\ elapsed' \in Nat
      /\ elapsed <= MaxElapsedTime + 1
  BY <1>p DEF TypeInv, TypeOK, TimeCap
<1> USE <1>p, <1>t DEF BudgetInv, WaitsBounded, Waiting, Going
<1>1. ASSUME UNCHANGED <<elapsed, slept>>, ~Going' PROVE BudgetInv'
  BY <1>1
<1>2. CASE Succeed \/ Panic \/ \E err \in Errors : Fail(err)
  BY <1>1, <1>2 DEF Succeed, Panic, Fail, End, outside, history
<1>3. CASE StopPermanent \/ StopDone \/ StopAtMaxAttempts
  BY <1>1, <1>3 DEF StopPermanent, StopDone, StopAtMaxAttempts, End, judged, outside, history
<1>4. CASE CountFailure
  <2>1. UNCHANGED <<elapsed, slept>> /\ pc' \in {"ended", "retrying"}
    BY <1>4 DEF CountFailure, End, judged, outside, history
  <2>2. CASE pc' = "ended"
    BY <1>1, <2>1, <2>2
  <2>3. CASE pc' = "retrying"
    <3>1. \E d \in Delays(attempt, failure) : delay' = d
      BY <1>4, <2>3 DEF CountFailure, End
    <3>2. attempt \in 1..MaxAttempts /\ failure \in Errors
      BY <1>4 DEF CountFailure, TypeInv, TypeOK
    <3>3. MaxDelay > 0 => delay' <= MaxDelay
      BY <3>1, <3>2, DelaysBounded
    <3> QED BY <2>1, <2>3, <3>3
  <2> QED BY <2>1, <2>2, <2>3
<1>5. CASE CheckBudget
  BY <1>5 DEF CheckBudget, End, judged, outside, history
<1>6. ASSUME NextAttempt, Waiting, pc = "select" => remaining = 0, pc = "wait" => delay = 0
      PROVE  BudgetInv'
  BY <1>6 DEF NextAttempt, outside
<1>7. CASE WaitNot
  <2>1. CASE NextAttempt
    BY <1>6, <1>7, <2>1 DEF WaitNot
  <2>2. CASE ~NextAttempt
    BY <1>1, <1>7, <2>2 DEF WaitNot, End, judged, outside, history
  <2> QED BY <2>1, <2>2
<1>8. CASE WaitOver
  BY <1>6, <1>8 DEF WaitOver
<1>9. CASE StartTimer
  BY <1>9 DEF StartTimer, outside, history
<1>10. CASE WaitCancelled \/ WaitAborted \/ Classify
  BY <1>1, <1>10 DEF WaitCancelled, WaitAborted, Classify, End, judged, outside, history
<1>11. CASE Tick
  BY <1>11 DEF Tick, TimeCap, history
<1>12. CASE CtxEnd \/ ForceStop \/ UNCHANGED vars
  BY <1>12 DEF CtxEnd, ForceStop, vars, engine, outside, history
<1> QED
  BY <1>2, <1>3, <1>4, <1>5, <1>7, <1>8, <1>9, <1>10, <1>11, <1>12
  DEF Next, AttemptEnds, EngineStep, Recorded

\* All waits of a job together fit into its budget, and each into MaxDelay.
THEOREM WaitsAlwaysBounded == Spec => []WaitsBounded
<1>1. BudgetInv => WaitsBounded
  BY DEF BudgetInv
<1> QED BY <1>1, BudgetInit, BudgetStep, TypeInvKept, PTL DEF Spec

-----------------------------------------------------------------------------
(***************************************************************************)
(* Verdicts: a verdict comes with the end of the engine and is true there. *)
(* Afterwards the outside only ever goes further: a done context stays     *)
(* done, a forced stop is not taken back and time passes.                  *)
(***************************************************************************)
ReasonInv ==
  /\ VerdictTrue
  /\ pc \notin {"ended", "recorded"} => verdict = "none"
  /\ Going => ~isPermanent

LEMMA ReasonInit == Init => ReasonInv
  BY PolicyAssumption DEF Init, ReasonInv, VerdictTrue, Going

\* Ends of the engine that give a reason, of an error that is not permanent.
LEMMA ReasonEnds ==
  ASSUME NEW v \in {"exhausted", "budget", "shutdown"} \union CtxEnds,
         End(v), ~isPermanent, UNCHANGED <<attempt, failure, failed, ctx, forceStop, elapsed, delay>>,
         v = "exhausted" =>
           attempt = MaxAttempts \/ \E i \in DOMAIN Limits : failed[i] = Limits[i].max,
         v \in CtxEnds => ctx = v,
         v = "shutdown" => forceStop,
         v = "budget" => MaxElapsedTime > 0 /\ elapsed + delay > MaxElapsedTime
  PROVE  ReasonInv'
  BY PolicyAssumption DEF End, ReasonInv, VerdictTrue, Going, isPermanent

\* What an end of the engine leaves alone.
LEMMA JudgedIs ==
  ASSUME UNCHANGED judged
  PROVE  UNCHANGED <<attempt, failure, failed, ctx, forceStop, elapsed>>
  BY DEF judged, outside, history

LEMMA ReasonStep == TypeInv /\ LimitInv /\ ReasonInv /\ [Next]_vars => ReasonInv'
<1> SUFFICES ASSUME TypeInv, LimitInv, ReasonInv, [Next]_vars PROVE ReasonInv'
  OBVIOUS
<1>t. /\ attempt \in 1..MaxAttempts /\ MaxAttempts \in Nat /\ MaxElapsedTime \in Nat
      /\ elapsed \in Nat /\ delay \in Nat
      /\ ctx \in {"live"} \union CtxEnds /\ verdict \in {"none"} \union Verdicts
      /\ CtxEnds \subseteq {"canceled", "deadline"}
  BY PolicyAssumption DEF TypeInv, TypeOK, TimeCap
\* The engine goes on, or ends with a verdict that is no reason.
<1>1. ASSUME verdict' \in {"none", "ok", "jobError", "permanent"},
             pc' \notin {"ended", "recorded"} => verdict' = "none",
             Going' => ~isPermanent'
      PROVE  ReasonInv'
  BY <1>t, <1>1 DEF ReasonInv, VerdictTrue
<1>2. CASE Succeed \/ Panic \/ \E err \in Errors : Fail(err)
  BY <1>1, <1>2 DEF Succeed, Panic, Fail, End, ReasonInv, Going
<1>3. CASE StopPermanent
  BY <1>1, <1>3 DEF StopPermanent, End, Going
<1>4. CASE StopDone
  BY <1>t, <1>4, ReasonEnds, JudgedIs DEF StopDone, Done
<1>5. CASE StopAtMaxAttempts
  <2>1. attempt = MaxAttempts
    BY <1>t, <1>5 DEF StopAtMaxAttempts, OutOfAttempts
  <2> QED BY <1>t, <1>5, <2>1, ReasonEnds, JudgedIs DEF StopAtMaxAttempts
<1>6. CASE CountFailure
  <2> DEFINE i == LimitOf(failure)
  <2>1. ~isPermanent /\ UNCHANGED <<attempt, failure, failed, ctx, forceStop, elapsed>>
    BY <1>6, JudgedIs DEF CountFailure
  <2>2. CASE i \in DOMAIN Limits /\ counts'[i] >= Limits[i].max
    <3>1. counts'[i] = failed[i] /\ failed[i] <= Limits[i].max /\ failed[i] \in Nat
      BY <1>6, <2>2 DEF CountFailure, LimitInv, LimitsKept, TypeInv, TypeOK
    <3>2. Limits[i].max \in Nat
      BY <2>2, LimitsTyped
    <3> HIDE DEF i
    <3>3. failed[i] = Limits[i].max
      BY <2>2, <3>1, <3>2
    <3>4. End("exhausted") /\ UNCHANGED delay
      BY <1>6, <2>2 DEF CountFailure, i
    <3> QED BY <1>t, <2>1, <2>2, <3>3, <3>4, ReasonEnds
  <2>3. CASE ~(i \in DOMAIN Limits /\ counts'[i] >= Limits[i].max)
    <3>1. pc' = "retrying" /\ UNCHANGED verdict
      BY <1>6, <2>3 DEF CountFailure
    <3>2. ~isPermanent'
      BY <2>1 DEF isPermanent
    <3> QED BY <1>1, <1>6, <3>1, <3>2 DEF CountFailure, ReasonInv
  <2> QED BY <2>2, <2>3
<1>7. CASE CheckBudget
  <2>1. ~isPermanent /\ UNCHANGED <<attempt, failure, failed, ctx, forceStop, elapsed, delay>>
    BY <1>7, JudgedIs DEF CheckBudget, ReasonInv, Going
  <2>2. CASE MaxElapsedTime > 0 /\ delay > MaxElapsedTime - elapsed
    <3>1. elapsed + delay > MaxElapsedTime
      BY <1>t, <2>2
    <3> QED BY <1>t, <1>7, <2>1, <2>2, <3>1, ReasonEnds DEF CheckBudget
  <2>3. CASE ~(MaxElapsedTime > 0 /\ delay > MaxElapsedTime - elapsed)
    <3>1. pc' = "wait" /\ UNCHANGED verdict /\ ~isPermanent'
      BY <1>7, <2>1, <2>3 DEF CheckBudget, isPermanent
    <3> QED BY <1>1, <1>7, <3>1 DEF CheckBudget, ReasonInv
  <2> QED BY <2>2, <2>3
<1>8. ASSUME Going, NextAttempt PROVE ReasonInv'
  BY <1>1, <1>8 DEF NextAttempt, ReasonInv, Going
<1>9. ASSUME Going, NEW v \in {"shutdown"} \union CtxEnds, End(v), UNCHANGED <<counts, delay, judged>>,
             v = "shutdown" => forceStop, v \in CtxEnds => ctx = v
      PROVE  ReasonInv'
  BY <1>t, <1>9, ReasonEnds, JudgedIs DEF ReasonInv
<1>10. CASE WaitNot
  <2>1. CASE NextAttempt
    BY <1>8, <1>10, <2>1 DEF WaitNot, Going
  <2>2. CASE ~NextAttempt
    BY <1>t, <1>9, <1>10, <2>2 DEF WaitNot, Going
  <2> QED BY <2>1, <2>2
<1>11. CASE WaitCancelled
  BY <1>t, <1>9, <1>11 DEF WaitCancelled, Going
<1>12. CASE WaitAborted
  BY <1>t, <1>9, <1>12 DEF WaitAborted, Going
<1>13. CASE WaitOver
  BY <1>8, <1>13 DEF WaitOver, Going
\* Nothing of the engine changes but where it is, or only the outside.
<1>14. ASSUME UNCHANGED <<attempt, failure, failed, delay, verdict>>,
              pc' \notin {"ended", "recorded"} => pc \notin {"ended", "recorded"},
              Going' => Going,
              ctx' = ctx \/ ctx = "live", forceStop => forceStop',
              elapsed' = elapsed \/ elapsed' = elapsed + 1
       PROVE  ReasonInv'
  BY <1>t, <1>14 DEF ReasonInv, VerdictTrue, isPermanent
<1>15. CASE StartTimer \/ Classify
  BY <1>14, <1>15 DEF StartTimer, Classify, Going, outside, history
<1>16. CASE CtxEnd \/ ForceStop \/ UNCHANGED vars
  BY <1>14, <1>16 DEF CtxEnd, ForceStop, Going, vars, engine, outside, history
<1>17. CASE Tick
  BY <1>14, <1>17 DEF Tick, Going, history
<1> QED
  BY <1>2, <1>3, <1>4, <1>5, <1>6, <1>7, <1>10, <1>11, <1>12, <1>13, <1>15, <1>16, <1>17
  DEF Next, AttemptEnds, EngineStep, Recorded

LEMMA LimitInvKept == Spec => []LimitInv
  BY LimitInit, LimitStep, TypeInvKept, PTL DEF Spec

LEMMA ReasonKept == Spec => []ReasonInv
  BY ReasonInit, ReasonStep, TypeInvKept, LimitInvKept, PTL DEF Spec

\* The reason of a RetryError is what happened, and it is Permanent whenever
\* the last error was marked so, whatever else ended the retries with it.
THEOREM VerdictsAreTrue == Spec => []VerdictTrue
<1>1. ReasonInv => VerdictTrue
  BY DEF ReasonInv
<1> QED BY <1>1, ReasonKept, PTL

-----------------------------------------------------------------------------
(***************************************************************************)
(* Statuses: the status comes from the verdict, and the verdict knows what *)
(* kind of error it was about.                                             *)
(***************************************************************************)
\* A RetryError that a job returns was made by an engine: its reason is Permanent
\* if and only if its error is marked so (what VerdictTrue says of that engine).
EngineMade ==
  \A e \in Errors : e.type = "RetryError" =>
    (ReasonOf(e) = "permanent" <=> hasMarker("permanentError", e))

ErrorInv ==
  /\ pc = "failed" \/ Going => failure \in Errors /\ failure.type # "panic"
  /\ verdict = "ok" => failure = NoError
  /\ verdict = "jobError" => failure \in Errors \union {PanicError}
  /\ verdict \notin {"none", "ok", "jobError"} => failure \in Errors /\ failure.type # "panic"
  /\ verdict = "permanent" => isPermanent
  /\ StatusPermanent

LEMMA ErrorInit == Init => ErrorInv
  BY DEF Init, ErrorInv, StatusPermanent, Going

\* Classify is right if the verdict is true.
LEMMA ClassifyRight ==
  ASSUME EngineMade, TypeInv, ReasonInv, ErrorInv, Classify
  PROVE  status' = "permanent" <=> failure \in Errors /\ failure.type # "panic" /\ isPermanent
<1> DEFINE s == statusOf(verdict, failure)
           marked == failure \in Errors /\ failure.type # "panic" /\ isPermanent
<1>1. status' = "permanent" <=> s = "permanent"
  BY DEF Classify
<1>2. verdict \in Verdicts /\ CtxEnds \subseteq {"canceled", "deadline"}
  BY PolicyAssumption DEF TypeInv, TypeOK, Classify
<1>3. \A r \in Reasons : StatusFor(r) = "permanent" <=> r = "permanent"
  BY DEF StatusFor, Reasons
<1>4. CASE verdict = "ok"
  <2>1. s = "success"
    BY <1>4 DEF statusOf, Reasons
  <2>2. failure \notin Errors
    BY <1>4, ErrorsAssumption DEF ErrorInv, NoError, ErrorTypes
  <2> QED BY <1>1, <2>1, <2>2
<1>5. CASE verdict \in Reasons
  <2>1. s = StatusFor(verdict)
    BY <1>5 DEF statusOf, Reasons
  <2>2. marked <=> verdict = "permanent"
    BY <1>5 DEF ErrorInv, ReasonInv, VerdictTrue, Reasons
  <2> QED BY <1>1, <1>3, <1>5, <2>1, <2>2
<1>6. CASE verdict = "jobError"
  <2>1. CASE failure.type = "panic"
    <3>1. ReasonOf(failure) = "none"
      BY <2>1 DEF ReasonOf
    <3>2. s = "panic"
      BY <1>6, <2>1, <3>1 DEF statusOf, Reasons
    <3> QED BY <1>1, <2>1, <3>2
  <2>2. CASE failure.type # "panic" /\ ReasonOf(failure) \in Reasons
    <3>1. s = StatusFor(ReasonOf(failure))
      BY <1>6, <2>2 DEF statusOf, Reasons
    <3>2. failure \in Errors /\ failure.type = "RetryError"
      BY <1>6, <2>2 DEF ErrorInv, PanicError, ReasonOf, Reasons
    <3>3. marked <=> ReasonOf(failure) = "permanent"
      BY <2>2, <3>2 DEF EngineMade, isPermanent
    <3> QED BY <1>1, <1>3, <2>2, <3>1, <3>3
  <2>3. CASE failure.type # "panic" /\ ReasonOf(failure) \notin Reasons
    <3>1. s = IF isPermanent THEN "permanent" ELSE "error"
      BY <1>6, <2>3 DEF statusOf, Reasons, isPermanent
    <3>2. failure \in Errors
      BY <1>6, <2>3 DEF ErrorInv, PanicError
    <3> QED BY <1>1, <2>3, <3>1, <3>2
  <2> QED BY <2>1, <2>2, <2>3
<1> QED BY <1>2, <1>4, <1>5, <1>6 DEF Verdicts, Reasons

LEMMA ErrorStep ==
  ASSUME EngineMade
  PROVE  TypeInv /\ ReasonInv /\ ErrorInv /\ [Next]_vars => ErrorInv'
<1> SUFFICES ASSUME TypeInv, ReasonInv, ErrorInv, [Next]_vars PROVE ErrorInv'
  OBVIOUS
<1>c. CtxEnds \subseteq {"canceled", "deadline"} /\ ctx \in {"live"} \union CtxEnds
  BY PolicyAssumption DEF TypeInv, TypeOK
<1>1. CASE Succeed \/ Panic
  BY <1>1 DEF Succeed, Panic, End, ErrorInv, StatusPermanent, Going
<1>2. ASSUME NEW err \in Errors, Fail(err) PROVE ErrorInv'
  BY <1>2 DEF Fail, End, ErrorInv, ReasonInv, StatusPermanent, Going
<1>3. CASE StopPermanent
  BY <1>3, JudgedIs DEF StopPermanent, End, ErrorInv, StatusPermanent, Going, isPermanent
\* The engine goes on with the error it has, or ends with a reason for it.
<1>4. ASSUME UNCHANGED failure, pc = "failed" \/ Going, pc' \in {"retrying", "wait", "select", "running", "ended"},
             verdict' = "none" \/ verdict' \in {"exhausted", "budget", "shutdown"} \union CtxEnds
      PROVE  ErrorInv'
  BY <1>c, <1>4 DEF ErrorInv, StatusPermanent, Going
<1>5. CASE StopDone \/ StopAtMaxAttempts
  BY <1>c, <1>4, <1>5, JudgedIs DEF StopDone, Done, StopAtMaxAttempts, End
<1>6. CASE CountFailure
  <2>1. verdict = "none"
    BY <1>6 DEF CountFailure, ReasonInv
  <2>2. \/ pc' = "ended" /\ verdict' = "exhausted"
        \/ pc' = "retrying" /\ verdict' = verdict
    BY <1>6 DEF CountFailure, End
  <2> QED BY <1>4, <1>6, <2>1, <2>2, JudgedIs DEF CountFailure
<1>7. CASE CheckBudget
  BY <1>4, <1>7, JudgedIs DEF CheckBudget, End, Going, ReasonInv
<1>8. CASE WaitNot
  BY <1>c, <1>4, <1>8, JudgedIs DEF WaitNot, NextAttempt, End, Going, ReasonInv
<1>9. CASE WaitCancelled \/ WaitAborted
  BY <1>c, <1>4, <1>9, JudgedIs DEF WaitCancelled, WaitAborted, End, Going, ReasonInv
<1>10. CASE WaitOver \/ StartTimer
  BY <1>4, <1>10 DEF WaitOver, StartTimer, NextAttempt, Going, ReasonInv
<1>11. CASE Classify
  <2>1. pc' = "recorded" /\ UNCHANGED <<failure, verdict>>
    BY <1>11 DEF Classify
  <2>2. StatusPermanent'
    BY <1>11, <2>1, ClassifyRight DEF StatusPermanent, isPermanent
  <2> QED BY <2>1, <2>2 DEF ErrorInv, Going, isPermanent
<1>12. CASE CtxEnd \/ ForceStop \/ Tick \/ UNCHANGED vars
  <2>1. UNCHANGED <<pc, failure, verdict, status>>
    BY <1>12 DEF CtxEnd, ForceStop, Tick, vars, engine
  <2> QED BY <2>1 DEF ErrorInv, StatusPermanent, Going, isPermanent
<1> QED
  BY <1>1, <1>2, <1>3, <1>5, <1>6, <1>7, <1>8, <1>9, <1>10, <1>11, <1>12
  DEF Next, AttemptEnds, EngineStep, Recorded

\* A task is reported as permanent if and only if its last error was marked
\* Permanent, with and without a retry policy, for every error of a job among
\* which a RetryError is one that an engine has made.
THEOREM PermanentIsReported ==
  ASSUME EngineMade
  PROVE  Spec => []StatusPermanent
<1>1. ErrorInv => StatusPermanent
  BY DEF ErrorInv
<1>2. TypeInv /\ ReasonInv /\ ErrorInv /\ [Next]_vars => ErrorInv'
  BY ErrorStep
<1> QED BY <1>1, <1>2, ErrorInit, ReasonKept, TypeInvKept, PTL DEF Spec
=============================================================================
