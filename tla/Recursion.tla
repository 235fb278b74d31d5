------------------------------ MODULE Recursion ------------------------------
(***************************************************************************)
(* Induction, and functions defined by recursion, as facts about sets: an  *)
(* induction shows that the set of the elements a claim holds for leaves   *)
(* none out, and a recursive definition is the function that solves its    *)
(* equation. The proofs about math.Pow, findMarker and errors.As use them. *)
(***************************************************************************)
EXTENDS Integers, Sequences, TLAPS, WellFoundedInduction

\* The order of the natural numbers has no endless descent.
LEMMA LessIsWellFounded ==
  IsWellFoundedOn({p \in Nat \X Nat : p[1] < p[2]}, Nat)
  BY NatLessThanWellFounded DEF OpToRel

\* Induction over the natural numbers.
LEMMA NatSetInduction ==
  ASSUME NEW S, 0 \in S, \A n \in Nat : n \in S => n + 1 \in S
  PROVE  Nat \subseteq S
<1> DEFINE R == {p \in Nat \X Nat : p[1] < p[2]}
           T == Nat \ S
<1>1. SUFFICES ASSUME T # {} PROVE FALSE
  OBVIOUS
<1>2. T \subseteq Nat
  OBVIOUS
<1>3. IsWellFoundedOn(R, Nat)
  BY LessIsWellFounded
<1> HIDE DEF R, T
<1>4. PICK x \in T : \A y \in T : ~(<<y, x>> \in R)
  BY <1>1, <1>2, <1>3, WFMin
<1>5. x \in Nat /\ x \notin S /\ x # 0
  BY <1>4 DEF T
<1>6. x - 1 \in Nat /\ (x - 1) + 1 = x
  BY <1>5
<1>7. x - 1 \in T
  BY <1>5, <1>6 DEF T
<1>8. <<x - 1, x>> \in R
  BY <1>5, <1>6 DEF R
<1> QED BY <1>4, <1>7, <1>8

-----------------------------------------------------------------------------
(***************************************************************************)
(* Recursive definitions. kids[x] are the arguments the value at x is made *)
(* of, and Step[x][vs] is that value, given those of the arguments.        *)
(***************************************************************************)
\* No set but X itself has each element with all of its arguments in it.
Founded(X, kids) ==
  \A S \in SUBSET X :
    (\A x \in X : (\A i \in DOMAIN kids[x] : kids[x][i] \in S) => x \in S) => S = X

\* The arguments are in X, and of values in V the step makes one in V.
StepOn(X, kids, V, Step) ==
  \A x \in X : /\ \A i \in DOMAIN kids[x] : kids[x][i] \in X
              /\ \A vs \in [DOMAIN kids[x] -> V] : Step[x][vs] \in V

\* f is what the recursive definition asks for.
Solves(f, X, kids, Step) ==
  \A x \in X : f[x] = Step[x][[i \in DOMAIN kids[x] |-> f[kids[x][i]]]]

\* The definition has a solution: the least relation closed under the step relates
\* each element to one value, its own.
LEMMA RecursionExists ==
  ASSUME NEW X, NEW kids, NEW V, NEW Step, Founded(X, kids), StepOn(X, kids, V, Step)
  PROVE  \E f \in [X -> V] : Solves(f, X, kids, Step)
<1> DEFINE Closed(Q) ==
             \A x \in X : \A vs \in [DOMAIN kids[x] -> V] :
               (\A i \in DOMAIN kids[x] : <<kids[x][i], vs[i]>> \in Q) => <<x, Step[x][vs]>> \in Q
           R == {p \in X \X V : \A Q \in SUBSET (X \X V) : Closed(Q) => p \in Q}
           Single(x) == \E v \in V : \A w \in V : <<x, w>> \in R <=> w = v
<1>0. \A x \in X : /\ \A i \in DOMAIN kids[x] : kids[x][i] \in X
                 /\ \A vs \in [DOMAIN kids[x] -> V] : Step[x][vs] \in V
  BY DEF StepOn
<1>1. Closed(R)
  <2> SUFFICES ASSUME NEW x \in X, NEW vs \in [DOMAIN kids[x] -> V],
                      \A i \in DOMAIN kids[x] : <<kids[x][i], vs[i]>> \in R
               PROVE  <<x, Step[x][vs]>> \in R
    OBVIOUS
  <2>1. ASSUME NEW Q \in SUBSET (X \X V), Closed(Q) PROVE <<x, Step[x][vs]>> \in Q
    <3>1. \A i \in DOMAIN kids[x] : <<kids[x][i], vs[i]>> \in Q
      BY <2>1
    <3> QED BY <2>1, <3>1
  <2>2. <<x, Step[x][vs]>> \in X \X V
    BY <1>0
  <2> QED BY <2>1, <2>2
<1>2. ASSUME NEW Q \in SUBSET (X \X V), Closed(Q) PROVE R \subseteq Q
  BY <1>2
<1>3. R \subseteq X \X V
  OBVIOUS
<1> HIDE DEF R
<1>4. ASSUME NEW x \in X, \A i \in DOMAIN kids[x] : Single(kids[x][i]) PROVE Single(x)
  <2> DEFINE vs == [i \in DOMAIN kids[x] |-> CHOOSE v \in V : <<kids[x][i], v>> \in R]
  <2>1. ASSUME NEW i \in DOMAIN kids[x]
        PROVE  vs[i] \in V /\ \A w \in V : <<kids[x][i], w>> \in R <=> w = vs[i]
    BY <1>0, <1>4, <2>1
  <2>2. vs \in [DOMAIN kids[x] -> V]
    BY <2>1
  <2> HIDE DEF vs
  <2>3. <<x, Step[x][vs]>> \in R
    BY <1>1, <2>1, <2>2
  <2>4. ASSUME NEW w \in V, <<x, w>> \in R, w # Step[x][vs] PROVE FALSE
    <3> DEFINE Q == R \ {<<x, w>>}
    <3>1. Q \in SUBSET (X \X V)
      BY <1>3
    <3>2. Closed(Q)
      <4> SUFFICES ASSUME NEW y \in X, NEW us \in [DOMAIN kids[y] -> V],
                          \A i \in DOMAIN kids[y] : <<kids[y][i], us[i]>> \in Q
                   PROVE  <<y, Step[y][us]>> \in Q
        OBVIOUS
      <4>1. <<y, Step[y][us]>> \in R
        BY <1>1
      <4>2. ASSUME y = x PROVE us = vs
        <5>1. us \in [DOMAIN kids[x] -> V] /\ \A i \in DOMAIN kids[x] : <<kids[x][i], us[i]>> \in R
          BY <4>2
        <5>2. \A i \in DOMAIN kids[x] : us[i] = vs[i]
          BY <2>1, <5>1
        <5> HIDE DEF Closed, Single, Q
        <5> QED BY <2>2, <5>1, <5>2
      <4>3. <<y, Step[y][us]>> # <<x, w>>
        BY <2>4, <4>2
      <4> QED BY <4>1, <4>3
    <3>3. R \subseteq Q
      BY <1>2, <3>1, <3>2
    <3> QED BY <2>4, <3>3
  <2>5. Step[x][vs] \in V
    BY <1>0, <2>2
  <2> QED BY <2>3, <2>4, <2>5
<1>5. \A x \in X : Single(x)
  <2> DEFINE S == {x \in X : Single(x)}
  <2>1. \A x \in X : (\A i \in DOMAIN kids[x] : kids[x][i] \in S) => x \in S
    BY <1>4
  <2>2. S \in SUBSET X
    OBVIOUS
  <2> HIDE DEF S
  <2>3. S = X
    BY <2>1, <2>2 DEF Founded
  <2> QED BY <2>3 DEF S
<1> DEFINE f == [x \in X |-> CHOOSE v \in V : <<x, v>> \in R]
<1>6. ASSUME NEW x \in X PROVE f[x] \in V /\ \A w \in V : <<x, w>> \in R <=> w = f[x]
  BY <1>5
<1>7. f \in [X -> V]
  BY <1>6
<1>8. ASSUME NEW x \in X
      PROVE  f[x] = Step[x][[i \in DOMAIN kids[x] |-> f[kids[x][i]]]]
  <2> DEFINE vs == [i \in DOMAIN kids[x] |-> f[kids[x][i]]]
  <2> HIDE DEF f
  <2>1. vs \in [DOMAIN kids[x] -> V]
    BY <1>0, <1>7
  <2>2. \A i \in DOMAIN kids[x] : <<kids[x][i], vs[i]>> \in R
    BY <1>0, <1>6, <2>1
  <2> HIDE DEF vs
  <2>3. <<x, Step[x][vs]>> \in R /\ Step[x][vs] \in V
    BY <1>0, <1>1, <2>1, <2>2
  <2>4. f[x] = Step[x][vs]
    BY <1>6, <2>3
  <2> QED BY <2>4 DEF vs
<1> HIDE DEF f
<1> QED BY <1>7, <1>8 DEF Solves

\* Over the natural numbers: a value at 0, and each further one from the last.
NatStepOn(V, G) == \A n \in Nat \ {0} : \A v \in V : G[n][v] \in V

NatSolves(f, v0, G) == \A n \in Nat : f[n] = IF n = 0 THEN v0 ELSE G[n][f[n - 1]]

\* That is the special case in which n - 1 is the one argument of n.
LEMMA NatRecursion ==
  ASSUME NEW V, NEW v0 \in V, NEW G, NatStepOn(V, G)
  PROVE  \E f \in [Nat -> V] : NatSolves(f, v0, G)
<1> DEFINE kids == [n \in Nat |-> IF n = 0 THEN [i \in {} |-> 0] ELSE [i \in {0} |-> n - 1]]
           Step == [n \in Nat |-> [vs \in [DOMAIN kids[n] -> V] |->
                                     IF n = 0 THEN v0 ELSE G[n][vs[0]]]]
<1>1. ASSUME NEW n \in Nat
      PROVE  IF n = 0 THEN DOMAIN kids[n] = {}
                      ELSE DOMAIN kids[n] = {0} /\ kids[n][0] = n - 1 /\ n - 1 \in Nat
  OBVIOUS
<1>2. \A n \in Nat : \A i \in DOMAIN kids[n] : kids[n][i] \in Nat
  BY <1>1
<1>3. ASSUME NEW n \in Nat, NEW vs \in [DOMAIN kids[n] -> V]
      PROVE  Step[n][vs] = IF n = 0 THEN v0 ELSE G[n][vs[0]]
  OBVIOUS
<1> HIDE DEF kids, Step
<1>4. Founded(Nat, kids)
  <2> SUFFICES ASSUME NEW S \in SUBSET Nat,
                      \A n \in Nat : (\A i \in DOMAIN kids[n] : kids[n][i] \in S) => n \in S
               PROVE  S = Nat
    BY DEF Founded
  <2>1. 0 \in S
    BY <1>1
  <2>2. ASSUME NEW n \in Nat, n \in S PROVE n + 1 \in S
    <3>1. n + 1 \in Nat /\ n + 1 # 0 /\ (n + 1) - 1 = n
      OBVIOUS
    <3>2. DOMAIN kids[n + 1] = {0} /\ kids[n + 1][0] = n
      BY <1>1, <3>1
    <3> QED BY <2>2, <3>1, <3>2
  <2> QED BY <2>1, <2>2, NatSetInduction
<1>5. ASSUME NEW n \in Nat, NEW vs \in [DOMAIN kids[n] -> V] PROVE Step[n][vs] \in V
  <2>1. CASE n = 0
    BY <1>3, <2>1 DEF NatStepOn
  <2>2. CASE n # 0
    <3>1. vs[0] \in V
      BY <1>1, <2>2
    <3> QED BY <1>3, <2>2, <3>1 DEF NatStepOn
  <2> QED BY <2>1, <2>2
<1>6. PICK f \in [Nat -> V] : Solves(f, Nat, kids, Step)
  <2>1. StepOn(Nat, kids, V, Step)
    BY <1>2, <1>5 DEF StepOn
  <2> QED BY <1>4, <2>1, RecursionExists
<1>7. ASSUME NEW n \in Nat PROVE f[n] = IF n = 0 THEN v0 ELSE G[n][f[n - 1]]
  <2> DEFINE vs == [i \in DOMAIN kids[n] |-> f[kids[n][i]]]
  <2>1. vs \in [DOMAIN kids[n] -> V]
    BY <1>2
  <2>2. n # 0 => vs[0] = f[n - 1]
    BY <1>1
  <2>3. f[n] = Step[n][vs]
    BY <1>6 DEF Solves
  <2> HIDE DEF vs
  <2> QED BY <1>3, <2>1, <2>2, <2>3
<1> QED BY <1>7 DEF NatSolves
=============================================================================
