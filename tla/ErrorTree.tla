------------------------------ MODULE ErrorTree ------------------------------
(***************************************************************************)
(* The errors a job can return, and what the pool reads out of them        *)
(* (errors.go, and the type switches of retry.go and task.go).             *)
(*                                                                         *)
(* An error is a record: its type, its name, the errors it unwraps to      *)
(* (one for a wrapper, several for a join), and the delay of a RetryAfter. *)
(***************************************************************************)
EXTENDS Integers, SequencesExt

CONSTANT Errors     \* the errors of the model

ErrorTypes == {"plain", "panic", "permanentError", "retryAfterError", "RetryError"}

\* The reasons a RetryError of the engine has, by the names of their errors.
Reasons == {"permanent", "exhausted", "budget", "shutdown", "canceled", "deadline"}

\* With an error, the errors it wraps are of the model too.
ASSUME ErrorsAssumption ==
  \A e \in Errors : /\ e.type \in ErrorTypes
                    /\ e.unwraps \in Seq(Errors)
                    /\ e.delay \in Nat
                    /\ e.type = "RetryError" => Len(e.unwraps) = 2

\* The errors are finite trees: nothing is left out of a set that has each error
\* with all of those it wraps in the set.
ASSUME TreesAssumption ==
  \A S \in SUBSET Errors :
    (\A e \in Errors : (\A i \in DOMAIN e.unwraps : e.unwraps[i] \in S) => e \in S) => S = Errors

\* No error, and what findMarker returns with false.
NoError == [type |-> "none", name |-> "none", unwraps |-> <<>>, delay |-> 0]

\* The first error of a sequence that passes the test, NoError if none does.
First(errs, Test(_)) ==
  LET i == SelectInSeq(errs, Test) IN IF i = 0 THEN NoError ELSE errs[i]

\* Mutant of findMarker: only the first branch of a join is searched.
findMarkerFirstBranch(type) ==
  LET find[e \in Errors] ==
        IF e.type = type THEN e
        ELSE IF e.unwraps = <<>> THEN NoError ELSE find[Head(e.unwraps)]
  IN  find

\* The first error of the type that the search from the root, depth first and
\* from left to right, comes to.
findMarker(type) ==
  LET find[e \in Errors] ==
        IF e.type = type THEN e
        ELSE First([i \in DOMAIN e.unwraps |-> find[e.unwraps[i]]], LAMBDA f : f # NoError)
  IN  find

\* A RetryError unwraps to its Reason and its Err.
ReasonOf(e) == IF e.type = "RetryError" THEN Head(e.unwraps).name ELSE "none"

hasMarker(type, e) == findMarker(type)[e] # NoError

\* errors.Is, for a target that has no Is method.
Is(e, target) ==
  LET is[x \in Errors] ==
        x = target \/ \E i \in DOMAIN x.unwraps : is[x.unwraps[i]]
  IN  is[e]
=============================================================================
