--------------------------- MODULE MCAdaptivePool ---------------------------
(***************************************************************************)
(* Instances of AdaptivePool for TLC. The cfg files give the constants; the *)
(* slots of the workers are interchangeable.                               *)
(***************************************************************************)
EXTENDS AdaptivePool, TLC

WorkerSymmetry == Permutations(Workers)
=============================================================================
