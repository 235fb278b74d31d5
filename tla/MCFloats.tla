------------------------------- MODULE MCFloats -------------------------------
(***************************************************************************)
(* Small floats for TLC, in the format of float64 but with a significand   *)
(* of 3 bits. A conversion that is out of range gives what it gives on     *)
(* amd64, the least duration.                                              *)
(***************************************************************************)
EXTENDS Backoff

MCFloats ==
  [i \in 0..Top |-> IF i < 4 THEN i ELSE (4 + (i % 4)) * 2 ^ ((i \div 4) - 1)]

Least == -(maxDuration + 1)
=============================================================================
