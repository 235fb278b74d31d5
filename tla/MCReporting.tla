----------------------------- MODULE MCReporting -----------------------------
(***************************************************************************)
(* Three pools of one name and their recorders on one registry: p1 and p3  *)
(* are given the same recorder, p2 another one.                            *)
(***************************************************************************)
EXTENDS Reporting, TLC

CONSTANTS p1, p2, p3, r1, r2, a

MCRecorderOf == (p1 :> r1) @@ (p2 :> r2) @@ (p3 :> r1)
MCNameOf == [p \in Pools |-> a]

Event(p, call) ==
  [pool |-> p, call |-> call, failed |-> FALSE, attempts |-> 1, latency |-> 0, wait |-> 0]

Done(p, failed, attempts, latency, wait) ==
  [Event(p, "done") EXCEPT !.failed = failed, !.attempts = attempts,
                           !.latency = latency, !.wait = wait]

MCEvents ==
  {Done(p1, TRUE, 2, 3, 1), Done(p1, FALSE, 1, 2, 2), Event(p1, "rejected"),
   Event(p2, "dropped"), Event(p3, "scaleUp")}
=============================================================================
