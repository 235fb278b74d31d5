----------------------------- MODULE TaskLedger -----------------------------
(***************************************************************************)
(* What the pool promises about each submission, without queue, workers or *)
(* locks: it is answered once; an accepted job is started once or dropped  *)
(* once, never both; nothing is accepted once the pool is closed, and      *)
(* nothing is dropped unless the shutdown was forced.                      *)
(***************************************************************************)
CONSTANT Tasks

VARIABLES status, phase

Init ==
  /\ status = [t \in Tasks |-> "new"]
  /\ phase = "open"

Become(t, from, to) ==
  /\ status[t] = from
  /\ status' = [status EXCEPT ![t] = to]
  /\ UNCHANGED phase

Refuse(t)   == Become(t, "new", "refused")
Accept(t)   == phase = "open" /\ Become(t, "new", "accepted")
Start(t)    == Become(t, "accepted", "running")
Complete(t) == Become(t, "running", "ran")
Drop(t)     == phase = "forced" /\ Become(t, "accepted", "dropped")

Close == phase = "open" /\ phase' = "closed" /\ UNCHANGED status
Force == phase = "closed" /\ phase' = "forced" /\ UNCHANGED status

Next ==
  \/ \E t \in Tasks : Refuse(t) \/ Accept(t) \/ Start(t) \/ Complete(t) \/ Drop(t)
  \/ Close \/ Force

Spec == Init /\ [][Next]_<<status, phase>>
=============================================================================
