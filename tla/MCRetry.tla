------------------------------- MODULE MCRetry -------------------------------
(***************************************************************************)
(* Instances of Retry for TLC: the errors, and the limits on two of them.  *)
(***************************************************************************)
EXTENDS Retry, MCFloats

Plain(name) == [type |-> "plain", name |-> name, unwraps |-> <<>>, delay |-> 0]
Join(name, errs) == [type |-> "plain", name |-> name, unwraps |-> errs, delay |-> 0]
Permanent(err) == [type |-> "permanentError", name |-> "permanent",
                   unwraps |-> <<err>>, delay |-> 0]
RetryAfter(err, d) == [type |-> "retryAfterError", name |-> "retryAfter",
                       unwraps |-> <<err>>, delay |-> d]

Gave(reason, err) == [type |-> "RetryError", name |-> "gaveUp", unwraps |-> <<reason, err>>,
                      delay |-> 0]

busy == Plain("busy")
lost == Plain("lost")
other == Plain("other")

\* Two limited sentinels and one without a limit, an error that carries a hint
\* in its second branch, one with Permanent there, one with two hints, a hint to
\* retry at once, and what a job may have from another pool: a *PanicError, the
\* two RetryErrors of a job that gave up, and their reasons.
MCErrors ==
  LET hinted == RetryAfter(busy, 4)
      fatal  == Permanent(lost)
      sooner == RetryAfter(hinted, 1)
      spent  == Plain("exhausted")
      marked == Plain("permanent")
  IN  {busy, lost, other, RetryAfter(other, 0), hinted, fatal, sooner,
       Join("hint", <<lost, hinted>>),
       Join("fatal", <<busy, fatal>>),
       Join("two", <<hinted, sooner>>),
       PanicError, spent, marked, Gave(spent, busy), Gave(marked, fatal)}

MCLimits == <<[err |-> lost, max |-> 2], [err |-> busy, max |-> 3]>>
NoLimits == <<>>
=============================================================================
