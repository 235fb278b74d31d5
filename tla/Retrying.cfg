SPECIFICATION Spec
CONSTANTS
  Errors <- MCErrors
  Limits <- MCLimits
  maxDuration = 15
  Top = 32
  Floats <- MCFloats
  One = 16
  NaN = NaN
  Arbitrary <- Least
  MaxAttempts = 4
  MaxDelay = 3
  MaxElapsedTime = 6
  Jitter = TRUE
  Strategy = "linear"
  Base = 6
  MultNum = 3
  MultDen = 2
  CtxEnds = {"canceled", "deadline"}
INVARIANTS
  TypeOK
  LimitsKept
  WaitsBounded
  OneLateStart
  VerdictTrue
  StatusPermanent
  MarkerIsFirst
