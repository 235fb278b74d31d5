SPECIFICATION FairSpec
CONSTANTS
  Errors <- MCErrors
  Limits <- MCLimits
  maxDuration = 15
  Top = 32
  Floats <- MCFloats
  One = 16
  NaN = NaN
  Arbitrary <- Least
  MaxAttempts = 3
  MaxDelay = 0
  MaxElapsedTime = 0
  Jitter = TRUE
  Strategy = "exponential"
  Base = 2
  MultNum = 3
  MultDen = 2
  CtxEnds = {"canceled"}
PROPERTIES
  JobEnds
  StopEndsJob
