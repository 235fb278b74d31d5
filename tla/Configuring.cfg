SPECIFICATION Spec
CONSTANTS
  Inputs <- MCInputs
  maxInt64 = 4095
  maxDuration = 31
  Top = 60
  Floats <- MCFloats
  One = 16
  NaN = NaN
  Arbitrary <- Least
  LastRetry = 12
  Inf = Inf
  Nil = Nil
INVARIANTS
  ExplicitWins
  AutoAlwaysValid
  QueueFitsMemory
  LimitsAreNews
  DelaysClamped
PROPERTIES
  NeverShrinks
