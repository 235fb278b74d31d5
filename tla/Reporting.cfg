SPECIFICATION Spec
CONSTANTS
  p1 = p1
  p2 = p2
  p3 = p3
  r1 = r1
  r2 = r2
  a = a
  Pools = {p1, p2, p3}
  Recs = {r1, r2}
  NoPool = NoPool
  RecorderOf <- MCRecorderOf
  NameOf <- MCNameOf
  Events <- MCEvents
  Collectors = 2
  Longest = 3
INVARIANTS
  TypeOK
  AverageWithinLongest
  OneHolder
  AttachedIsComplete
  NothingLeft
  SeriesOwn
