SPECIFICATION Spec
CONSTANTS
  t1 = t1
  t2 = t2
  w1 = w1
  w2 = w2
  c1 = c1
  Tasks = {t1, t2}
  TryTasks = {}
  OwnCtxTasks = {}
  NilTasks = {}
  CtxEnds = {}
  Workers = {w1, w2}
  Callers = {c1}
  MinWorkers = 1
  MaxWorkers = 2
  QueueSize = 1
  ThresholdPct = 50
  None = None
INVARIANTS
  NilMeansAllRan
