SPECIFICATION Spec
CONSTANTS
  t1 = t1
  t2 = t2
  w1 = w1
  w2 = w2
  Tasks = {t1, t2}
  TryTasks = {}
  OwnCtxTasks = {}
  NilTasks = {}
  CtxEnds = {}
  Workers = {w1, w2}
  Callers = {}
  MinWorkers = 1
  MaxWorkers = 2
  QueueSize = 1
  ThresholdPct = 50
  None = None
INVARIANTS
  OnlyIdleRetire
