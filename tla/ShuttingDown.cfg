SPECIFICATION Spec
CONSTANTS
  t1 = t1
  t2 = t2
  t3 = t3
  w1 = w1
  w2 = w2
  c1 = c1
  c2 = c2
  Tasks = {t1, t2, t3}
  TryTasks = {}
  OwnCtxTasks = {}
  NilTasks = {t3}
  CtxEnds = {}
  Workers = {w1, w2}
  Callers = {c1, c2}
  MinWorkers = 2
  MaxWorkers = 2
  QueueSize = 1
  ThresholdPct = 50
  None = None
SYMMETRY WorkerSymmetry
INVARIANTS
  NilMeansAllRan
  DroppedExact
  ResultsAgree
  NobodyStuck
PROPERTIES
  InertOnceDrained
