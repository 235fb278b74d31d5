SPECIFICATION Spec
CONSTANTS
  t1 = t1
  t2 = t2
  t3 = t3
  w1 = w1
  c1 = c1
  Tasks = {t1, t2, t3}
  TryTasks = {t2}
  OwnCtxTasks = {t3}
  NilTasks = {}
  CtxEnds = {"deadline"}
  Workers = {w1}
  Callers = {c1}
  MinWorkers = 1
  MaxWorkers = 1
  QueueSize = 1
  ThresholdPct = 50
  None = None
INVARIANTS
  NoSendOnClosedQueue
PROPERTIES
  ImplementsLedger
