SPECIFICATION FairSpec
CONSTANTS
  t1 = t1
  t2 = t2
  t3 = t3
  w1 = w1
  c1 = c1
  Tasks = {t1, t2, t3}
  TryTasks = {}
  OwnCtxTasks = {}
  NilTasks = {}
  CtxEnds = {}
  Workers = {w1}
  Callers = {c1}
  MinWorkers = 1
  MaxWorkers = 1
  QueueSize = 1
  ThresholdPct = 50
  None = None
PROPERTIES
  SubmissionsReturn
  AcceptedIsSettled
  ShutdownReturns
  ShutdownReleasesSubmits
  RecorderDetached
