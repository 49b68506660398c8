CONSTANTS
  Free = Free
  NoConn = NoConn
  NoJob = NoJob
  c1 = c1
  a = a
  r1 = r1
  main = main
  k1 = k1
  j1 = j1
  NoValue = NoValue
  supervisor = supervisor
  worker = worker
  q = q
  r = r
  q2 = q2
  r2 = r2
  None = None
  w1 = w1
  w2 = w2
SPECIFICATION FairSpec
PROPERTIES OrphanedWorkerExits GenerationEnds EveryCallReturns PageAvailable RecordEnds
CHECK_DEADLOCK FALSE
