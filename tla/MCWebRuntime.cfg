SPECIFICATION RuntimeSpec
CONSTANTS
  c1 = c1
  c2 = c2
  a = a
  b = b
  Conns = {c1, c2}
  Endpoints = {a, b}
  Offered = {"connect", "close", "fill", "auto_heal"}
  Requests = {r1, r2, main, k1}
  Jobs = {j1}
  Target <- TwoFiles
  Free = Free
  NoConn = NoConn
  NoJob = NoJob
  MainThread = main
  Commands = {k1}
  Restorable = {c1}
  Serial = TRUE
CHECK_DEADLOCK FALSE
SYMMETRY ClientSymmetry
INVARIANTS
  IdleMeansQuiet
  ExportedSessionIsCurrent
  SessionCloseIsNeverRefused
  ExitedWorkerLeftNothing
