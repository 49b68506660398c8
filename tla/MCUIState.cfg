SPECIFICATION Spec
CONSTANTS
  c1 = c1
  c2 = c2
  a = a
  b = b
  Conns = {c1, c2}
  Endpoints = {a, b}
  Offered = {"connect", "read", "close", "workbench", "auto_heal"}
  Requests = {r1, r2}
  Jobs = {j1, j2}
  Target <- TwoConnections
  Free = Free
  NoConn = NoConn
  NoJob = NoJob
SYMMETRY ThreadSymmetry
INVARIANTS
  WriteExclusion
  OperationsHoldTheirConnection
  ReservedConnectionIsQuiet
PROPERTIES
  ImplementsLeases
