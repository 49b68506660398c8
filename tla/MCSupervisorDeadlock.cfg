CONSTANTS
  w1 = w1
  w2 = w2
  Workers = {w1, w2}
  None = None
  Requests = 1
  Faults = 0
  Edits = 0
  Slow = {}
  LateReports = FALSE
  MayStop = TRUE
SPECIFICATION FairSupervisor
PROPERTIES StopCompletes
CHECK_DEADLOCK FALSE
