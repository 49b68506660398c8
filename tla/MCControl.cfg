CONSTANTS
  launcher = launcher
  page = page
  p = p
  q = q
  r = r
  Workers = {w1, w2}
  None = None
  Requests = 2
  Faults = 2
  Edits = 1
  Slow = {"prepare", "shutdown", "boot", "exit"}
  LateReports = FALSE
  MayStop = FALSE
  Sides = {launcher, page}
  Calls = {p, q, r}
  Caller <- Callers
  MaxPending = 1
  MaxAnswers = 1
  Capacity = 1
  core = core
  ai = ai
  cli = cli
  Names = {core, ai, cli}
  Components = {ai, cli}
  Required = {core}
  Newest = 2
  Needs <- CoreNeeds
  Indexes <- TwoIndexes
  Found <- OneFound
  Tools = {"pip"}
  Tabs = {t1, t2}
  Servers = {s1}
  MaxPlans = 2
  MaxChanges = 1
  MaxWrites = 1
  MaxStarts = 2
  Askers = {c1, c2}
  _CHECK_TIMEOUT = 1
  FreshFor = 2
  WrongFor = 1
  LastTick = 2
  MaxChecks = 2
SPECIFICATION Spec
SYMMETRY Symmetric
INVARIANTS InstallAlone SessionKept PackagesAsReviewed LateAnswersAreDropped
PROPERTIES ImplementsRemoteCalls
CHECK_DEADLOCK FALSE
