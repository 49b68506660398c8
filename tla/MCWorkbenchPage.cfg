SPECIFICATION PagesSpec
CONSTANTS
  Docs = {empty, a, b}
  Empty = empty
  MaxEpoch = 1
  MaxModels = 2
  MaxDrafts = 1
  MaxRevision = 2
  MaxMounts = 2
  MaxSchema = 0
  MaxRuns = 0
  MaxWaiting = 2
  Lossy = FALSE
  LateRename = FALSE
CHECK_DEADLOCK FALSE
SYMMETRY Contents
INVARIANTS PageIsTruthful
PROPERTIES NoEditIsDiscarded
