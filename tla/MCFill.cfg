CONSTANTS
  Count = 3
  BatchSize = 2
  MaxExisting = 4
  MaxConnections = 2
  Refusable = {"journal_mode"}
  MaxFills = 2
  N = 3
  _MAX_PARENT_ATTEMPTS = 2
  Unlisted = FALSE
SPECIFICATION Spec
INVARIANTS
  ReportIsExact SettingsReturn HierarchyIsSound EveryTableIsFilled SpecsFitTheSchema
  EmittedRulesFit
CHECK_DEADLOCK FALSE
