CONSTANTS
  Layouts <- FourTables
  Setups <- FiveSetups
  Answers <- FiveAnswers
  LegacyFiles <- OldFile
  MaxRetries = 2
  MaxRuns = 2
SPECIFICATION Spec
INVARIANT FailureIsReported
CHECK_DEADLOCK FALSE
