CONSTANTS
  Untouched = Untouched
  SchemaColumns <- ThreeColumns
  Last = 2
  Worlds <- FiveWorlds
  Derived <- EachOther
  BrokenKeys <- OneLoose
  MaxRounds = 2
  MaxHistory = 2
  Layouts <- FourTables
  Setups <- FiveSetups
  Answers <- FiveAnswers
  LegacyFiles <- OldFile
  MaxRetries = 2
  MaxRuns = 2
SPECIFICATION RulesSpec
INVARIANTS
  GraphsAreExact HealingIsSound
  RulesAreUsable SuggestionFits RefusedIsNotRepeated
CHECK_DEADLOCK FALSE
