SPECIFICATION Spec
CONSTANTS
  NoValue = NoValue
  N = 4
  Values <- Digits
  Null = NoValue
  Unique = {1}
  Composites <- FourComposites
  Inequalities <- OneCheck
  Permitted <- Differ
  Allowed <- FourRanges
  Existing <- TwoKeys
  Skipped = {4}
  Sources <- FourSources
  Domain <- FourDomains
  Covered = {1}
  MaxTries = 2
  MaxRetries = 2
  Budget = 14
  MaxRows = 3
INVARIANTS
  SeenIsExact
  NothingLeftBehind
PROPERTIES
  ImplementsRowStream
