CONSTANTS
  None = None
  Pages = {p1, p2}
  Drafts = {d1, d2}
  Changes = {c1, c2, u}
  Unsafe = {u}
  N = 3
  Want = 2
  Modes = {"append", "atomic", "replace"}
  MaxSourceChanges = 2
  MaxFaults = 2
  MaxDeaths = 1
  SecondServer = TRUE
  Analyses = {a1, a2}
  Columns = {k1, k2, k3}
  Locked = {k1}
  Ties = {{k1, k2, k3}}
  First <- FirstOfTie
  Capacity = 2
  MaxChanges = 1
  MaxRevision = 2
SPECIFICATION Spec
SYMMETRY Symmetric
CONSTRAINT Bound
INVARIANTS
  ConfirmedChangesSurvive CountsAreTrue AllOrNothing ErasedAsReviewed OutcomeIsKept AppliedAsPreviewed
CHECK_DEADLOCK FALSE
