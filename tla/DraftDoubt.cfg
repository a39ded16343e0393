SPECIFICATION PageSpec
CONSTANTS
  MaxDrafts = 3
  MaxCalls = 5
INVARIANTS
  DoubtKeepsIdentity
