SPECIFICATION PageFairSpec
CONSTANTS
  MaxDrafts = 3
  MaxCalls = 5
INVARIANTS
  DoubtKeptUnlessDoubled
PROPERTIES
  SavingEnds
