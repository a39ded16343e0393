SPECIFICATION Spec
CONSTANTS
  w1 = w1
  w2 = w2
  c1 = c1
  c2 = c2
  c3 = c3
  Workers = {w1, w2}
  Codes = {c1, c2, c3}
  Kinds = {ASSET, REVENUE}
  NoParent = NoParent
  NoAccount = NoAccount
  MaxRequests = 4
SYMMETRY Symmetry
INVARIANTS
  ChartIsAForest
PROPERTIES
  KeepsPromise
  BornUnderActiveGroup
CHECK_DEADLOCK FALSE
