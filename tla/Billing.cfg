SPECIFICATION Spec
CONSTANTS
  w1 = w1
  w2 = w2
  receivable = receivable
  Accounts = {receivable}
  Workers = {w1, w2}
  Commands <- MCCommands
  MaxMinor = 12
  MaxDay = 2
SYMMETRY Symmetry
INVARIANTS
  GuardsAgree
  ChargesKeepProfile
  AmountsAgree
PROPERTIES
  KeepsPromise
  ReplaysAnswerOriginal
