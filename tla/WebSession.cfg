SPECIFICATION FairSpec
CONSTANTS
  c1 = c1
  c2 = c2
  NoClient = NoClient
  Clients = {c1, c2}
  Tabs = {c1, c2}
  TabOf <- MCTabOf
  MaxTokens = 3
  MaxContexts = 2
  MaxAbandoned = 1
INVARIANTS
  NoNeedlessSignOut
  LogoutEndsFamily
  ContextNamesAccount
PROPERTIES
  FamiliesPromise
  CallsEnd
