SPECIFICATION FairSpec
CONSTANTS
  t1 = t1
  t2 = t2
  shop = shop
  bakery = bakery
  NoTab = NoTab
  NoScope = NoScope
  None = None
  Tabs = {t1, t2}
  Scopes = {shop, bakery}
  MaxCommands = 2
  MaxSessions = 1
INVARIANTS
  UncertainIsKept
  AcknowledgedIsPosted
  PostedWhereConfirmed
PROPERTIES
  KeepsPromise
  OperationsEnd
