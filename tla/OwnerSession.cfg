SPECIFICATION FairSpec
CONSTANTS
  phone = phone
  NoClient = NoClient
  Clients = {phone}
  MaxTokens = 3
  MaxQueue = 2
  MaxAbandoned = 1
INVARIANTS
  PairIsWhole
  IntentHides
  NoNeedlessSignOut
PROPERTIES
  LogoutClears
