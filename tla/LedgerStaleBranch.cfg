SPECIFICATION Spec
CONSTANTS
  w1 = w1  w2 = w2  r1 = r1  r2 = r2  r3 = r3  b1 = b1  cash = cash  sales = sales  assets = assets  d1 = d1
  Workers = {w1, w2}
  Requests = {r1, r2, r3}
  Drafts = {d1}
  Branches = {b1}
  Dates = {1, 2}
  Accounts = {cash, sales, assets}
  Payloads <- MCPayloads
  Commands <- BranchCommands
  InitialAccounts <- MCAccounts
  InitialBranches <- MCBranches
  InitialGrants <- MCGrants
  Revocable <- MCRevocable
  Volatile = {cash}
  Currency = "SAR"
  NoBranch = NoBranch  NoWorker = NoWorker  NoCommand = NoCommand
PROPERTY NewPostingsNeedActiveBranch
