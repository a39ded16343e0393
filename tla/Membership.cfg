SPECIFICATION FairSpec
CONSTANTS
  w1 = w1
  w2 = w2
  ann = ann
  ben = ben
  branch = branch
  NoBranch = NoBranch
  NoWorker = NoWorker
  NoCommand = NoCommand
  Workers = {w1, w2}
  Users = {ann, ben}
  Founder = ann
  Branches = {branch}
  Roles <- MCRoles
  RoleGrants <- MCGrants
  Commands <- MCCommands
  MaxAssignments = 4
INVARIANTS
  AlwaysAnOwner
  UniqueAssignments
PROPERTIES
  KeepsPromise
  SuspensionIsFinal
  RequestsEnd
