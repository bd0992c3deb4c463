SPECIFICATION FairSpec
CONSTANTS
  Users = {u1}
  NoUser = NoUser
  Calls = {c1, c2}
  MaxVersion = 3
  MaxFaults = 2
INVARIANTS
  TypeOK
  Fresh
PROPERTIES
  StaleWriteBounded
  LinearizableReads
  ConnectedCallsReturn
