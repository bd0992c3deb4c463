SPECIFICATION FairSpec
CONSTANTS
  Users = {u1, u2}
  Inactive = {u1}
  NoUser = NoUser
  Jobs = {j1, j2}
  MaxVersion = 2
  MaxFaults = 2
CHECK_DEADLOCK FALSE
INVARIANTS
  TypeOK
  OwnView
PROPERTIES
  ConvergesAlone
