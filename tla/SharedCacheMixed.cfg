SPECIFICATION FairSpec
CONSTANTS
  Users = {u1, u2}
  Inactive = {u1}
  NoUser = NoUser
  Jobs = {j1, j2}
  MaxVersion = 1
  MaxFaults = 0
CHECK_DEADLOCK FALSE
PROPERTIES
  Converges
