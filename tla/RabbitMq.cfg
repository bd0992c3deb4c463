SPECIFICATION FairSpec
CONSTANTS
  c1 = c1
  c2 = c2
  j1 = j1
  j2 = j2
  e1 = e1
  e2 = e2
  Calls = {c1, c2}
  Jobs = {j1, j2}
  Events = {e1, e2}
  NoAnswer = NoAnswer
  Workloads <- MCWorkloads
  MaxFaults = 1
CHECK_DEADLOCK FALSE
INVARIANTS
  TypeOK
  NoCallLost
  WorkedAsSent
PROPERTIES
  CallsAreRemote
  AnsweredOrHeld
  QueuesRunEmpty
