SPECIFICATION FairSpec
CONSTANTS
  t1 = t1
  t2 = t2
  r1 = r1
  r2 = r2
  r3 = r3
  Ticks = {t1}
  Rows = {r1}
  CreatedStatus = {"ACTIVE"}
  Take = 1
  MaxSends = 2
  FaultKinds = {}
  MaxFaults = 0
CHECK_DEADLOCK FALSE
PROPERTIES
  ReliablePublishing
