SPECIFICATION FairSpec
CONSTANTS
  t1 = t1
  t2 = t2
  r1 = r1
  r2 = r2
  r3 = r3
  Ticks = {t1, t2}
  Rows = {r1, r2}
  CreatedStatus = {"ACTIVE"}
  Take = 2
  MaxSends = 1
  FaultKinds = {"reply"}
  MaxFaults = 1
CHECK_DEADLOCK FALSE
PROPERTIES
  TicksEnd
