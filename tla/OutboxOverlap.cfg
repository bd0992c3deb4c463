SPECIFICATION Spec
CONSTANTS
  t1 = t1
  t2 = t2
  r1 = r1
  r2 = r2
  r3 = r3
  Ticks = {t1, t2}
  Rows = {r1, r2}
  CreatedStatus = {"INACTIVE", "ACTIVE"}
  Take = 2
  MaxSends = 2
  FaultKinds = {"claim", "send", "refuse", "stall", "reply", "sql", "commit", "cron"}
  MaxFaults = 2
SYMMETRY Symmetry
CHECK_DEADLOCK FALSE
INVARIANTS
  TypeOK
  CompletedMeansSent
  WelcomeIsVersioned
