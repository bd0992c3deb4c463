SPECIFICATION FairSpec
CONSTANTS
  t1 = t1
  t2 = t2
  r1 = r1
  r2 = r2
  r3 = r3
  Ticks = {t1}
  Rows = {r1, r2, r3}
  CreatedStatus = {"INACTIVE", "ACTIVE"}
  Take = 2
  MaxSends = 3
  FaultKinds = {"claim", "send", "refuse", "stall", "reply", "sql", "commit", "cron"}
  MaxFaults = 1
CHECK_DEADLOCK FALSE
INVARIANTS
  DuplicatesBounded
  StrandedBounded
PROPERTIES
  MailsAreSettled
  PublishedOrStranded
