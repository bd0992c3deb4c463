SPECIFICATION Spec
CONSTANTS
  r1 = r1
  r2 = r2
  SIGINT = SIGINT
  SIGTERM = SIGTERM
  Requests = {r1, r2}
  Signals = {SIGINT, SIGTERM}
  MaxSignals = 1
  MaxFaults = 0
INVARIANTS
  DrainedBeforeTeardown
