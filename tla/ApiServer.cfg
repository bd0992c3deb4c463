SPECIFICATION FairSpec
CONSTANTS
  r1 = r1
  r2 = r2
  SIGINT = SIGINT
  SIGTERM = SIGTERM
  Requests = {r1, r2}
  Signals = {SIGINT, SIGTERM}
  MaxSignals = 3
  MaxFaults = 2
INVARIANTS
  TypeOK
  AnswersAreTrue
  WorkIsConnected
  CleanExit
PROPERTIES
  RequestsSettle
  ServesAgain
