SPECIFICATION FairSpec
CONSTANTS
  Steps = 3
  Retries = {0, 2}
  MaxRetry = 2
  MaxRuns = 2
CHECK_DEADLOCK FALSE
INVARIANTS
  TypeOK
  FailureIsUndone
  SuccessIsComplete
  UndoRetracesSteps
PROPERTIES
  ResumeKeepsEarlier
  EveryRunEnds
