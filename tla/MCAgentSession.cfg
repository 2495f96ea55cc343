CONSTANTS
    Tasks = {"t1"}
    Children = {"c1"}
    MaxAttempts = 2
    MaxMessages = 3
    MaxReports = 1
    MaxFaults = 1
    MaxCrashes = 1
SPECIFICATION MCSpec
INVARIANTS
  LedgerIsBacked
  AttemptsDoNotOverlap
  TurnsAreFifo
  OnlyTurnsBlockResume
PROPERTIES
  DisposalEnds
  
CHECK_DEADLOCK FALSE
