SPECIFICATION FairSpec
CONSTANTS
  a = a
  b = b
  c = c
  d = d
  Task = {a, b, c, d}
  DependsOn <- Join
  SideEffect = {b}
  NeedsApproval = {b, c}
  MaxAttempts <- Attempts
  NoHandler = {d}
  MaxConcurrency = 2
  SinkRefuses = TRUE
  MaxCrashes = 2
INVARIANTS
  HandlerIsJournaled
  SideEffectOnce
PROPERTIES
  ReturnsSettled
  ExecuteEnds
CHECK_DEADLOCK FALSE
