SPECIFICATION Spec
CONSTANTS
  a = a
  b = b
  c = c
  d = d
  Task = {a, b}
  DependsOn <- Join
  SideEffect = {b}
  NeedsApproval = {}
  MaxAttempts <- Attempts
  NoHandler = {}
  MaxConcurrency = 2
  SinkRefuses = FALSE
  MaxCrashes = 0
INVARIANTS
  RetriedUpToLimit
CHECK_DEADLOCK FALSE
