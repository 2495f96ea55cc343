SPECIFICATION Spec
CONSTANTS
  Clients = {a, b}
  NotLoaded = NotLoaded
  MaxEvents = 3
  MaxCrashes = 0
  MaxFailures = 0
INVARIANTS
  LogStaysReplayable
CHECK_DEADLOCK FALSE
