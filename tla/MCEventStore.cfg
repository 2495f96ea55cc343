SPECIFICATION FairSpec
CONSTANTS
  Clients = {a, b, c}
  NotLoaded = NotLoaded
  MaxEvents = 4
  MaxCrashes = 1
  MaxFailures = 1
INVARIANTS
  AckedAreKept
  Replayable
PROPERTIES
  AppendEnds
CHECK_DEADLOCK FALSE
