CONSTANTS
    Catalog = {"search", "update", "look", "write"}
    Initial = {"search", "update"}
    Search = "search"
    Update = "update"
    NoTool = ""
    Thresholds = {2}
    Write = "write"
    Evidence = {"", "look"}
    Arguments = {"x"}
    Plans <- MCPlans
    Wanted <- MCWanted
    Foreign = "foreign"
    MaxSteps = 2
    MaxFaults = 1
    Calls <- MCCalls
    MaxLost = 1
SPECIFICATION MCSpec
INVARIANTS
  UndisturbedRunReturns
  WriteOnce
  BatchIsOrderly
PROPERTIES
  PlanIsOrderly
  RunEnds
CHECK_DEADLOCK FALSE
