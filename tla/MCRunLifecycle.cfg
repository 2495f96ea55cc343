SPECIFICATION Spec
CONSTANTS
  w1 = w1
  w2 = w2
  r1 = r1
  r2 = r2
  shared = shared
  Runs = {r1}
  Workers = {w1, w2}
  WorkerId <- DistinctIds
  NoOwner = NoOwner
  NoRun = NoRun
  MaxModelTurns = 10
  MaxToolCalls = 8
  MaxRepeatedAction = 3
INVARIANTS
  PreparedIsCurrent
  PlanFollowsPhase
PROPERTIES
  NothingGoesBack
CHECK_DEADLOCK FALSE
