SPECIFICATION FairSpec
CONSTANTS
  w1 = w1
  w2 = w2
  r1 = r1
  r2 = r2
  shared = shared
  Runs = {r1}
  Workers = {w1, w2}
  WorkerId <- SharedIds
  NoOwner = NoOwner
  NoRun = NoRun
  MaxModelTurns = 9
  MaxToolCalls = 6
  MaxRepeatedAction = 3
INVARIANTS
  PatchAccounted
PROPERTIES
  ContractSpec
  RunSettles
  ApprovedRunEnds
CHECK_DEADLOCK FALSE
