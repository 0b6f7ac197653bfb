CONSTANTS
  Requests = {"r1", "r2", "r3"}
  Backends = {"b1"}
  Service = "service"
  Limit = 2
  Bodies <- MCBodies
  AlphaNum = 1
  AlphaDen = 2
  ThresholdNum = 3
  ThresholdDen = 4
  MinimumRequests = 2
  OpenDuration = 1
  MaxTime = 1
SPECIFICATION FairSpec
INVARIANTS NothingLeaks BlameIsFair OpenHasEvidence TTFTIsExact
PROPERTIES EveryRequestReturns
CHECK_DEADLOCK FALSE
