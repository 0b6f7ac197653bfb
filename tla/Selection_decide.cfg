CONSTANTS
  Top = 15
  QueuePenalty = 4
  RunningPenalty = 2
  InflightPenalty = 3
  HardQueueDepth = 4
  HardLocalInflight = 0
  RuntimeLimit = 9
  QueueDepthDelta = 1
  InflightDelta = 1
  Profile <- MCProfile
  TiesUp <- MCTiesUp
  Backends = {1, 2}
  Modes <- MCModes
  ObsCases <- MCObsCases
  Inflights = {0, 2, 11}
  Prompts = {1, 6}
  ShortPromptTokens = 1
  BlockSize = 2
  Keys = {"k1", "k2"}
  Hash = {0, 1}
  Score <- MCScore
  MaxEntries = 1
  TTL = 1
  MaxTime = 2
SPECIFICATION Spec
INVARIANTS DecisionIsEligible LocalityNeedsEveryMatch CheapestIsChosen EstimatesAreMonotone TableBounded
PROPERTIES PreferenceIsSticky
CHECK_DEADLOCK FALSE
