CONSTANTS
  Instances <- MCInstances
  Callers = {"c1", "c2"}
  MaxInstances = 2
  MaxCalls = 2
SPECIFICATION FairSpec
INVARIANTS OneWriterPerPod NoOldInstanceHit NothingOrphaned
PROPERTY CallsReturn
CHECK_DEADLOCK FALSE
