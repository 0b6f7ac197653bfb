CONSTANTS
  MaxSeq = 4
  MaxSeqRestarted = 4
  MaxGen = 2
  BadAt = {}
  WireCap = 0
  Retention = 4
  MaxReplayEvents = 6
  ClearOutcomes = {TRUE}
  MayRetire = FALSE
SPECIFICATION FairSpec
CHECK_DEADLOCK FALSE
PROPERTY RestartIsNoticed
