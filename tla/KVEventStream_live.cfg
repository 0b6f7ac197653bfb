CONSTANTS
  MaxSeq = 3
  MaxSeqRestarted = 3
  MaxGen = 1
  BadAt = {1}
  WireCap = 2
  Retention = 3
  MaxReplayEvents = 2
  ClearOutcomes = {TRUE}
  MayRetire = FALSE
SPECIFICATION FairSpec
PROPERTIES GapIsResolved IndexCatchesUp
CHECK_DEADLOCK FALSE
