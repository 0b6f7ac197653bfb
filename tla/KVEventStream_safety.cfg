CONSTANTS
  MaxSeq = 4
  MaxSeqRestarted = 0
  MaxGen = 2
  BadAt = {1}
  WireCap = 1
  Retention = 3
  MaxReplayEvents = 2
  ClearOutcomes = {TRUE, FALSE}
  MayRetire = TRUE
SPECIFICATION Spec
INVARIANTS CommittedIsObservable NoHoles FreshIsComplete NoWriteAfterRetire
CHECK_DEADLOCK FALSE
