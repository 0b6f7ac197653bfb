CONSTANTS
  Requests = {r1, r2, r3}
  MaxInflight = 2
  InitialTarget = 2
  Mode = "active"
  MinTarget = 1
  MaxTarget = 2
  TargetStep = 2
  Cooldown = 3
  LowWatermark = 5
  HighWatermark = 9
  WatermarkScale = 10
  MaxArrivals = 3
  TickLength = 3
  MaxTime = 4
SPECIFICATION Spec
INVARIANT TunerNeverFaults
PROPERTIES PoolSpec OnlyHardLowers
CHECK_DEADLOCK FALSE
SYMMETRY Symmetry
