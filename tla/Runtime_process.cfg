CONSTANTS
  Backends = {b1}
  MaxAge = 1
  MaxSamples = 2
  MinimumSamples = 1
  RefitEvery = 1
  MaxSampleAge = 1
  Callers = {1, 2, 3}
  InFlight <- MCInFlight
  Addresses = {a1, a2}
  NoAddress = none
  MaxMoves = 1
  Svc = svc
  MaxTime = 2
  MaxRequests = 3
  MaxChanges = 2
SPECIFICATION Spec
INVARIANTS TrainingIsSound OneLookup ClosesInOrder
PROPERTIES ProcessEnds DepartedIsForgotten
