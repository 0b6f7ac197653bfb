SPECIFICATION Spec
CONSTANTS
  Plans <- MCPlans
  Streams <- MCStreams
  Backends <- MCBackends
  Evidence <- MCEvidence
  Workers <- MCWorkers
  MaxFaults = 1
INVARIANTS ReportIsComplete WindowIsExact SaltsIsolate
PROPERTY RunEnds
