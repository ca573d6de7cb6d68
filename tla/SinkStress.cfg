CONSTANTS
  Batches <- StorageBatches
  DecodedLimit <- SameDecodedLimit
  Stress = TRUE
  MaxRecords = 3
  CaptureLimit = 7
  MaxArrivals = 1
  MaxRuns = 0
  MaxFaults = 0
SPECIFICATION Spec
INVARIANT IndependentCounters
