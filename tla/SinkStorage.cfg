CONSTANTS
  Batches <- StorageBatches
  DecodedLimit <- SameDecodedLimit
  Stress = TRUE
  MaxRecords = 3
  CaptureLimit = 7
  MaxArrivals = 2
  MaxRuns = 0
  MaxFaults = 2
SPECIFICATION Spec
INVARIANTS DamageWasReported LossIsVisible
PROPERTIES OneProtocolPerRequest KeepsPromise
