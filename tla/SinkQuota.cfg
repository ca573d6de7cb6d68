CONSTANTS
  Batches <- QuotaBatches
  DecodedLimit <- SameDecodedLimit
  Stress = FALSE
  MaxRecords = 3
  CaptureLimit = 7
  MaxArrivals = 4
  MaxRuns = 1
  MaxFaults = 0
SPECIFICATION Spec
INVARIANTS TypeOK CountersExact WithinQuota ArrivalOrder LossIsVisible
