CONSTANTS
  Batches <- StorageBatches
  DecodedLimit <- SameDecodedLimit
  Stress = FALSE
  MaxRecords = 3
  CaptureLimit = 7
  MaxArrivals = 2
  MaxRuns = 0
  MaxFaults = 1
SPECIFICATION Spec
PROPERTY CompleteArrayOnDisk
