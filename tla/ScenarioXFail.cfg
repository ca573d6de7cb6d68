CONSTANTS
  Family = "otlp"
  Signals <- TracesAndLogs
  Startup <- StartBatches
  Work <- WorkBatches
  Contract <- ExactTraces
  Unplanned <- FirstTraceOnly
  MaxRecords = 5
  Quiet = 2
  StartupTimeout = 2
  DrainTimeout = 3
SPECIFICATION Spec
CHECK_DEADLOCK FALSE
INVARIANT XFailIsRejection
