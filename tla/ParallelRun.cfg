CONSTANTS
  Concurrency = 2
  Settings <- SmallSettings
SPECIFICATION Spec
INVARIANTS TypeOK PassMeansIsolated LedgerSettled FailureIsKept
PROPERTY Decides
CHECK_DEADLOCK FALSE
