\* The probe of external features: ports that are taken or shared, rejected
\* settings, crashes, telemetry in flight, and edited evidence.
SPECIFICATION Spec
CONSTANTS
  Suites <- SomeSuites
  Controls <- SomeControls
  Rejections <- SomeRejections
  Bursty <- SomeBursty
  Golden <- SomeGolden
  Requests = 2
  Burst = 2
  MaxTries = 2
  MaxEdits = 1
INVARIANTS
  TypeOK
  OwnAnswers
  OnlyOwnTelemetry
  RejectionIsGenuine
  HonestIsShown
  ShownIsImplied
PROPERTIES
  Ends
CHECK_DEADLOCK FALSE
