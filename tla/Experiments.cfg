SPECIFICATION Spec
CONSTANTS
  Cases = {"default-service", "resource", "span-batch", "log-batch", "request-headers",
           "propagation-none", "disabled", "sampler", "span-length", "attribute-length",
           "log-length", "attribute-count", "event-attributes", "log-count", "events",
           "exemplars", "exemplars-always-on", "histogram"}
  Baselines <- MCBaselines
  Probes = 2
  Limit = 8
  MaxDefects = 2
INVARIANTS
  TypeOK
  ObedienceIsSeen
  DisregardIsSeen
  PassIsEvidence
CHECK_DEADLOCK FALSE
