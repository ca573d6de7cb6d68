SPECIFICATION Spec
CONSTANTS
  Problems <- SmallProblems
  Infinity = 1000
INVARIANTS
  NoEntryTwice
  PotentialsBound
  NoRegret
PROPERTIES
  ReturnsBestPairing
