SPECIFICATION Spec
CONSTANTS
  Calls = {c1, c2}
  Attempts = 2
  Capacity = 1
  Threshold = 3
  ResetTime = 2
INVARIANTS
  TypeOK
  OpenMeansFailing
  FailuresBounded
PROPERTIES
  CallEnds
  CircuitReset
