SPECIFICATION LearningSpec
CONSTANTS
  Resolvers = {r1, r2}
  Horizon = 1
  Lead = 1
  Lag = 1
  PendingLimit = 2
  SampleLimit = 3
  MaxPredictions = 3
  MaxTime = 2
  MaxFaults = 1
  None = None
INVARIANTS
  RowsTypeOK
  MeasuredForward
PROPERTIES
  Learned
