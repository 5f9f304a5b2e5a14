SPECIFICATION Spec
CONSTANTS
  Handlers = {h1, h2}
  Consumers = {c1, c2}
  None = None
  BatchSize = 2
  MaxEvents = 3
  MaxStops = 1
  MaxCrashes = 1
CHECK_DEADLOCK FALSE
INVARIANTS
  DrainedBeforeCancel
PROPERTIES
  Delivers
  EventTaken
