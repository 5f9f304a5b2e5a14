SPECIFICATION Spec
CONSTANTS
  MaxCrashes = 2
  Never = Never
INVARIANTS
  AskedByMorning
PROPERTIES
  AskedEventually
