SPECIFICATION Spec
CONSTANTS
  Calls = {c1, c2}
  Retries = 1
  MaxPosts = 2
  MaxLonger = 1
  Budget = 0
  MaxPerHour = 1
INVARIANTS
  TypeOK
  DaySpending
  LoggedOnce
PROPERTIES
  CallEnds
