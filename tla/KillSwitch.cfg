SPECIFICATION Spec
CONSTANTS
  Tasks = {t1, t2, t3}
  Reasons = {r1, r2}
  None = None
  Callers = {operator, llm}
  Machines = {llm}
  MaxCalls = 3
  MaxFaults = 1
  MaxCrashes = 1
CHECK_DEADLOCK FALSE
INVARIANTS
  MemoryAgreesWithDb
  AuditTellsState
PROPERTIES
  WriterServed
