SPECIFICATION Spec
CONSTANTS
  MaxCalls = 2
  Overlap = TRUE
  Faults = {}
INVARIANTS FileWhole
CHECK_DEADLOCK FALSE
