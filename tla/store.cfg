SPECIFICATION FairSpec
CONSTANTS
  MaxCalls = 4
  Overlap = FALSE
  Faults = {"crash", "ioError"}
INVARIANTS FileWhole ResolvedIsDurable
PROPERTIES NeverGoesBack SavesSettle
CHECK_DEADLOCK FALSE
