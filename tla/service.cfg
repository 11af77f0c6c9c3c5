SPECIFICATION FairSpec
CONSTANTS
  a = a
  b = b
  Nodes = {a, b}
  Preds <- Chain
  MaxFlows = 2
  MaxEngines = 2
  MaxWork = 3
  Events = {"pause", "resume", "crash", "ioError"}
INVARIANTS QuietDiskAgrees
PROPERTIES RunningConcludes StartedOnce
CHECK_DEADLOCK FALSE
