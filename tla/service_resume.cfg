SPECIFICATION Spec
CONSTANTS
  a = a
  b = b
  Nodes = {a, b}
  Preds <- Chain
  MaxFlows = 1
  MaxEngines = 2
  MaxWork = 3
  Events = {"pause", "resume"}
PROPERTIES CompletedNodesSkipped
CHECK_DEADLOCK FALSE
