SPECIFICATION FairSpec
CONSTANTS
  a = a
  b = b
  c = c
  d = d
  Nodes = {a, b, c}
  Preds <- Chain
  Delay <- DefaultDelays
  MaxAttempts = 1
  Resumed = FALSE
  Faults = {}
PROPERTIES RunEnds
CHECK_DEADLOCK FALSE
