SPECIFICATION FairSpec
CONSTANTS
  a = a
  b = b
  c = c
  d = d
  Nodes = {a, b, c, d}
  Preds <- Diamond
  Delay <- NoDelays
  MaxAttempts = 2
  Resumed = FALSE
  Faults = {"stop", "budget"}
INVARIANTS TypeOK ResultLists NoOrphans LoopNeverSpins
PROPERTIES BudgetFreezesDispatch RunEnds ProviderWaitEnds
CHECK_DEADLOCK FALSE
