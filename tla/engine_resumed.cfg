SPECIFICATION Spec
CONSTANTS
  a = a
  b = b
  c = c
  d = d
  Nodes = {a, b, c, d}
  Preds <- Zigzag
  Delay <- MixedDelays
  MaxAttempts = 2
  Resumed = TRUE
  Faults = {"ioError", "stop", "budget"}
INVARIANTS DependencyOrder VerdictTruthful ExhaustionJustified
PROPERTIES TerminalIsFinal StopFreezesDispatch ImplementsDag
CHECK_DEADLOCK FALSE
