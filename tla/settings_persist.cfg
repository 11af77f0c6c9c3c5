\* One visit of the settings, one save, one restart of the daemon.
SPECIFICATION SetSpec
CONSTANTS
  Fields = {"delay", "retries"}
  Values = {"a", "b"}
  Default = "a"
  MaxOpens = 1
  MaxSaves = 1
  MaxElsewhere = 1
INVARIANTS
  UpdatePersists
CHECK_DEADLOCK FALSE
