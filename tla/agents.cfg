\* The parts of MCAgents, one at a time: the work on one node, and what asks the daemon of it.
SPECIFICATION AgentsSpec
CONSTANTS
  Workers = {"w1", "w2"}
  Loomi = "loomi"
  MaxRetries = 2
  MaxTaskRetries = 1
  MaxIterations = 2
  TeamConfigs <- MCTeamConfigs
  TeamFaults = {"ioError"}
  BusAgents = {"w1", "w2", "loomi"}
  MaxLog = 2
  MaxCost = 3
  CostCaps = {0, 2}
  SessionFaults = {"throwsAtOnce", "abortRejects"}
  Agents = {"w1", "w2"}
  Globs <- MCGlobs
  Files <- MCFiles
  LockIds = {"l1"}
  MaxDuration = 2
  MaxWrites = 2
  MaxEntries = 2
  MaxStarts = 2
  Loomas = {"x1"}
  Loomexes = {"y1"}
  Tasks = {"t1"}
  RunFaults = {"events"}
  EscIds = {"e1", "e2"}
  EscNodes = {"n1"}
  NewNodes = {"n3"}
  Handlers = {"manager", "loom", "monitor"}
  EscFaults = {"provider", "files"}
  TimedNodes = {"n1","n2"}
  Delays = {0, 1, 4}
  MaxTimeout = 3
  MaxClock = 3
  BucketSize = 1
  CallUnits = 3
  Refill = 2
  CallIds = {"c1", "c2"}
  Profiles = {"anthropic-oauth", "openai"}
  Environments = {{}, {"ANTHROPIC_API_KEY"}}
  MaxCallRetries = 1
  MaxRefreshes = 1
  Statuses = {429, 503}
  BudgetLimit = 1
  ObjNodes = {"m1", "m2", "m3"}
  Declared = {"m1", "m2"}
  ObjAgents = {"p"}
  ObjMaxRetries = 1
  MaxObjActs = 3
  SessNodes = {"s1", "s2"}
  Areas = {"src", "lib"}
  SessKinds <- MCSessKinds
  MaxSessActs = 1
  Listeners = {"h1", "h2"}
  WatchedIds = {"p", "q"}
  MaxSockets = 2
  MaxRestarts = 1
  MaxRevision = 1
  MaxClientActs = 4
  \* ApiCalls: two projects, a graph of two nodes, one document, and two changes during a call
  ApiProjects = {"p1", "p2"}
  TheProject = "p1"
  GraphNodes = {"n1", "n2"}
  DocNames = {"d1"}
  MaxApiChanges = 2
INVARIANTS
  AgentsTypeOK
  CompletedIsEarned
  RetriesUsedUp
  EscalationJustified
  DeliveredOnceInOrder
  WritersAreExclusive
  
  
PROPERTIES
  
  EditsLoseNothing
CHECK_DEADLOCK FALSE
