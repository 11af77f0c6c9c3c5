\* The daemon, the files beside a workflow's state and the pages of the dashboard, one at a time.
SPECIFICATION PlatformSpec
CONSTANTS
  NodeIds = {"n1", "n2", "n3", "n4"}
  Chats = {"c1", "c2"}
  StartGraphs <- MCStartGraphs
  ChatFaults = {"ioError"}
  SpecIds = {"n1", "n2", "n3"}
  Clarifies = TRUE
  SpecFaults = {"ioError"}
  Clis = {"c1", "c2"}
  Pids = {"p1", "p2", "p3"}
  MaxCommands = 4
  Signals = {"SIGTERM"}
  Untimely = FALSE
  Projects = {"p1", "p2", "p3"}
  Requests = {"r1", "r2"}
  MaxRequests = 3
  MaxDeaths = 1
  Unloadable = {"p3"}
  Sockets = {"s1", "s2"}
  Fetches = {"f1", "f2", "f3"}
  MaxChanges = 2
  MaxOutages = 1
  Remounts = FALSE
  ApiProviders = {"anthropic"}
  CliAgents = {"claude-code"}
  Levels = {"standard"}
  WizActs = 3
  ProjectIds = {"p1", "p2"}
  Calls = {"f1", "f2"}
  MaxAsked = 2
  MaxOthers = 1
  Tokens = {TRUE, FALSE}
  MaxQuestions = 2
  MaxResets = 1
  MaxMounts = 2
  BriefTarget = 1
  Fields = {"delay", "retries"}
  Values = {"a", "b"}
  Default = "a"
  MaxOpens = 2
  MaxSaves = 1
  MaxElsewhere = 1
  Names = {"a", "b"}
  Editors = {"e1", "e2"}
  MaxEdits = 3
  MaxBroken = 1
  MaxUpdates = 2
  MaxExternal = 1
  Reloads = {"r1", "r2"}
  LifeResults = {"done", "failed", "blocked", "rateLimited"}
  MaxLives = 3
  Served = {"p1"}
  Remembered = {"p1"}
  Hooked = {TRUE, FALSE}
  Viewers = {"v1"}
  MaxRegs = 2
  PageNodes = {"n1", "n2"}
  LineLimit = 2
  DrawerLimit = 1
  MaxPages = 2
  MaxClicks = 2
  MaxEmits = 3
  MaxLogged = 2
  ChatActs = 3
  Shells = {"t1", "t2"}
  Scripts = {"t2"}
  WizardProfiles = {"default", "work"}
  MaxAttempts = 2
  MaxGiven = 2
  CardIds = {"p1", "p2"}
  StoreModes = {"daemon", "offline"}
  MaxListChanges = 1
  MaxVisits = 2
  Terminals = {1, 2}
  MaxUses = 3
INVARIANTS
  PlatformTypeOK
  GraphsRun
  EditsAreKept
  ProgressIsTruthful
  OneDaemonIsFound
  
  
  
  
PROPERTIES
  BackgroundGoesOn
CHECK_DEADLOCK FALSE
