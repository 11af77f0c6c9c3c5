------------------------------- MODULE MCAgents -------------------------------
(***************************************************************************)
(* What works on one node, for TLC: its team (NodeTeam), the bus the team  *)
(* talks over (MessageBus), the runs of single agents (AgentRuns), their   *)
(* escalations (Escalations), the ownership of files (FileOwnership), the  *)
(* tools that write files and the shared memory (WorkspaceTools), the      *)
(* sessions of the other runtimes and their tools (SessionTools), the      *)
(* calls of the providers (ProviderCalls), the timers of delays and costs  *)
(* (Timers) and the objects that hold the workflow (WorkflowObject); and   *)
(* what asks the daemon of them: its clients over sockets (EventClients)   *)
(* and over HTTP (ApiCalls). They share no variable, so a behaviour of     *)
(* their product is one of each; a behaviour here is one of the part it    *)
(* runs, while the others are at rest.                                     *)
(***************************************************************************)
EXTENDS NodeTeam, MessageBus, AgentRuns, Escalations, FileOwnership, WorkspaceTools,
        SessionTools, ProviderCalls, Timers, WorkflowObject, EventClients, ApiCalls

VARIABLE part  \* the part this behaviour runs

agentVars == <<part, teamVars, busVars, sessionVars, ownVars, toolVars, runsVars, escVars, timerVars,
               callVars, objectVars, sessToolVars, eventVars, apiVars>>

TeamRests ==
  /\ cfg = CHOOSE c \in TeamConfigs : TRUE
  /\ teamPc = "returned" /\ result = NoResult
  /\ team = {} /\ activePlans = {} /\ permanent = {} /\ completed = {} /\ failed = {}
  /\ retryCount = 0 /\ registered = {} /\ verdict = NoVerdict
  /\ taskRetries = [w \in Workers |-> 0] /\ runs = [w \in Workers |-> 0]
  /\ agent = [w \in Workers |-> Idle]
  /\ report = [w \in Workers |-> "none"] /\ lastReport = [w \in Workers |-> "none"]

SessionRests ==
  /\ runtime = "mock" /\ cap = (CHOOSE c \in CostCaps : TRUE) /\ session = "completed"
  /\ aborted = FALSE /\ overCap = FALSE /\ spent = 0 /\ counted = 0
  /\ disposal = "done" /\ nodeResult = "done"

ToolsRest ==
  /\ writeScope = [a \in Agents |-> {}]
  /\ content = [f \in Files |-> 0]
  /\ editing = [a \in Agents |-> NotEditing]
  /\ memory = NoMemory /\ init = "done" /\ mutex = "free" /\ recorded = {} /\ starts = 1

EscalationsRest ==
  /\ handler = [e \in EscIds |-> CHOOSE h \in Handlers : TRUE]
  /\ subject = [e \in EscIds |-> CHOOSE n \in EscNodes : TRUE]
  /\ EscStarts

CallsRest ==
  /\ profile = CHOOSE p \in Profiles : TRUE
  /\ environ = CHOOSE e \in Environments : TRUE
  /\ CallsStart

SessToolsRest ==
  /\ node = [n \in SessNodes |-> CHOOSE k \in SessKinds[n] : TRUE]
  /\ keys = {}
  /\ SessToolsStart

EventsRest == asker = [kind |-> "sdk", ids |-> {}] /\ EventsStart

ApiRest ==
  /\ apiHost = [registered |-> ApiProjects, flow |-> FALSE, nodes |-> {}, finished |-> {}, reviewed |-> {},
              specs |-> {}, memory |-> {}]
  /\ ApiStart

\* There is something for a part to be at rest with.
ASSUME PartsCanRest ==
  /\ TeamConfigs # {} /\ Handlers # {} /\ EscNodes # {} /\ Profiles # {} /\ Environments # {}
  /\ \A n \in SessNodes : SessKinds[n] # {}

AgentsInit ==
  /\ part \in {"team", "bus", "session", "ownership", "tools", "runs", "escalations", "timers",
               "calls", "objects", "sessTools", "eventClients", "apiCalls"}
  /\ IF part = "team"         THEN TeamInit      ELSE TeamRests
  /\ IF part = "session"      THEN SessionInit   ELSE SessionRests
  /\ IF part = "tools"        THEN ToolsInit     ELSE ToolsRest
  /\ IF part = "escalations"  THEN EscInit       ELSE EscalationsRest
  /\ IF part = "calls"        THEN CallInit      ELSE CallsRest
  /\ IF part = "sessTools"    THEN SessToolsInit ELSE SessToolsRest
  /\ IF part = "eventClients" THEN EventsInit    ELSE EventsRest
  /\ IF part = "apiCalls"     THEN ApiInit       ELSE ApiRest
  /\ BusInit /\ OwnInit /\ RunInit /\ TimerInit /\ ObjectInit

AgentsNext ==
  /\ UNCHANGED part
  /\ \/ part = "team"         /\ TeamNext
     \/ part = "bus"          /\ BusNext
     \/ part = "session"      /\ SessionNext
     \/ part = "ownership"    /\ OwnNext
     \/ part = "tools"        /\ ToolsNext
     \/ part = "runs"         /\ RunNext
     \/ part = "escalations"  /\ EscNext
     \/ part = "timers"       /\ TimerNext
     \/ part = "calls"        /\ CallNext
     \/ part = "objects"      /\ ObjectNext
     \/ part = "sessTools"    /\ SessToolsNext
     \/ part = "eventClients" /\ EventsNext
     \/ part = "apiCalls"     /\ ApiNext
  /\ part = "team" \/ UNCHANGED teamVars
  /\ part = "bus" \/ UNCHANGED busVars
  /\ part = "session" \/ UNCHANGED sessionVars
  /\ part = "ownership" \/ UNCHANGED ownVars
  /\ part = "tools" \/ UNCHANGED toolVars
  /\ part = "runs" \/ UNCHANGED runsVars
  /\ part = "escalations" \/ UNCHANGED escVars
  /\ part = "timers" \/ UNCHANGED timerVars
  /\ part = "calls" \/ UNCHANGED callVars
  /\ part = "objects" \/ UNCHANGED objectVars
  /\ part = "sessTools" \/ UNCHANGED sessToolVars
  /\ part = "eventClients" \/ UNCHANGED eventVars
  /\ part = "apiCalls" \/ UNCHANGED apiVars

AgentsSpec ==
  AgentsInit /\ [][AgentsNext]_agentVars /\ TeamFairness /\ SessionFairness

-----------------------------------------------------------------------------
\* The types of every part: counters within their limits, lists and maps over known names.
AgentsTypeOK ==
  /\ TeamTypeOK /\ BusTypeOK /\ SessionTypeOK /\ OwnTypeOK /\ ToolsTypeOK /\ RunTypeOK /\ EscTypeOK
  /\ TimerTypeOK /\ CallTypeOK /\ ObjectTypeOK /\ SessToolsTypeOK /\ EventsTypeOK /\ ApiTypeOK

\* A node's work ends: its orchestrator returns with nobody left on the bus, and its runtime
\* session is answered and paid for.
NodeWorkEnds == NodeEnds /\ NodeIsAnswered

\* What the agents do is accounted for: their reviews fail safe, their runs leave nothing behind,
\* the changes they ask of the graph are traced, a delay ends once and never early, a call of a
\* provider is repeated only for a reason, the objects and the file of a workflow agree once saved,
\* a session has no more than its role's tools, and whoever asks the daemon is told what is so.
RunsAreAccounted ==
  /\ ReviewFailsSafe /\ RunsAreClosed /\ ChangesAreTraced /\ TimersAreTrue /\ CallsAreJustified
  /\ ObjectIsTrue /\ SessionsStayInside /\ ClientsAreTold /\ CallersAreAnswered

MCTeamConfigs ==
  {[review |-> TRUE,  oauth |-> TRUE,  delay |-> "ok"],
   [review |-> FALSE, oauth |-> FALSE, delay |-> "ok"],
   [review |-> FALSE, oauth |-> FALSE, delay |-> "invalid"]}

MCKind(rt, role, own, others) == [runtime |-> rt, role |-> role, own |-> own, others |-> others]
MCSessKinds ==
  [s1 |-> {MCKind("mock", "loomi", {}, {}), MCKind("loomi-native", "loomi", {}, {}),
           MCKind("claude-agent", "loomi", {}, {}), MCKind("claude-agent", "loomex", {}, {}),
           MCKind("claude-agent", "looma", {"src"}, {"lib"}), MCKind("copilot", "looma", {}, {"lib"})},
   s2 |-> {MCKind("copilot", "loomi", {}, {}), MCKind("copilot", "looma", {}, {}),
           MCKind("copilot", "loomex", {}, {})}]

MCGlobs ==
  {<<"src", "**">>, <<"src", "*">>, <<"src", "utils", "**">>, <<"src", "utils", "*">>,
   <<"src", "x">>, <<"lib", "*">>}
MCFiles ==
  {<<"src", "x">>, <<"src", "utils", "x">>, <<"src", "utils", "test.file">>, <<"lib", "x">>}

\* These globs and files are such that scopes validateFileScopes accepts share no file, as
\* EditsLoseNothingHolds and WritersAreExclusiveHolds ask.
ASSUME AcceptedScopesSeparate == GlobsSeparate

=============================================================================
