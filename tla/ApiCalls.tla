------------------------------ MODULE ApiCalls ------------------------------
(***************************************************************************)
(* The daemon's HTTP interface and its callers: what createServer and the  *)
(* read-only routes answer (server.ts, routes/nodes.ts, specs.ts,          *)
(* memory.ts, costs.ts, runtimes.ts, legacy-gone.ts), and what a command   *)
(* of the CLI, a method of the SDK or a page of the dashboard makes of the *)
(* answers to its calls, while the project they are about changes.         *)
(*                                                                         *)
(* A path is the name of what it leads to under its project; an answer's   *)
(* body is the set of things it names.                                     *)
(***************************************************************************)
EXTENDS Naturals, FiniteSets

CONSTANTS
  ApiProjects,   \* projects; calls are about the first of them
  TheProject,    \* that one
  GraphNodes,    \* nodes of its graph, once built
  DocNames,      \* artifacts and memory files it may have
  MaxApiChanges  \* bound: changes at the daemon during a call

\* No project has an empty name, and nothing is named as an answer is summed up here.
ASSUME ApiCallsAssumption ==
  /\ TheProject \in ApiProjects /\ "" \notin ApiProjects /\ MaxApiChanges \in Nat
  /\ {"workflow", "no workflow", "running", "entry", "ok"} \cap (GraphNodes \cup DocNames) = {}

VARIABLES
  apiHost,   \* the daemon: [registered, flow, nodes, finished, reviewed, specs, memory]
  caller,   \* the caller: [cmd, arg, token, pc, open (its requests), got (<<request, answer>>)]
  outcome,  \* its outcome: [exit, of (what it shows)]
  during, \* history: what there has been [ever, always, bare] since the call began
  changes \* the changes so far

apiVars == <<apiHost, caller, outcome, during, changes>>

-----------------------------------------------------------------------------
\* The routes under /projects/:projectId, and the daemon's own.
ProjectRoutes ==
  {<<"GET", p>> : p \in {"workflow", "nodes", "nodes/:id", "nodes/:id/review", "events", "chat/history",
                         "memory", "memory/:name", "costs", "config", "specs", "specs/:name", "mcp"}}
  \cup {<<"POST", p>> : p \in {"workflow/init", "workflow/start", "workflow/pause", "workflow/resume", "chat"}}
  \cup {<<m, p>> : m \in {"PUT"}, p \in {"config", "mcp/:name"}} \cup {<<"DELETE", "mcp/:name">>}
DaemonRoutes ==
  {<<"GET", p>> : p \in {"health", "daemon/status", "runtimes", "runtimes/availability",
                         "runtimes/:name/availability", "runtimes/:name/models", "credentials",
                         "projects", "projects/:id"}}
  \cup {<<"PUT", "credentials/:name">>, <<"DELETE", "credentials/:name">>, <<"POST", "projects">>,
        <<"DELETE", "projects/:id">>, <<"POST", "shutdown">>}
\* Those of version 0.1, which answer where they have gone.
GoneRoutes ==
  {<<"POST", p>> : p \in {"workflow/init", "workflow/start", "workflow/pause", "workflow/resume",
                          "workflow/stop", "chat"}}
  \cup {<<"GET", p>> : p \in {"workflow", "events", "nodes", "config"}}

\* The calls of the dashboard's ApiClient, of the CLI's commands, and of the SDK's client, which
\* knows of no projects.
PageDaemonCalls ==
  {<<"GET", p>> : p \in {"health", "daemon/status", "runtimes", "runtimes/availability",
                         "runtimes/:name/availability", "runtimes/:name/models", "credentials",
                         "projects", "projects/:id"}}
  \cup {<<"PUT", "credentials/:name">>, <<"DELETE", "credentials/:name">>, <<"POST", "projects">>,
        <<"DELETE", "projects/:id">>}
PageWorkflowCalls ==
  {<<"GET", "workflow">>, <<"GET", "events">>}
  \cup {<<"POST", p>> : p \in {"workflow/init", "workflow/start", "workflow/pause", "workflow/resume"}}
PageProjectCalls ==
  {<<"GET", p>> : p \in {"chat/history", "nodes", "nodes/:id", "nodes/:id/review", "memory",
                         "memory/:name", "costs", "config", "specs", "specs/:name", "mcp"}}
  \cup {<<"POST", "chat">>, <<"PUT", "config">>, <<"PUT", "mcp/:name">>, <<"DELETE", "mcp/:name">>}
CliCalls ==
  {<<"GET", p>> : p \in {"workflow", "costs", "nodes", "nodes/:id", "events"}}
  \cup {<<"POST", p>> : p \in {"chat", "workflow/init", "workflow/start", "workflow/resume", "workflow/stop"}}
SdkCalls ==
  {<<"GET", p>> : p \in {"workflow", "chat/history", "nodes", "nodes/:id", "specs", "specs/:name",
                         "costs", "config", "events"}}
  \cup {<<"POST", p>> : p \in {"workflow/init", "workflow/start", "workflow/pause", "workflow/resume", "chat"}}
  \cup {<<"PUT", "config">>}

\* Who calls what is there: all that the dashboard calls; of the CLI's calls one is not, the one
\* that a moved route names as its new place; of the SDK's none, and half do not say they moved.
ASSUME CallsAreServed ==
  /\ PageDaemonCalls \subseteq DaemonRoutes
  /\ PageWorkflowCalls \cup PageProjectCalls \subseteq ProjectRoutes
  /\ CliCalls \ ProjectRoutes = {<<"POST", "workflow/stop">>}
  /\ GoneRoutes \ ProjectRoutes = {<<"POST", "workflow/stop">>}
  /\ SdkCalls \cap DaemonRoutes = {} /\ SdkCalls \ GoneRoutes # {}

-----------------------------------------------------------------------------
Request(scope, call, arg, json) == [scope |-> scope, call |-> call, arg |-> arg, json |-> json]
Answer(status, body) == [status |-> status, body |-> body]
Scoped(call, arg) == Request(TheProject, call, arg, FALSE)

\* The routes' handlers.
NodesAnswer(d, r) ==
  IF r.call[2] = "nodes" THEN Answer(200, {<<n, n \in d.finished>> : n \in d.nodes})
  ELSE IF r.arg \in d.nodes /\ (r.call[2] = "nodes/:id/review" => r.arg \in d.reviewed) THEN Answer(200, {r.arg})
  ELSE Answer(404, {})
SpecsAnswer(d, r) ==
  IF r.call[2] = "specs" THEN Answer(200, d.specs)
  ELSE IF r.arg \in d.specs THEN Answer(200, {r.arg}) ELSE Answer(404, {})
MemoryAnswer(d, r) ==  \* with or without a workflow
  IF r.call[2] = "memory" THEN Answer(200, d.memory)
  ELSE IF r.arg \in d.memory THEN Answer(200, {r.arg}) ELSE Answer(404, {})
CostsAnswer(d) == Answer(200, d.nodes)
OthersAnswer(d, r) ==
  CASE r.call = <<"GET", "workflow">> -> Answer(200, {"workflow"})
    [] r.call = <<"POST", "workflow/resume">> -> Answer(200, {"running"})
    [] r.call[2] \in {"chat", "events"} -> Answer(200, {"entry"})

\* makeProjectRuntimeHook, then the handler; all but events, memory and config need a workflow.
ProjectAnswer(d, r) ==
  IF r.scope \notin d.registered THEN Answer(404, {})
  ELSE IF r.scope # TheProject THEN Answer(404, {})  \* one without a workflow
  ELSE IF r.call[2] \in {"memory", "memory/:name"} THEN MemoryAnswer(d, r)
  ELSE IF r.call[2] = "events" THEN OthersAnswer(d, r)
  ELSE IF ~d.flow THEN Answer(404, {})
  ELSE IF r.call[2] \in {"nodes", "nodes/:id", "nodes/:id/review"} THEN NodesAnswer(d, r)
  ELSE IF r.call[2] \in {"specs", "specs/:name"} THEN SpecsAnswer(d, r)
  ELSE IF r.call[2] = "costs" THEN CostsAnswer(d)
  ELSE OthersAnswer(d, r)

\* Fastify refuses an empty body that is said to be JSON; a GET's content type says nothing.
EmptyJson(r) == r.json /\ r.call[1] # "GET"

\* createServer: authorisation, the body, which is read for a route that is not there too, the hook of
\* the project's routes, and the handler.
Serve(d, r, token) ==
  IF r.call = <<"GET", "health">> /\ r.scope = "" THEN Answer(200, {"ok"})
  ELSE IF ~token THEN Answer(401, {})
  ELSE IF EmptyJson(r) THEN Answer(400, {})
  ELSE IF r.scope = "" /\ r.call \in GoneRoutes THEN Answer(410, {})
  ELSE IF r.scope = "" /\ r.call = <<"GET", "projects">> THEN Answer(200, d.registered)
  ELSE IF r.scope = "" \/ r.call \notin ProjectRoutes THEN Answer(404, {})
  ELSE ProjectAnswer(d, r)

-----------------------------------------------------------------------------
\* The commands of the CLI, methods of the SDK and of the dashboard's client, and the calls each begins with.
CliCommands == {"status", "nodes", "nodes --all", "inspect", "inspect --json", "logs", "ps", "tree",
                "tree --json", "chat", "resume", "stop"}
SdkMethods == {"getWorkflow", "getNodes", "getSpecs", "health"}
ClientMethods == {"listSpecs", "readSpec", "listMemory", "readMemory", "getReview"}

FirstCalls(u) ==
  CASE u.cmd = "status" -> {Request(TheProject, <<"GET", p>>, "", TRUE) : p \in {"workflow", "costs", "nodes"}}
    [] u.cmd \in {"nodes", "nodes --all"} -> {Scoped(<<"GET", "nodes">>, "")}
    [] u.cmd \in {"inspect", "inspect --json"} -> {Scoped(<<"GET", "nodes/:id">>, u.arg)}
    [] u.cmd = "logs" -> {Request(TheProject, <<"GET", "events">>, "", TRUE)}
    [] u.cmd = "ps" -> {Request("", <<"GET", "projects">>, "", FALSE)}
    [] u.cmd \in {"tree", "tree --json"} -> {Scoped(<<"GET", "workflow">>, "")}
    [] u.cmd = "chat" -> {Scoped(<<"POST", "chat">>, "message")}
    [] u.cmd = "resume" -> {Request(TheProject, <<"POST", "workflow/resume">>, "", TRUE)}
    [] u.cmd = "stop" -> {Request(TheProject, <<"POST", "workflow/stop">>, "", TRUE)}
    [] u.cmd = "listSpecs" -> {Scoped(<<"GET", "specs">>, "")}
    [] u.cmd = "readSpec" -> {Scoped(<<"GET", "specs/:name">>, u.arg)}
    [] u.cmd = "listMemory" -> {Scoped(<<"GET", "memory">>, "")}
    [] u.cmd = "readMemory" -> {Scoped(<<"GET", "memory/:name">>, u.arg)}
    [] u.cmd = "getReview" -> {Scoped(<<"GET", "nodes/:id/review">>, u.arg)}
    [] u.cmd = "getWorkflow" -> {Request("", <<"GET", "workflow">>, "", FALSE)}
    [] u.cmd = "getNodes" -> {Request("", <<"GET", "nodes">>, "", FALSE)}
    [] u.cmd = "getSpecs" -> {Request("", <<"GET", "specs">>, "", FALSE)}
    [] u.cmd = "health" -> {Request("", <<"GET", "health">>, "", FALSE)}

\* `loomflo ps` goes on with the workflow of every project it was told of.
Got(u, what) == (CHOOSE a \in u.got : a[1].call[2] = what)[2]
FetchProjectsRuntime(u) ==
  IF Got(u, "projects").status # 200 THEN {}
  ELSE {Request(p, <<"GET", "workflow">>, "", FALSE) : p \in Got(u, "projects").body}
NextCalls(u) == IF u.cmd = "ps" THEN FetchProjectsRuntime(u) ELSE {}

Shows(of) == [exit |-> 0, of |-> of]
GivesUp == [exit |-> 1, of |-> {}]

NodesNamed(rows) == {n[1] : n \in rows}

\* `loomflo status`: a 404 of the workflow is that there is none; what else is missing is left out.
StatusOutcome(u) ==
  IF Got(u, "workflow").status = 200 THEN Shows({"workflow"} \cup NodesNamed(Got(u, "nodes").body))
  ELSE IF Got(u, "workflow").status = 404 THEN Shows({"no workflow"})
  ELSE GivesUp

\* `loomflo nodes`: finished nodes are left out unless all are asked for.
NodesOutcome(u) ==
  IF Got(u, "nodes").status = 200
  THEN Shows(NodesNamed({m \in Got(u, "nodes").body : u.cmd = "nodes" => ~m[2]}))
  ELSE IF Got(u, "nodes").status = 404 THEN Shows({})
  ELSE GivesUp

\* `loomflo inspect` goes through fileOwnership as if it were a list, which throws.
InspectOutcome(u) ==
  IF Got(u, "nodes/:id").status = 200 /\ u.cmd = "inspect --json" THEN Shows({u.arg}) ELSE GivesUp

\* `loomflo tree` filters the graph's topology, which the daemon gives as a word.
TreeOutcome(u) ==
  IF Got(u, "workflow").status = 200 /\ u.cmd = "tree --json" THEN Shows({"workflow"}) ELSE GivesUp

\* `loomflo ps`: a row for each project of the list; "unknown" is a workflow that was not answered.
PsOutcome(u) ==
  IF Got(u, "projects").status # 200 THEN GivesUp
  ELSE Shows({<<p, IF \E a \in u.got : a[1].scope = p /\ a[2].status = 200 THEN "workflow" ELSE "unknown">> :
                p \in Got(u, "projects").body})

\* The commands and methods that end in one call.
OneCallOutcome(u) ==
  LET a == (CHOOSE x \in u.got : TRUE)[2] IN IF a.status = 200 THEN Shows(a.body) ELSE GivesUp

\* getWorkflow of the SDK takes a 404 for none; its other methods throw what is not ok.
SdkOutcome(u) ==
  IF u.cmd = "getWorkflow" /\ Got(u, "workflow").status = 404 THEN Shows({"no workflow"})
  ELSE OneCallOutcome(u)

Outcome(u) ==
  CASE u.cmd = "status" -> StatusOutcome(u)
    [] u.cmd \in {"nodes", "nodes --all"} -> NodesOutcome(u)
    [] u.cmd \in {"inspect", "inspect --json"} -> InspectOutcome(u)
    [] u.cmd \in {"tree", "tree --json"} -> TreeOutcome(u)
    [] u.cmd = "ps" -> PsOutcome(u)
    [] u.cmd \in {"logs", "chat", "resume", "stop"} \cup ClientMethods -> OneCallOutcome(u)
    [] u.cmd \in SdkMethods -> SdkOutcome(u)

-----------------------------------------------------------------------------
OfKind(kind, S) == {<<kind, x>> : x \in S}
There(d) ==
  OfKind("project", d.registered)
  \cup IF TheProject \notin d.registered THEN {}
       ELSE OfKind("node", d.nodes) \cup OfKind("spec", d.specs) \cup OfKind("memory", d.memory)
Bare(d) == TheProject \notin d.registered \/ ~d.flow
NoUser == [cmd |-> "none", arg |-> "", token |-> TRUE, pc |-> "idle", open |-> {}, got |-> {}]

ApiTypeOK ==
  /\ apiHost \in [registered : SUBSET ApiProjects, flow : BOOLEAN, nodes : SUBSET GraphNodes,
               finished : SUBSET GraphNodes, reviewed : SUBSET GraphNodes,
               specs : SUBSET DocNames, memory : SUBSET DocNames]
  /\ caller.cmd \in {"none"} \cup CliCommands \cup SdkMethods \cup ClientMethods
  /\ caller.pc \in {"idle", "first", "next", "done"}
  /\ \A a \in caller.got : a[2].status \in {200, 400, 401, 404, 410}
  /\ outcome.exit \in {0, 1} /\ changes \in 0 .. MaxApiChanges

ApiStart ==
  /\ caller = NoUser /\ outcome = Shows({}) /\ changes = 0
  /\ during = [ever |-> {}, always |-> {}, bare |-> FALSE]

ApiInit ==
  /\ apiHost \in [registered : {ApiProjects}, flow : BOOLEAN, nodes : {{}, GraphNodes},
               finished : {{}}, reviewed : {{}}, specs : {{}, DocNames}, memory : {{}, DocNames}]
  /\ ~apiHost.flow => apiHost.nodes = {} /\ apiHost.specs = {}
  /\ ApiStart

\* The daemon's side goes on: projects come and go, a workflow is set up, its graph is built, its
\* nodes finish and are reviewed, documents are written.  A project that comes back is as it was.
Becomes(d) ==
  /\ changes < MaxApiChanges /\ changes' = changes + 1 /\ apiHost' = d /\ d # apiHost
  /\ during' = [ever |-> during.ever \cup There(d), always |-> during.always \cap There(d),
                bare |-> during.bare \/ Bare(d)]
  /\ UNCHANGED <<caller, outcome>>
ProjectComesOrGoes(p) ==
  Becomes([apiHost EXCEPT !.registered = IF p \in @ THEN @ \ {p} ELSE @ \cup {p}])
WorkflowGoesOn ==
  /\ TheProject \in apiHost.registered
  /\ \/ ~apiHost.flow /\ Becomes([apiHost EXCEPT !.flow = TRUE])
     \/ apiHost.flow /\ apiHost.nodes = {} /\ Becomes([apiHost EXCEPT !.nodes = GraphNodes])
     \/ \E n \in apiHost.nodes : Becomes([apiHost EXCEPT !.finished = @ \cup {n}, !.reviewed = @ \cup {n}])
     \/ apiHost.flow /\ \E n \in DocNames : Becomes([apiHost EXCEPT !.specs = @ \cup {n}])
     \/ \E n \in DocNames : Becomes([apiHost EXCEPT !.memory = @ \cup {n}])

\* What is asked for by name.
ArgsOf(cmd) == CASE cmd \in {"inspect", "inspect --json", "getReview"} -> GraphNodes
                 [] cmd \in {"readSpec", "readMemory"} -> DocNames
                 [] OTHER -> {""}

\* A caller begins, with the token of this daemon or that of an earlier one.
Begins(cmd, arg, token) ==
  /\ caller.pc = "idle"
  /\ caller' = [cmd |-> cmd, arg |-> arg, token |-> token, pc |-> "first",
              open |-> FirstCalls([NoUser EXCEPT !.cmd = cmd, !.arg = arg]), got |-> {}]
  /\ during' = [ever |-> There(apiHost), always |-> There(apiHost), bare |-> Bare(apiHost)]
  /\ UNCHANGED <<apiHost, outcome, changes>>

\* One of its requests is answered; those of one stage are sent together.
IsServed(r) ==
  /\ r \in caller.open
  /\ caller' = [caller EXCEPT !.open = @ \ {r}, !.got = @ \cup {<<r, Serve(apiHost, r, caller.token)>>}]
  /\ UNCHANGED <<apiHost, outcome, during, changes>>

GoesOn ==
  /\ caller.pc = "first" /\ caller.open = {} /\ NextCalls(caller) # {}
  /\ caller' = [caller EXCEPT !.pc = "next", !.open = NextCalls(caller)]
  /\ UNCHANGED <<apiHost, outcome, during, changes>>
Ends ==
  /\ caller.open = {} /\ (caller.pc = "next" \/ (caller.pc = "first" /\ NextCalls(caller) = {}))
  /\ caller' = [caller EXCEPT !.pc = "done"] /\ outcome' = Outcome(caller)
  /\ UNCHANGED <<apiHost, during, changes>>

ApiNext ==
  \/ WorkflowGoesOn \/ GoesOn \/ Ends
  \/ \E p \in ApiProjects : ProjectComesOrGoes(p)
  \/ \E cmd \in CliCommands \cup SdkMethods \cup ClientMethods, token \in BOOLEAN :
       \E arg \in ArgsOf(cmd) : Begins(cmd, arg, token)
  \/ \E r \in caller.open : IsServed(r)

ApiSpec == ApiInit /\ [][ApiNext]_apiVars

-----------------------------------------------------------------------------
\* What a caller that ended well shows was there while it asked, and what was there all the time it
\* shows: every node, artifact, memory file or project it lists.  It says that there is no workflow
\* only when at some time there was none, or no such project.  With the right token, on a project
\* that has its workflow, nothing fails but the four commands that always do and a node or a
\* document that is not there; the SDK can ask this daemon for its health and nothing else.
Lists == CASE caller.cmd = "ps" -> OfKind("project", ApiProjects)
           [] caller.cmd \in {"nodes --all", "status"} -> OfKind("node", GraphNodes)
           [] caller.cmd = "listSpecs" -> OfKind("spec", DocNames)
           [] caller.cmd = "listMemory" -> OfKind("memory", DocNames)
           [] OTHER -> {}
Listed == CASE caller.cmd = "ps" -> OfKind("project", {row[1] : row \in outcome.of})
            [] caller.cmd \in {"listSpecs", "readSpec"} -> OfKind("spec", outcome.of)
            [] caller.cmd \in {"listMemory", "readMemory"} -> OfKind("memory", outcome.of)
            [] OTHER -> OfKind("node", outcome.of \cap GraphNodes)
WasAsked == CASE caller.cmd \in {"inspect", "inspect --json"} -> {<<"node", caller.arg>>}
           [] caller.cmd = "readSpec" -> {<<"spec", caller.arg>>}
           [] caller.cmd = "readMemory" -> {<<"memory", caller.arg>>}
           [] OTHER -> {}
CallersAreAnswered ==
  caller.pc = "done" =>
    /\ outcome.exit = 0 => Listed \subseteq during.ever
    /\ outcome.exit = 0 => during.always \cap Lists \subseteq Listed
    /\ caller.cmd = "nodes" /\ outcome.exit = 0 =>
         during.always \cap OfKind("node", GraphNodes \ apiHost.finished) \subseteq Listed
    /\ caller.cmd # "ps" /\ "no workflow" \in outcome.of => during.bare
    /\ caller.cmd = "ps" => \A row \in outcome.of : row = <<TheProject, "unknown">> => during.bare
    /\ outcome.exit = 0 => caller.token \/ caller.cmd = "health"
    /\ caller.cmd \in SdkMethods => (outcome.exit = 0 <=> caller.cmd = "health")
    /\ outcome.exit = 0 => caller.cmd \notin {"inspect", "tree", "resume", "stop"}
    /\ outcome.exit = 1 /\ caller.token /\ ~during.bare /\ WasAsked \subseteq during.always =>
         caller.cmd \in {"inspect", "tree", "resume", "stop", "getReview"} \cup SdkMethods

=============================================================================
