---------------------------- MODULE DaemonServer ----------------------------
(***************************************************************************)
(* One daemon from its start to its end (core daemon.ts, daemon-entry.ts,  *)
(* api/server.ts): start() listens, loads the projects of the last session *)
(* and only then publishes its token in daemon.json; requests take a       *)
(* runtime and keep it; pages connect; stop(), for a signal, and           *)
(* gracefulShutdown(), for POST /shutdown, take everything down, the one   *)
(* beside the other if need be.                                            *)
(*                                                                         *)
(* A runtime is the number of its registration.  The registry's own races  *)
(* are those of ProjectsRegistry, an engine's steps those of               *)
(* WorkflowService: here an engine runs, drains what is in flight, or is   *)
(* interrupted.  A second signal repeats the steps of the first.           *)
(***************************************************************************)
EXTENDS Naturals, FiniteSets

CONSTANTS
  Served,     \* ids of projects
  Remembered, \* those in projects.json when the daemon starts
  Hooked,     \* whether shutdown hooks are set: a set of cases
  Viewers,    \* WebSocket clients
  MaxRegs     \* bound on the registrations

ASSUME ServerAssumption ==
  /\ Remembered \subseteq Served /\ Hooked \subseteq BOOLEAN
  /\ MaxRegs \in Nat /\ Cardinality(Remembered) <= MaxRegs /\ (Served = {} => MaxRegs = 0)

Runtimes == 1 .. MaxRegs

VARIABLES
  hooked,    \* the case: shutdownHooks # null
  server,    \* "open" or "closed"
  toReload,  \* the persisted projects start() has still to register
  info,      \* daemon.json is there
  token,     \* somebody may have read the token in it
  up,        \* the process
  runtimeOf, \* projects: the runtime of each, or 0
  regs,      \* registrations so far
  ownerOf,   \* the project of each runtime
  engines,   \* of each runtime: "none", "running", "draining" or "interrupted"
  handlers,  \* the runtimes requests under way have taken
  graceful,  \* the step of gracefulShutdown()
  left,      \* the runtimes shutdownOneProject() is still busy with
  stopping,  \* the step of stop()
  viewers,   \* the clients connected
  detached   \* history: the runtimes removed while something held them

processVars == <<hooked, server, toReload, info, token, up>>
runtimeVars == <<runtimeOf, regs, ownerOf>>
shutVars == <<graceful, left, stopping>>
srvVars == <<processVars, runtimeVars, shutVars, viewers, engines, handlers, detached>>

Steps4 == {"none", "flushing", "closing", "removing"}

SrvTypeOK ==
  /\ {hooked, info, token, up} \subseteq BOOLEAN /\ server \in {"open", "closed"}
  /\ toReload \subseteq Served /\ regs \in 0 .. MaxRegs
  /\ runtimeOf \in [Served -> {0} \cup Runtimes] /\ ownerOf \in [Runtimes -> Served]
  /\ engines \in [Runtimes -> {"none", "running", "draining", "interrupted"}]
  /\ {handlers, left, detached} \subseteq SUBSET Runtimes
  /\ graceful \in Steps4 \cup {"draining", "done"} /\ stopping \in Steps4
  /\ viewers \subseteq Viewers

\* start() has listened.
SrvInit ==
  /\ hooked \in Hooked /\ server = "open" /\ toReload = Remembered
  /\ info = FALSE /\ token = FALSE /\ up = TRUE
  /\ runtimeOf = [p \in Served |-> 0] /\ regs = 0
  /\ ownerOf = [k \in Runtimes |-> CHOOSE p \in Served : TRUE]
  /\ engines = [k \in Runtimes |-> "none"] /\ handlers = {}
  /\ graceful = "none" /\ left = {} /\ stopping = "none"
  /\ viewers = {} /\ detached = {}

\* registerProject: a new runtime takes the place of the one there was.
RegisterProject(p) ==
  /\ regs < MaxRegs /\ regs' = regs + 1
  /\ runtimeOf' = [runtimeOf EXCEPT ![p] = regs + 1]
  /\ ownerOf' = [ownerOf EXCEPT ![regs + 1] = p]

\* start(): one persisted project after the other; one that cannot be loaded is left out.
ReloadsProject(p) ==
  /\ up /\ p \in toReload
  /\ toReload' = toReload \ {p}
  /\ \/ RegisterProject(p)
     \/ UNCHANGED runtimeVars
  /\ UNCHANGED <<hooked, server, info, token, up, shutVars, viewers, engines, handlers,
                 detached>>

AllReloaded_Faulty == TRUE
AllReloaded == toReload = {}

\* writeDaemonFile, the end of start().
Publishes ==
  /\ up /\ AllReloaded /\ ~token
  /\ info' = TRUE /\ token' = TRUE
  /\ UNCHANGED <<hooked, server, toReload, up, runtimeVars, shutVars, viewers, engines,
                 handlers, detached>>

-----------------------------------------------------------------------------
\* The onRequest hook: who has not read the token is answered 401.
MayAsk == up /\ server = "open" /\ token

PostProject(p) ==
  /\ MayAsk /\ runtimeOf[p] = 0
  /\ RegisterProject(p)
  /\ UNCHANGED <<processVars, shutVars, viewers, engines, handlers, detached>>

\* DELETE /projects/:id takes the runtime off the map and stops nothing.
DeregisterProject(p) ==
  /\ MayAsk /\ runtimeOf[p] # 0
  /\ runtimeOf' = [runtimeOf EXCEPT ![p] = 0]
  /\ detached' = IF runtimeOf[p] \in handlers \/ engines[runtimeOf[p]] = "running"
                 THEN detached \cup {runtimeOf[p]} ELSE detached
  /\ UNCHANGED <<regs, ownerOf, processVars, shutVars, viewers, engines, handlers>>

\* makeProjectRuntimeHook: the request keeps the runtime it was given.
TakesRuntime(p) ==
  /\ MayAsk /\ runtimeOf[p] # 0
  /\ handlers' = handlers \cup {runtimeOf[p]}
  /\ UNCHANGED <<processVars, runtimeVars, shutVars, viewers, engines, detached>>

\* The handler returns; POST /workflow/start leaves an engine behind, with an executor made
\* for the runtime.
HandlerReturns(k, starts) ==
  /\ up /\ k \in handlers
  /\ handlers' = handlers \ {k}
  /\ starts => engines[k] = "none"
  /\ engines' = IF starts THEN [engines EXCEPT ![k] = "running"] ELSE engines
  /\ UNCHANGED <<processVars, runtimeVars, shutVars, viewers, detached>>

EngineEnds(k) ==
  /\ up /\ engines[k] \in {"running", "draining"}
  /\ engines' = [engines EXCEPT ![k] = "none"]
  /\ UNCHANGED <<processVars, runtimeVars, shutVars, viewers, handlers, detached>>

-----------------------------------------------------------------------------
\* The WebSocket endpoint: who has the token connects.  What a page subscribes to, and what it is
\* sent, is in LiveView.
Connects(v) ==
  /\ MayAsk /\ v \notin viewers
  /\ viewers' = viewers \cup {v}
  /\ UNCHANGED <<processVars, runtimeVars, shutVars, engines, handlers, detached>>

ClientCloses(v) ==
  /\ v \in viewers /\ viewers' = viewers \ {v}
  /\ UNCHANGED <<processVars, runtimeVars, shutVars, engines, handlers, detached>>

-----------------------------------------------------------------------------
\* server.close() waits for the requests under way; onClose then stops the engines, of which
\* the calls in flight go on, and closes the clients.
Aborted == [k \in Runtimes |-> IF engines[k] = "running" THEN "draining" ELSE engines[k]]

ServerCloses ==
  /\ handlers = {}
  /\ server' = "closed" /\ engines' = Aborted
  /\ viewers' = {}

Serving == {runtimeOf[p] : p \in Served} \ {0}

\* POST /shutdown: gracefulShutdown() with the runtimes there are now.  Hooks stop their engines
\* at once; without hooks nothing is waited for, marked or saved.
PostShutdown ==
  /\ MayAsk /\ graceful = "none"
  /\ IF hooked
     THEN /\ graceful' = "draining" /\ left' = Serving
          /\ engines' = [k \in Runtimes |-> IF k \in Serving THEN Aborted[k] ELSE engines[k]]
     ELSE graceful' = "flushing" /\ left' = {} /\ UNCHANGED engines
  /\ UNCHANGED <<stopping, processVars, runtimeVars, viewers, handlers, detached>>

\* shutdownOneProject: the calls are over, or the timeout is; the nodes that still run are marked,
\* the events logged and the state saved.
ShutdownOneProject(k) ==
  /\ up /\ k \in left
  /\ left' = left \ {k}
  /\ engines' = [engines EXCEPT ![k] = IF @ = "none" THEN @ ELSE "interrupted"]
  /\ graceful' = IF left = {k} THEN "flushing" ELSE graceful
  /\ UNCHANGED <<stopping, processVars, runtimeVars, viewers, handlers, detached>>

\* With nothing to shut down Promise.all is over at once.
NothingToShut ==
  /\ up /\ graceful = "draining" /\ left = {}
  /\ graceful' = "flushing"
  /\ UNCHANGED <<left, stopping, processVars, runtimeVars, viewers, engines,
                 handlers, detached>>

\* An event or the state cannot be written: nobody catches what gracefulShutdown() throws.
ShutdownRejects ==
  /\ up /\ left # {} /\ up' = FALSE
  /\ UNCHANGED <<hooked, server, toReload, info, token, runtimeVars, shutVars, viewers,
                 engines, handlers, detached>>

After(step) == CASE step = "flushing" -> "closing" [] step = "closing" -> "removing"

\* flushPendingWrites, server.close() and removeDaemonFile, of the one or the other; a server
\* that was closed is not closed again.
TakesDown(step) ==
  CASE step = "flushing" -> UNCHANGED <<server, info, engines, viewers>>
    [] step = "closing"  -> /\ \/ server = "open" /\ ServerCloses
                               \/ server = "closed" /\ UNCHANGED <<server, engines, viewers>>
                            /\ UNCHANGED info
    [] step = "removing" -> info' = FALSE /\ UNCHANGED <<server, engines, viewers>>

\* The process goes on after gracefulShutdown().
GracefulStep ==
  /\ up /\ graceful \in {"flushing", "closing", "removing"}
  /\ TakesDown(graceful)
  /\ graceful' = IF graceful = "removing" THEN "done" ELSE After(graceful)
  /\ UNCHANGED <<hooked, toReload, token, up, runtimeVars, left, stopping,
                 handlers, detached>>

Signal ==
  /\ up /\ stopping = "none" /\ stopping' = "flushing"
  /\ UNCHANGED <<graceful, left, processVars, runtimeVars, viewers, engines,
                 handlers, detached>>

\* stop(), and the exit after it.
StopStep ==
  /\ up /\ stopping # "none"
  /\ TakesDown(stopping)
  /\ IF stopping = "removing" THEN up' = FALSE /\ UNCHANGED stopping
                              ELSE stopping' = After(stopping) /\ UNCHANGED up
  /\ UNCHANGED <<hooked, toReload, token, runtimeVars, graceful, left,
                 handlers, detached>>

SrvNext ==
  \/ Publishes \/ PostShutdown \/ NothingToShut \/ ShutdownRejects \/ GracefulStep
  \/ Signal \/ StopStep
  \/ \E p \in Served : ReloadsProject(p) \/ PostProject(p) \/ DeregisterProject(p) \/ TakesRuntime(p)
  \/ \E k \in Runtimes : \/ EngineEnds(k) \/ ShutdownOneProject(k)
                         \/ \E starts \in BOOLEAN : HandlerReturns(k, starts)
  \/ \E v \in Viewers : Connects(v) \/ ClientCloses(v)

SrvSpec == SrvInit /\ [][SrvNext]_srvVars

-----------------------------------------------------------------------------
\* An engine that dispatches can be paused: its runtime is the one its project leads to, although
\* requests keep theirs and start() registers projects while the server listens; unless
\* its project was deleted under it.
EnginesAreReachable ==
  \A k \in Runtimes \ detached : engines[k] = "running" => runtimeOf[ownerOf[k]] = k

\* Once the server is closed nothing is dispatched and nobody is connected, whichever of the two
\* ways down has closed it and whatever was under way.
NothingGoesOn ==
  server = "closed" => /\ \A k \in Runtimes : engines[k] # "running"
                       /\ viewers = {}

\* What DaemonServer is checked for.
ShutdownIsOrderly == EnginesAreReachable /\ NothingGoesOn
=============================================================================
