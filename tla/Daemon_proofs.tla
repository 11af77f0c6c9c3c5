---------------------------- MODULE Daemon_proofs ----------------------------
(***************************************************************************)
(* Proofs about the daemon from its start to its end, alone, and of the    *)
(* types of all that MCPlatform runs: the daemon, the files beside the     *)
(* state of a workflow, its graph and the pages.                           *)
(***************************************************************************)
EXTENDS Platform_proofs, Pages_proofs

-----------------------------------------------------------------------------
(* Proof of ShutdownIsOrderly.  What holds a runtime - a request, an       *)
(* engine - finds its project leading to it, because start() registers     *)
(* projects only while nobody has the token, and POST /projects only those *)
(* that are not there.                                                     *)

SrvShapes ==
  /\ regs \in 0 .. MaxRegs
  /\ runtimeOf \in [Served -> {0} \cup Runtimes] /\ DOMAIN ownerOf = Runtimes
  /\ engines \in [Runtimes -> {"none", "running", "draining", "interrupted"}]
  /\ toReload \subseteq Served /\ handlers \subseteq Runtimes
  /\ stopping \in Steps4

\* A project's runtime is one that was registered, and registered for it.
MapIsTrue == \A p \in Served : runtimeOf[p] # 0 => runtimeOf[p] <= regs /\ ownerOf[runtimeOf[p]] = p

\* Before the token is out nobody holds a runtime, and what is to be reloaded has none.
TokenComesLast ==
  /\ ~token => handlers = {} /\ \A k \in Runtimes : engines[k] = "none"
  /\ token => toReload = {}

Held == handlers \cup {k \in Runtimes : engines[k] = "running"}

HeldAreReachable ==
  \A k \in Held \ detached : ownerOf[k] \in Served /\ runtimeOf[ownerOf[k]] = k

HeldAreRegistered == \A k \in Held : k <= regs

ClosedIsQuiet == server = "closed" => Held = {} /\ viewers = {}

SrvInv ==
  /\ SrvShapes /\ MapIsTrue /\ TokenComesLast
  /\ HeldAreReachable /\ HeldAreRegistered /\ ClosedIsQuiet

\* A new runtime goes to a project that has none, or to one while nothing is held.
LEMMA RegistrationKeeps ==
  ASSUME SrvInv, NEW p \in Served, RegisterProject(p), runtimeOf[p] = 0 \/ Held = {},
         UNCHANGED <<engines, handlers, detached, server, viewers>>
  PROVE  /\ regs' \in 0 .. MaxRegs /\ DOMAIN ownerOf' = Runtimes
         /\ runtimeOf' \in [Served -> {0} \cup Runtimes]
         /\ MapIsTrue' /\ HeldAreReachable' /\ HeldAreRegistered' /\ ClosedIsQuiet'
<1> USE ServerAssumption DEF SrvInv, SrvShapes
<1>1. regs + 1 \in Runtimes /\ regs' = regs + 1 /\ regs' \in 0 .. MaxRegs
  BY DEF RegisterProject, Runtimes
<1>2. /\ runtimeOf' \in [Served -> {0} \cup Runtimes] /\ DOMAIN ownerOf' = Runtimes
      /\ runtimeOf'[p] = regs + 1 /\ ownerOf'[regs + 1] = p
      /\ \A q \in Served : q # p => runtimeOf'[q] = runtimeOf[q]
      /\ \A k \in Runtimes : k # regs + 1 => ownerOf'[k] = ownerOf[k]
  BY <1>1 DEF RegisterProject
<1>3. MapIsTrue'
  <2> SUFFICES ASSUME NEW q \in Served, runtimeOf'[q] # 0
               PROVE  runtimeOf'[q] <= regs' /\ ownerOf'[runtimeOf'[q]] = q
    BY DEF MapIsTrue
  <2>1. CASE q = p
    BY <1>1, <1>2, <2>1
  <2>2. CASE q # p
    <3>1. runtimeOf[q] <= regs /\ ownerOf[runtimeOf[q]] = q /\ runtimeOf'[q] = runtimeOf[q]
      BY <1>2, <2>2 DEF MapIsTrue
    <3> QED BY <1>1, <1>2, <3>1 DEF Runtimes
  <2> QED BY <2>1, <2>2
<1>4. Held' = Held /\ \A k \in Held : k \in Runtimes /\ k <= regs
  BY DEF Held, HeldAreRegistered
<1>5. HeldAreReachable'
  <2> SUFFICES ASSUME NEW k \in Held, k \notin detached
               PROVE  ownerOf'[k] \in Served /\ runtimeOf'[ownerOf'[k]] = k
    BY <1>4 DEF HeldAreReachable
  <2>1. ownerOf[k] \in Served /\ runtimeOf[ownerOf[k]] = k /\ k \in Runtimes /\ k <= regs
    BY <1>4 DEF HeldAreReachable
  <2>2. k # regs + 1 /\ k # 0
    BY <2>1 DEF Runtimes
  <2>3. ownerOf[k] # p
    BY <2>1, <2>2
  <2> QED BY <1>2, <2>1, <2>2, <2>3
<1>6. HeldAreRegistered' /\ ClosedIsQuiet'
  BY <1>1, <1>4 DEF HeldAreRegistered, ClosedIsQuiet, Runtimes
<1> QED BY <1>1, <1>2, <1>3, <1>5, <1>6

\* Where nothing is registered, less is held and nothing more is closed, the invariant stays.
LEMMA HoldingLessKeeps ==
  ASSUME SrvInv, UNCHANGED <<runtimeVars, toReload, token, detached>>,
         engines' \in [Runtimes -> {"none", "running", "draining", "interrupted"}],
         handlers' \subseteq handlers, Held' \subseteq Held, stopping' \in Steps4,
         ~token => \A k \in Runtimes : engines'[k] = "none",
         server' = "closed" => Held' = {} /\ viewers' = {}
  PROVE  SrvInv'
BY DEF SrvInv, SrvShapes, MapIsTrue, TokenComesLast, HeldAreReachable, HeldAreRegistered,
       ClosedIsQuiet, Held, runtimeVars

LEMMA TakesDownKeeps ==
  ASSUME SrvInv, NEW at \in {"flushing", "closing", "removing"}, TakesDown(at),
         UNCHANGED <<runtimeVars, toReload, token, detached, handlers>>, stopping' \in Steps4
  PROVE  SrvInv'
<1> USE DEF SrvInv
<1>1. CASE ServerCloses
  <2>1. /\ engines' \in [Runtimes -> {"none", "running", "draining", "interrupted"}]
        /\ \A k \in Runtimes : engines'[k] # "running" /\ (engines[k] = "none" => engines'[k] = "none")
    BY <1>1 DEF ServerCloses, Aborted, SrvShapes
  <2>2. handlers' = {} /\ Held' = {} /\ viewers' = {}
    BY <1>1, <2>1 DEF ServerCloses, Held
  <2> QED BY <2>1, <2>2, HoldingLessKeeps DEF TokenComesLast
<1>2. CASE UNCHANGED <<server, engines, viewers>>
  <2>1. Held' = Held
    BY <1>2 DEF Held
  <2> QED BY <1>2, <2>1, HoldingLessKeeps DEF SrvShapes, TokenComesLast, ClosedIsQuiet
<1> QED BY <1>1, <1>2 DEF TakesDown

LEMMA SrvInvStep ==
  ASSUME SrvInv, [SrvNext]_srvVars
  PROVE  SrvInv'
<1> USE DEF SrvInv, processVars, shutVars
<1>0. stopping \in Steps4
  BY DEF SrvShapes
<1>1. ASSUME NEW p \in Served, ReloadsProject(p) PROVE SrvInv'
  <2>1. toReload' \subseteq Served /\ toReload # {} /\ Held = {}
    BY <1>1 DEF ReloadsProject, TokenComesLast, Held, SrvShapes
  <2>2. TokenComesLast'
    BY <1>1, <2>1 DEF ReloadsProject, TokenComesLast
  <2>3. CASE RegisterProject(p)
    BY <1>1, <2>1, <2>2, <2>3, RegistrationKeeps DEF ReloadsProject, SrvShapes
  <2>4. CASE UNCHANGED runtimeVars
    BY <1>1, <2>1, <2>2, <2>4
       DEF ReloadsProject, runtimeVars, SrvShapes, MapIsTrue, HeldAreReachable, HeldAreRegistered,
           ClosedIsQuiet, Held
  <2> QED BY <1>1, <2>3, <2>4 DEF ReloadsProject
<1>2. CASE Publishes
  BY <1>2 DEF Publishes, AllReloaded, runtimeVars, SrvShapes, MapIsTrue, TokenComesLast,
              HeldAreReachable, HeldAreRegistered, ClosedIsQuiet, Held
<1>3. ASSUME NEW p \in Served, PostProject(p) PROVE SrvInv'
  <2>1. TokenComesLast'
    BY <1>3 DEF PostProject, TokenComesLast
  <2> QED BY <1>3, <2>1, RegistrationKeeps DEF PostProject, SrvShapes
<1>4. ASSUME NEW p \in Served, DeregisterProject(p) PROVE SrvInv'
  <2>1. Held' = Held
    BY <1>4 DEF DeregisterProject, Held
  <2>2. /\ runtimeOf' \in [Served -> {0} \cup Runtimes] /\ runtimeOf'[p] = 0
        /\ \A q \in Served : q # p => runtimeOf'[q] = runtimeOf[q]
    BY <1>4 DEF DeregisterProject, SrvShapes
  <2>3. HeldAreReachable'
    <3> SUFFICES ASSUME NEW k \in Held, k \notin detached'
                 PROVE  ownerOf[k] \in Served /\ runtimeOf'[ownerOf[k]] = k
      BY <1>4, <2>1 DEF DeregisterProject, HeldAreReachable
    <3>1. k \notin detached
      BY <1>4 DEF DeregisterProject
    <3>2. ownerOf[k] \in Served /\ runtimeOf[ownerOf[k]] = k
      BY <3>1 DEF HeldAreReachable
    <3>3. ownerOf[k] # p
      BY <1>4, <3>2 DEF DeregisterProject, Held
    <3> QED BY <2>2, <3>2, <3>3
  <2>4. MapIsTrue' /\ TokenComesLast' /\ HeldAreRegistered' /\ ClosedIsQuiet' /\ SrvShapes'
    BY <1>4, <2>1, <2>2 DEF DeregisterProject, MapIsTrue, TokenComesLast, HeldAreRegistered,
       ClosedIsQuiet, SrvShapes
  <2> QED BY <2>3, <2>4
<1>5. ASSUME NEW p \in Served, TakesRuntime(p) PROVE SrvInv'
  <2>1. runtimeOf[p] \in Runtimes /\ runtimeOf[p] <= regs /\ ownerOf[runtimeOf[p]] = p
    BY <1>5 DEF TakesRuntime, MapIsTrue, SrvShapes
  <2>2. Held' = Held \cup {runtimeOf[p]} /\ token /\ server = "open"
    BY <1>5 DEF TakesRuntime, MayAsk, Held
  <2>3. HeldAreReachable' /\ HeldAreRegistered'
    BY <1>5, <2>1, <2>2 DEF TakesRuntime, runtimeVars, HeldAreReachable, HeldAreRegistered
  <2> QED BY <1>5, <2>1, <2>2, <2>3
          DEF TakesRuntime, runtimeVars, SrvShapes, MapIsTrue, TokenComesLast, ClosedIsQuiet
<1>6. ASSUME NEW k \in Runtimes, NEW starts \in BOOLEAN, HandlerReturns(k, starts) PROVE SrvInv'
  <2>1. engines' \in [Runtimes -> {"none", "running", "draining", "interrupted"}]
    BY <1>6 DEF HandlerReturns, SrvShapes
  <2>2. handlers' \subseteq handlers /\ Held' \subseteq Held /\ token
    BY <1>6 DEF HandlerReturns, Held, TokenComesLast, SrvShapes
  <2>3. UNCHANGED <<runtimeVars, toReload, token, detached, server, viewers>>
    BY <1>6 DEF HandlerReturns
  <2> QED BY <1>6, <2>1, <2>2, <2>3, HoldingLessKeeps, <1>0 DEF HandlerReturns, ClosedIsQuiet
<1>7. ASSUME NEW k \in Runtimes, EngineEnds(k) \/ ShutdownOneProject(k) PROVE SrvInv'
  <2>1. /\ engines' \in [Runtimes -> {"none", "running", "draining", "interrupted"}]
        /\ \A j \in Runtimes : /\ engines'[j] = "running" => engines[j] = "running"
                               /\ engines[j] = "none" => engines'[j] = "none"
    BY <1>7 DEF EngineEnds, ShutdownOneProject, SrvShapes
  <2>2. UNCHANGED <<runtimeVars, toReload, token, detached, server, viewers>> /\ handlers' = handlers
    BY <1>7 DEF EngineEnds, ShutdownOneProject
  <2>3. Held' \subseteq Held
    BY <2>1, <2>2 DEF Held
  <2> QED BY <1>7, <2>1, <2>2, <2>3, HoldingLessKeeps, <1>0
          DEF EngineEnds, ShutdownOneProject, PostShutdown, TokenComesLast, ClosedIsQuiet
<1>8. CASE PostShutdown
  <2>1. /\ engines' \in [Runtimes -> {"none", "running", "draining", "interrupted"}]
        /\ \A j \in Runtimes : /\ engines'[j] = "running" => engines[j] = "running"
                               /\ engines[j] = "none" => engines'[j] = "none"
    BY <1>8 DEF PostShutdown, Aborted, SrvShapes
  <2>2. UNCHANGED <<runtimeVars, toReload, token, detached, server, viewers>> /\ handlers' = handlers
    BY <1>8 DEF PostShutdown
  <2>3. Held' \subseteq Held
    BY <2>1, <2>2 DEF Held
  <2> QED BY <1>8, <2>1, <2>2, <2>3, HoldingLessKeeps, <1>0
          DEF EngineEnds, ShutdownOneProject, PostShutdown, TokenComesLast, ClosedIsQuiet
<1>9. ASSUME NEW v \in Viewers, Connects(v) \/ ClientCloses(v) PROVE SrvInv'
  <2>1. UNCHANGED <<runtimeVars, toReload, token, detached, server, engines, handlers>>
    BY <1>9 DEF Connects, ClientCloses
  <2>2. server = "closed" => viewers' = {}
    BY <1>9 DEF Connects, ClientCloses, MayAsk, ClosedIsQuiet
  <2>3. Held' = Held /\ stopping' \in Steps4
    BY <1>0, <1>9, <2>1 DEF Connects, ClientCloses, Held
  <2> QED BY <2>1, <2>2, <2>3, HoldingLessKeeps
          DEF SrvShapes, TokenComesLast, ClosedIsQuiet
<1>10. CASE NothingToShut \/ ShutdownRejects \/ Signal \/ UNCHANGED srvVars
  <2>1. UNCHANGED <<runtimeVars, toReload, token, detached, server, engines, handlers, viewers>>
    BY <1>10 DEF NothingToShut, ShutdownRejects, Signal, srvVars
  <2>2. Held' = Held /\ stopping' \in Steps4
    BY <1>0, <1>10, <2>1 DEF NothingToShut, ShutdownRejects, Signal, srvVars, Steps4, Held
  <2> QED BY <2>1, <2>2, HoldingLessKeeps
          DEF SrvShapes, TokenComesLast, ClosedIsQuiet
<1>11. CASE GracefulStep
  BY <1>0, <1>11, TakesDownKeeps DEF GracefulStep
<1>12. CASE StopStep
  <2>1. stopping \in {"flushing", "closing", "removing"} /\ stopping' \in Steps4
    BY <1>12 DEF StopStep, SrvShapes, Steps4, After
  <2> QED BY <1>12, <2>1, TakesDownKeeps DEF StopStep
<1> QED BY <1>1, <1>2, <1>3, <1>4, <1>5, <1>6, <1>7, <1>8, <1>9, <1>10, <1>11, <1>12 DEF SrvNext

\* Whatever projects, clients and orders of requests and shutdowns there are, an engine that
\* dispatches is the one its project leads to, and nothing goes on behind a closed server.
THEOREM ShutdownIsOrderlyHolds == SrvSpec => []ShutdownIsOrderly
<1>1. SrvInit => SrvInv
  <2> SUFFICES ASSUME SrvInit PROVE SrvInv
    OBVIOUS
  <2> USE DEF SrvInit
  <2>1. SrvShapes
    BY ServerAssumption DEF SrvShapes, Steps4
  <2>2. Held = {}
    BY DEF Held
  <2> QED BY <2>1, <2>2
          DEF SrvInv, MapIsTrue, TokenComesLast, HeldAreReachable, HeldAreRegistered, ClosedIsQuiet
<1>2. SrvInv /\ [SrvNext]_srvVars => SrvInv'
  BY SrvInvStep
<1>3. SrvInv => ShutdownIsOrderly
  BY DEF SrvInv, SrvShapes, HeldAreReachable, ClosedIsQuiet, Held, ShutdownIsOrderly,
         EnginesAreReachable, NothingGoesOn
<1> QED BY <1>1, <1>2, <1>3, PTL DEF SrvSpec

\* The types, the ghosts' included.
LEMMA SrvTypeInit == SrvInit => SrvTypeOK
<1> SUFFICES ASSUME SrvInit PROVE SrvTypeOK
  OBVIOUS
<1> USE DEF SrvInit
<1>1. {hooked, info, token, up} \subseteq BOOLEAN /\ server \in {"open", "closed"}
  BY ServerAssumption
<1>2. toReload \subseteq Served /\ regs \in 0 .. MaxRegs /\ runtimeOf \in [Served -> {0} \cup Runtimes]
  BY ServerAssumption
<1>3. ownerOf \in [Runtimes -> Served]
  BY ServerAssumption DEF Runtimes
<1>4. engines \in [Runtimes -> {"none", "running", "draining", "interrupted"}]
  OBVIOUS
<1>5. {handlers, left, detached} \subseteq SUBSET Runtimes /\ viewers \subseteq Viewers
  OBVIOUS
<1>6. graceful \in Steps4 \cup {"draining", "done"} /\ stopping \in Steps4
  BY DEF Steps4
<1> QED BY <1>1, <1>2, <1>3, <1>4, <1>5, <1>6 DEF SrvTypeOK

\* A registration, and the steps down, element by element.
LEMMA RegistrationTyped ==
  ASSUME SrvTypeOK, NEW p \in Served, RegisterProject(p)
  PROVE  /\ regs' \in 0 .. MaxRegs /\ runtimeOf' \in [Served -> {0} \cup Runtimes]
         /\ ownerOf' \in [Runtimes -> Served]
<1>1. regs + 1 \in Runtimes /\ regs + 1 \in 0 .. MaxRegs
  BY ServerAssumption DEF SrvTypeOK, RegisterProject, Runtimes
<1> QED BY <1>1 DEF SrvTypeOK, RegisterProject

LEMMA TakesDownTyped ==
  ASSUME SrvTypeOK, NEW at \in {"flushing", "closing", "removing"}, TakesDown(at)
  PROVE  /\ server' \in {"open", "closed"} /\ info' \in BOOLEAN /\ viewers' \subseteq Viewers
         /\ engines' \in [Runtimes -> {"none", "running", "draining", "interrupted"}]
<1>1. Aborted \in [Runtimes -> {"none", "running", "draining", "interrupted"}]
  BY DEF SrvTypeOK, Aborted
<1>2. CASE at = "flushing" \/ at = "removing"
  BY <1>2 DEF SrvTypeOK, TakesDown
<1>3. CASE at = "closing"
  BY <1>1, <1>3 DEF SrvTypeOK, TakesDown, ServerCloses
<1> QED BY <1>2, <1>3

LEMMA SrvTypeStep == SrvTypeOK /\ [SrvNext]_srvVars => SrvTypeOK'
<1> SUFFICES ASSUME SrvTypeOK, [SrvNext]_srvVars PROVE SrvTypeOK'
  OBVIOUS
<1> USE DEF SrvTypeOK, processVars, runtimeVars, shutVars
<1>1. CASE UNCHANGED srvVars
  BY <1>1 DEF srvVars
<1>2. CASE Publishes \/ NothingToShut \/ ShutdownRejects \/ Signal
  BY <1>2 DEF Publishes, NothingToShut, ShutdownRejects, Signal, Steps4
<1>3. CASE PostShutdown
  <2>1. Serving \subseteq Runtimes
    BY DEF Serving
  <2>2. [k \in Runtimes |-> IF k \in Serving THEN Aborted[k] ELSE engines[k]]
          \in [Runtimes -> {"none", "running", "draining", "interrupted"}]
    BY DEF Aborted
  <2> QED BY <1>3, <2>1, <2>2 DEF PostShutdown, Steps4
<1>4. CASE GracefulStep
  <2>1. graceful' \in Steps4 \cup {"draining", "done"}
    BY <1>4 DEF GracefulStep, After, Steps4
  <2> QED BY <1>4, <2>1, TakesDownTyped DEF GracefulStep
<1>5. CASE StopStep
  <2>1. stopping \in {"flushing", "closing", "removing"}
    BY <1>5 DEF StopStep, Steps4
  <2>2. stopping' \in Steps4 /\ up' \in BOOLEAN
    BY <1>5, <2>1 DEF StopStep, After, Steps4
  <2> QED BY <1>5, <2>1, <2>2, TakesDownTyped DEF StopStep
<1>6. ASSUME NEW p \in Served, ReloadsProject(p) PROVE SrvTypeOK'
  BY <1>6, RegistrationTyped DEF ReloadsProject
<1>7. ASSUME NEW p \in Served, PostProject(p) PROVE SrvTypeOK'
  BY <1>7, RegistrationTyped DEF PostProject
<1>8. ASSUME NEW p \in Served, DeregisterProject(p) \/ TakesRuntime(p) PROVE SrvTypeOK'
  <2>1. runtimeOf[p] \in Runtimes
    BY <1>8 DEF DeregisterProject, TakesRuntime
  <2> QED BY <1>8, <2>1 DEF DeregisterProject, TakesRuntime
<1>9. ASSUME NEW k \in Runtimes, EngineEnds(k) \/ ShutdownOneProject(k) PROVE SrvTypeOK'
  BY <1>9 DEF EngineEnds, ShutdownOneProject, Steps4
<1>10. ASSUME NEW k \in Runtimes, NEW starts \in BOOLEAN, HandlerReturns(k, starts) PROVE SrvTypeOK'
  BY <1>10 DEF HandlerReturns
<1>11. ASSUME NEW v \in Viewers, Connects(v) \/ ClientCloses(v) PROVE SrvTypeOK'
  BY <1>11 DEF Connects, ClientCloses
<1> QED BY <1>1, <1>2, <1>3, <1>4, <1>5, <1>6, <1>7, <1>8, <1>9, <1>10, <1>11 DEF SrvNext

-----------------------------------------------------------------------------
(* All of it as MCPlatform runs it                                         *)

\* Each variable of the daemon, of the files beside a workflow's state and of the pages keeps its type;
\* under what the daemon's processes and the page that follows a workflow are checked with.
THEOREM PlatformTypeOKHolds ==
  ASSUME ~Remounts, ~Untimely, Signals = {"SIGTERM"}
  PROVE  PlatformSpec => []PlatformTypeOK
<1> DEFINE DaemonInv == CtlInv /\ SrvTypeOK
<1>1. PlatformInit => DaemonInv
  BY CtlInvInit, SrvTypeInit DEF PlatformInit
<1>2. DaemonInv /\ [PlatformNext]_platformVars => DaemonInv'
  BY EachItsOwn, CtlInvStep, SrvTypeStep
<1>3. PagesInv /\ [PlatformNext]_platformVars => PagesInv'
  BY PagesInvStep
<1>4. DaemonInv /\ GraphsInv /\ FilesInv /\ PagesInv /\ TypedInv => PlatformTypeOK
  <2>1. DaemonInv => CtlTypeOK /\ SrvTypeOK
    BY DEF CtlInv
  <2>2. GraphsInv => ChatTypeOK /\ SpecTypeOK
    BY EditInvImplies, PipeInvImplies DEF GraphsInv
  <2>3. FilesInv => StoredTypeOK
    BY RegInvImplies, EntryInvImplies, CfgInvImplies, CmdInvImplies, UseInvImplies
       DEF FilesInv, StoredTypeOK, CfgInv, RepInv
  <2>4. PagesInv /\ TypedInv => PagesTypeOK
    BY LiveInvImplies, ListInvImplies, SettingsInvImplies, WfPagesInvImplies, ViewInvImplies,
       WizInvImplies, BsInvImplies, PanelInvImplies DEF PagesInv, TypedInv, PagesTypeOK
  <2> QED BY <2>1, <2>2, <2>3, <2>4 DEF PlatformTypeOK
<1> HIDE DEF DaemonInv
<1> QED BY <1>1, <1>2, <1>3, <1>4, GraphsInvInit, GraphsInvStep, FilesInvInit, FilesInvStep, PagesInvInit,
           TypedInvInit, TypedInvStep, PTL DEF PlatformSpec
==============================================================================
