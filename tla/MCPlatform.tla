------------------------------ MODULE MCPlatform ------------------------------
(***************************************************************************)
(* What surrounds the execution of nodes, for TLC. The daemon: the chat    *)
(* that edits a graph (ProjectChat), the pipeline that makes one           *)
(* (SpecPipeline), the processes of daemon and CLI (DaemonControl), one    *)
(* daemon from start to end (DaemonServer). The files beside the state of  *)
(* a workflow: the registry of the projects (ProjectsRegistry),            *)
(* credentials and MCP servers (NamedEntries), the configuration in layers *)
(* and the command that edits it (ConfigManager), the repair of a state    *)
(* from its events (StateRepair), the commands that set a project up       *)
(* (Commands). The pages of the dashboard: the view of a running workflow  *)
(* (LiveView), the wizard that creates a project (Wizard), the list of the *)
(* projects (ProjectList) and its page (ProjectsView), the brainstorm that *)
(* leads to a specification (Brainstorm), the settings (ProjectSettings),  *)
(* the pages of a workflow and its nodes with the chat beside them         *)
(* (WorkflowPages). As in MCAgents they share no variable, and a behaviour *)
(* runs one of them while the others rest.                                 *)
(***************************************************************************)
EXTENDS ProjectChat, SpecPipeline, DaemonControl, DaemonServer,
        ProjectsRegistry, NamedEntries, ConfigManager, StateRepair, Commands,
        LiveView, Wizard, ProjectList, ProjectsView, Brainstorm, ProjectSettings, WorkflowPages

LOCAL INSTANCE NodeLifecycle

-----------------------------------------------------------------------------
(* The files                                                               *)

storedVars == <<regVars, entryVars, cfgVars, repVars, cmdVars, useVars>>

StoredParts == {"registry", "entries", "config", "repair", "commands", "settingsFiles"}

StoredInit == RegInit /\ EntryInit /\ CfgInit /\ RepInit /\ CmdInit /\ UseInit

StoredNext(p) ==
  /\ \/ p = "registry" /\ RegNext
     \/ p = "entries"  /\ EntryNext
     \/ p = "config"   /\ CfgNext
     \/ p = "repair"   /\ RepNext
     \/ p = "commands" /\ CmdNext
     \/ p = "settingsFiles" /\ UseNext
  /\ p = "registry" \/ UNCHANGED regVars
  /\ p = "entries" \/ UNCHANGED entryVars
  /\ p = "config" \/ UNCHANGED cfgVars
  /\ p = "repair" \/ UNCHANGED repVars
  /\ p = "commands" \/ UNCHANGED cmdVars
  /\ p = "settingsFiles" \/ UNCHANGED useVars

StoredTypeOK == RegTypeOK /\ EntryTypeOK /\ CfgTypeOK /\ RepTypeOK /\ CmdTypeOK /\ UseTypeOK

\* What was acknowledged is in the files: projects, credentials and servers, configuration, and
\* the completion of a node, whatever died in between, but for requests that crossed; and a
\* command that ends well has set up, or set, what it says.
FilesKeepTheirWord == RegistryIsKept /\ StoredIsKept /\ ConfigAgrees /\ RepairIsTrue
                      /\ CommandsTellTruth /\ SettingsAreTold

MCLayers == UNION {[set -> {1, 2}] : set \in SUBSET {"level", "delay"}}
MCPresets == [level \in {1, 2} |-> [k \in {"delay"} |-> 10 * level]]

\* A key has the value of the highest layer that sets it, before the preset of the level; and the
\* preset is the one of the level that is in force, whichever layer names it.
ASSUME LayersWin ==
  \A global, project, overrides \in MCLayers :
    LET resolved == ResolveConfig([level |-> 1, delay |-> 0], MCPresets, global, project, overrides)
        layers == <<overrides, project, global>> IN
    /\ resolved["level"] = Effective("level", layers, 1)
    /\ resolved["delay"] = Effective("delay", layers, MCPresets[resolved["level"]]["delay"])

-----------------------------------------------------------------------------
(* The pages                                                               *)

pagesVars == <<liveVars, wizVars, listVars, bsVars, setVars, pageVars, panelVars,
              viewVars>>

PageParts == {"view", "wizard", "list", "brainstorm", "settings", "buttons", "events", "panel",
              "projects"}

PagesInit(p) ==
  /\ LiveInit /\ WizInit /\ ListInit /\ BsInit /\ SetInit /\ WorkflowPagesInit /\ PanelInit
  /\ ViewInit
  /\ p = "brainstorm" \/ online
  /\ p = "projects" \/ (store.mode = "daemon" /\ store.list = <<>>)

PagesNext(p) ==
  /\ \/ p = "view"       /\ LiveNext
     \/ p = "wizard"     /\ WizNext
     \/ p = "list"       /\ ListNext
     \/ p = "brainstorm" /\ BsNext
     \/ p = "settings"   /\ SetNext
     \/ p = "buttons"    /\ ButtonsNext
     \/ p = "events"     /\ EventsNext
     \/ p = "panel"      /\ PanelNext
     \/ p = "projects"   /\ ViewNext
  /\ p = "view" \/ UNCHANGED liveVars
  /\ p = "wizard" \/ UNCHANGED wizVars
  /\ p = "list" \/ UNCHANGED listVars
  /\ p = "brainstorm" \/ UNCHANGED bsVars
  /\ p = "settings" \/ UNCHANGED setVars
  /\ p \in {"buttons", "events"} \/ UNCHANGED pageVars
  /\ p = "panel" \/ UNCHANGED panelVars
  /\ p = "projects" \/ UNCHANGED viewVars

PagesTypeOK == LiveTypeOK /\ WizTypeOK /\ ListTypeOK /\ BsTypeOK /\ SetTypeOK
               /\ WorkflowPagesTypeOK /\ PanelTypeOK /\ ViewTypeOK

\* A page that follows a workflow has one socket; once they are quiet the view, the list, the
\* settings and the drawer of events show what the daemon has; a button sends nothing twice.
PagesAgree == OneSocketPerPage /\ QuietViewIsCurrent /\ ListIsKept /\ SettingsAreKept
              /\ WorkflowPagesAreTrue /\ ViewIsTrue

\* What the user has typed is neither lost nor sent twice, nor sent half done: the wizard's draft,
\* the conversation that leads to a specification, the one beside a workflow.
NothingTypedIsLost == WizardKeepsItsWord /\ ConversationIsKept /\ PanelIsTrue

\* The two pages name a node's status alike but for a blocked node, and a node that is not done
\* always has a button.
ASSUME StatusesAgree ==
  \A s \in NodeStatus : /\ OverviewUi(s) # NodeUi(s) <=> s = "blocked"
                        /\ FooterButtons(s) = {} <=> OverviewUi(s) = "done"

-----------------------------------------------------------------------------
(* One part at a time                                                      *)

VARIABLE part  \* the part this behaviour runs

platformVars == <<part, chatVars, specVars, ctlVars, srvVars, storedVars, pagesVars>>

ChatRests ==
  /\ exists = FALSE /\ graph = NoGraph /\ disk = NoGraph /\ queued = NoGraph
  /\ skipped = {} /\ chats = <<>> /\ failed = FALSE /\ added = {} /\ removed = {}
  /\ chat = [c \in Chats |-> "none"] /\ change = [c \in Chats |-> NoChange]

SpecRests ==
  /\ specAt = "crashed" /\ step = 0 /\ artifacts = {} /\ built = NoGraph
  /\ progress = [s \in 0 .. LastStep |-> {}]
  /\ loom = "running_spec" /\ flow = "spec" /\ diskFailed = FALSE

ServerRests == hooked = (CHOOSE h \in Hooked : TRUE)

PlatformInit ==
  /\ part \in {"chat", "spec", "control", "server"} \cup StoredParts \cup PageParts
  /\ IF part = "chat" THEN ChatInit ELSE ChatRests
  /\ IF part = "spec" THEN SpecInit ELSE SpecRests
  /\ SrvInit /\ (part = "server" \/ ServerRests)
  /\ CtlInit /\ StoredInit /\ PagesInit(part)

PlatformNext ==
  /\ UNCHANGED part
  /\ \/ part = "chat"     /\ ChatNext
                           /\ UNCHANGED <<specVars, ctlVars, srvVars, storedVars, pagesVars>>
     \/ part = "spec"     /\ SpecNext
                           /\ UNCHANGED <<chatVars, ctlVars, srvVars, storedVars, pagesVars>>
     \/ part = "control"  /\ CtlNext
                           /\ UNCHANGED <<chatVars, specVars, srvVars, storedVars, pagesVars>>
     \/ part = "server"   /\ SrvNext
                           /\ UNCHANGED <<chatVars, specVars, ctlVars, storedVars, pagesVars>>
     \/ StoredNext(part)  /\ UNCHANGED <<chatVars, specVars, ctlVars, srvVars, pagesVars>>
     \/ PagesNext(part)   /\ UNCHANGED <<chatVars, specVars, ctlVars, srvVars, storedVars>>

PlatformSpec ==
  PlatformInit /\ [][PlatformNext]_platformVars /\ SpecFairness /\ LiveFairness

-----------------------------------------------------------------------------
\* The types of every part.
PlatformTypeOK == ChatTypeOK /\ SpecTypeOK /\ CtlTypeOK /\ SrvTypeOK /\ StoredTypeOK /\ PagesTypeOK

\* Every graph that reaches the engine can be executed, the one a pipeline built and the
\* one that chats have edited since.
GraphsRun == EditedGraphRuns /\ BuiltGraphRuns

\* Nothing in the background hangs: a workflow leaves spec, and a page comes back to its
\* daemon after every outage.
BackgroundGoesOn == SpecSettles /\ ComesBackLive

MCGraphs == [nodes : {{"a", "b", "c"}}, edges : SUBSET ({"a", "b", "c"} \X {"a", "b", "c"})]

\* The three ways the code looks for a cycle find it in the same graphs, which are those that
\* have one, and the order it computes for the others is topological.
ASSUME CycleChecksAgree ==
  \A g \in MCGraphs : /\ DetectCycles(g) <=> HasCycle(g)
                      /\ ValidateDag(g) <=> ~HasCycle(g)
                      /\ IsTopological(g, ExecutionOrder(g)) <=> ~HasCycle(g)

\* A graph validateDAG accepts is one the spec engine accepts; one it classifies as a tree, or
\* as linear, has no two ways to a node.
ASSUME ValidationsAgree ==
  \A g \in MCGraphs :
    ValidateDAG(g) =>
      /\ ValidateGraphIntegrity(g) /\ ValidateDag(g)
      /\ DetectTopology(g, "tree") \in {"tree", "linear"}
           <=> Cardinality(g.edges) = Cardinality(g.nodes) - 1

\* In the picture of a graph without a cycle every edge goes from left to right.
ASSUME EdgesGoRight ==
  \A g \in MCGraphs : ~HasCycle(g) => \A e \in g.edges : Column(g)[e[1]] < Column(g)[e[2]]

MCStartGraphs == {NoGraph, [nodes |-> {"n1", "n2"}, edges |-> {<<"n1", "n2">>}]}

=============================================================================
