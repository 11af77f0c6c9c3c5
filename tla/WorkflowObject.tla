--------------------------- MODULE WorkflowObject ---------------------------
(***************************************************************************)
(* The objects a workflow is in memory: the WorkflowManager                *)
(* (workflow/workflow.ts), its WorkflowNodes (workflow/node.ts), its       *)
(* WorkflowGraph (workflow/graph.ts) and the managers of file ownership    *)
(* made from a node; and what is kept of them in workflow.json and in the  *)
(* event log.                                                              *)
(*                                                                         *)
(* The manager keeps the nodes twice: as WorkflowNodes and in the graph.   *)
(* Only the former are written, with the edges of the latter.              *)
(***************************************************************************)
EXTENDS Integers, FiniteSets, Sequences

CONSTANTS
  ObjNodes,      \* ids of nodes
  Declared,      \* those the workflow has from the start
  ObjAgents,     \* agents a node may have
  ObjMaxRetries, \* maxRetries of every node
  MaxObjActs     \* bound: calls

ASSUME ObjectAssumption ==
  Declared \subseteq ObjNodes /\ IsFiniteSet(ObjNodes) /\ {ObjMaxRetries, MaxObjActs} \subseteq Nat

Lifecycle == INSTANCE NodeLifecycle

NoObject == [status |-> "none"]
NoSave == [events |-> {}]

VARIABLES
  flow,      \* the WorkflowManager: its status, nodes, and the graph beside them
  onDisk,    \* workflow.json
  unwritten, \* saves that wait for the debounce: the last one's [what], the events of all
  diary,     \* events.jsonl: what it tells, [to, version]
  toAppend,  \* events whose save is done
  scopeCopy, \* a FileOwnershipManager made from a node: [of, scopes]
  haunted,   \* history: nodes that resume or a manager left with the scopes of agents they lost
  unnamed,   \* history: whether a node was added to the graph, or taken from it
  objActs

objectVars == <<flow, onDisk, unwritten, diary, toAppend, scopeCopy, haunted, unnamed, objActs>>
keptVars == <<onDisk, unwritten, diary, toAppend>>

WorkflowNode ==
  [status : Lifecycle!NodeStatus, team : SUBSET ObjAgents, scopes : SUBSET ObjAgents,
   retries : 0 .. ObjMaxRetries, resumes : BOOLEAN, started : BOOLEAN, ended : BOOLEAN]

Tellings == [to : Lifecycle!WorkflowStatus, version : 0 .. MaxObjActs]

FlowData == [status : Lifecycle!WorkflowStatus, version : 0 .. MaxObjActs, nodes : [Declared -> WorkflowNode],
            edges : SUBSET (ObjNodes \X ObjNodes)]
FlowObjects == [status : Lifecycle!WorkflowStatus, version : 0 .. MaxObjActs, nodes : [Declared -> WorkflowNode],
               edges : SUBSET (ObjNodes \X ObjNodes), ids : SUBSET ObjNodes]

ObjectTypeOK ==
  /\ flow # NoObject => flow \in FlowObjects
  /\ onDisk \in FlowData
  /\ unwritten # NoSave => unwritten \in [what : FlowData, events : SUBSET Tellings]
  /\ toAppend \cup diary \subseteq Tellings
  /\ scopeCopy \in [of : Declared \cup {"none"}, scopes : SUBSET ObjAgents]
  /\ haunted \subseteq Declared /\ unnamed \in BOOLEAN /\ objActs \in 0 .. MaxObjActs

\* WorkflowNode.create
FreshNode == [status |-> "pending", team |-> {}, scopes |-> {}, retries |-> 0,
              resumes |-> FALSE, started |-> FALSE, ended |-> FALSE]

\* A workflow at work: its first node has an agent that owns files, the others wait their turn.
AtWork == [FreshNode EXCEPT !.status = "running", !.started = TRUE,
                            !.team = ObjAgents, !.scopes = ObjAgents]
FirstNode == CHOOSE n \in Declared : TRUE

\* WorkflowManager.fromJSON of what is on disk.
FromJSON(data) ==
  [status |-> data.status, version |-> data.version, nodes |-> data.nodes, edges |-> data.edges, ids |-> Declared]

ObjectInit ==
  /\ onDisk = [status |-> "running", version |-> 0, edges |-> {},
               nodes |-> [n \in Declared |-> IF n = FirstNode THEN AtWork ELSE FreshNode]]
  /\ flow = FromJSON(onDisk)
  /\ unwritten = NoSave /\ diary = {} /\ toAppend = {}
  /\ scopeCopy = [of |-> "none", scopes |-> {}]
  /\ haunted = {} /\ unnamed = FALSE /\ objActs = 0

Counts == objActs < MaxObjActs /\ objActs' = objActs + 1

-----------------------------------------------------------------------------
\* What is kept: syncGraph takes the nodes from the WorkflowNodes, the edges from the graph.
ToJSON(object) == [status |-> object.status, version |-> object.version,
                   nodes |-> object.nodes, edges |-> object.edges]

\* saveWorkflowState of what the object is at the call: a save that waits is replaced, and both
\* callers hear of the one write.  The events follow it.
SaveState(object, events) ==
  unwritten' = [what |-> ToJSON(object), events |-> events \cup unwritten.events]

Saved ==
  /\ unwritten # NoSave /\ unwritten' = NoSave
  /\ onDisk' = unwritten.what /\ toAppend' = toAppend \cup unwritten.events
  /\ UNCHANGED <<flow, diary, scopeCopy, haunted, unnamed, objActs>>

\* The write fails and the calls throw: what was changed in memory stays, nothing is logged.
SaveThrows ==
  /\ unwritten # NoSave /\ unwritten' = NoSave
  /\ UNCHANGED <<flow, onDisk, diary, toAppend, scopeCopy, haunted, unnamed, objActs>>

Appended ==
  /\ \E e \in toAppend : diary' = diary \cup {e} /\ toAppend' = toAppend \ {e}
  /\ UNCHANGED <<flow, onDisk, unwritten, scopeCopy, haunted, unnamed, objActs>>

\* TRANSITION_EVENTS, by the status a workflow comes to.
EventsOf(object) ==
  IF object.status \in {"running", "paused", "done"}
  THEN {[to |-> object.status, version |-> object.version]} ELSE {}

\* WorkflowManager.transition: in memory at once, then on disk, then in the log.
TransitionFlow ==
  /\ Counts /\ flow # NoObject
  /\ \E to \in Lifecycle!WorkflowTransitions(flow.status) :
       /\ flow' = [flow EXCEPT !.status = to, !.version = @ + 1]
       /\ SaveState(flow', EventsOf(flow'))
  /\ UNCHANGED <<onDisk, diary, toAppend, scopeCopy, haunted, unnamed>>

\* The program goes: what was not written is lost.
Dies ==
  /\ flow # NoObject
  /\ flow' = NoObject /\ unwritten' = NoSave /\ toAppend' = {} /\ scopeCopy' = [of |-> "none", scopes |-> {}]
  /\ UNCHANGED <<onDisk, diary, haunted, unnamed, objActs>>

\* WorkflowManager.resume, of a node: one that was at work starts over, but keeps its scopes.
ResumedNode(node) ==
  IF node.status \in {"running", "review"}
  THEN [FreshNode EXCEPT !.scopes = node.scopes]
  ELSE IF node.status = "waiting" /\ ~node.resumes THEN [node EXCEPT !.status = "pending"]
  ELSE node

\* WorkflowManager.resume: the objects are made from the file, and written back.
ResumeFlow ==
  /\ Counts /\ flow = NoObject /\ onDisk.status \in {"running", "paused"}
  /\ LET resumed == [n \in Declared |-> ResumedNode(onDisk.nodes[n])] IN
     /\ flow' = FromJSON([onDisk EXCEPT !.status = "running", !.version = @ + 1, !.nodes = resumed])
     /\ haunted' = haunted \cup {n \in Declared : ~ resumed[n].scopes \subseteq resumed[n].team}
  /\ SaveState(flow', EventsOf(flow'))
  /\ UNCHANGED <<onDisk, diary, toAppend, scopeCopy, unnamed>>

\* WorkflowManager.checkBudget, over the limit: stops what runs; writes nothing, logs nothing.
CheckBudget ==
  /\ Counts /\ flow # NoObject
  /\ flow' = [flow EXCEPT
       !.nodes = [n \in Declared |-> IF @[n].status = "running"
                                     THEN [@[n] EXCEPT !.status = "blocked", !.ended = TRUE] ELSE @[n]],
       !.status = IF @ = "running" THEN "paused" ELSE @]
  /\ UNCHANGED <<keptVars, scopeCopy, haunted, unnamed>>

\* WorkflowManager.persist
PersistFlow ==
  /\ Counts /\ flow # NoObject /\ SaveState(flow, {})
  /\ UNCHANGED <<flow, onDisk, diary, toAppend, scopeCopy, haunted, unnamed>>

-----------------------------------------------------------------------------
\* WorkflowNode: what a call makes of one node.
OfNode(n, node) ==
  /\ Counts /\ flow' = [flow EXCEPT !.nodes[n] = node]
  /\ UNCHANGED <<keptVars, scopeCopy, haunted, unnamed>>

Entered(node, to) ==
  [node EXCEPT !.status = to,
               !.started = @ \/ to = "running",
               !.ended = @ \/ to \in Lifecycle!TerminalStatuses]

TransitionNode(n) ==
  \E to \in Lifecycle!NodeTransitions(flow.nodes[n].status) : OfNode(n, Entered(flow.nodes[n], to))

IncrementRetry(n) ==
  /\ flow.nodes[n].retries < ObjMaxRetries
  /\ OfNode(n, [flow.nodes[n] EXCEPT !.retries = @ + 1])

\* addAgent; an agent without a scope may write nothing.
AddAgent(n) ==
  \E a \in ObjAgents \ flow.nodes[n].team : OfNode(n, [flow.nodes[n] EXCEPT !.team = @ \cup {a}])

\* removeAgent, and what it owned.
WithoutAgent(node, a) == [node EXCEPT !.team = @ \ {a}, !.scopes = @ \ {a}]

RemoveAgent(n) ==
  \E a \in flow.nodes[n].team : OfNode(n, WithoutAgent(flow.nodes[n], a))

\* setFileOwnership, of an agent of the node.
SetFileOwnership(n) ==
  \E a \in flow.nodes[n].team : OfNode(n, [flow.nodes[n] EXCEPT !.scopes = @ \cup {a}])

\* createFileOwnershipManager: a copy, which does not follow the node.
CreateFileOwnershipManager(n) ==
  /\ scopeCopy.of = "none" /\ flow.nodes[n].scopes # {}
  /\ scopeCopy' = [of |-> n, scopes |-> flow.nodes[n].scopes]
  /\ UNCHANGED <<flow, keptVars, haunted, unnamed, objActs>>

\* applyFileOwnershipState: the copy replaces what the node has, agents it has lost included.
ApplyFileOwnershipState ==
  /\ Counts /\ flow # NoObject /\ scopeCopy.of # "none"
  /\ flow' = [flow EXCEPT !.nodes[scopeCopy.of].scopes = scopeCopy.scopes]
  /\ haunted' = IF scopeCopy.scopes \subseteq flow.nodes[scopeCopy.of].team THEN haunted
                ELSE haunted \cup {scopeCopy.of}
  /\ scopeCopy' = [of |-> "none", scopes |-> {}]
  /\ UNCHANGED <<keptVars, unnamed>>

-----------------------------------------------------------------------------
\* WorkflowGraph, as getGraph() hands it out: the WorkflowNodes do not follow it.
OfGraph(graph) ==
  /\ Counts /\ flow' = graph /\ UNCHANGED <<keptVars, scopeCopy, haunted>>

AddGraphNode ==
  /\ unnamed' = TRUE
  /\ \E n \in ObjNodes \ flow.ids : OfGraph([flow EXCEPT !.ids = @ \cup {n}])

Touching(edges, n) == {e \in edges : n \in {e[1], e[2]}}

RemoveGraphNode ==
  /\ unnamed' = TRUE
  /\ \E n \in flow.ids :
       OfGraph([flow EXCEPT !.ids = @ \ {n}, !.edges = @ \ Touching(@, n)])

\* detectCycles: every set of nodes has one that leads to no other of the set.
Acyclic(edges) ==
  \A some \in (SUBSET ObjNodes) \ {{}} :
    \E n \in some : \A e \in edges : e[1] = n => e[2] \notin some

\* addEdge, between two nodes of the graph, unless it is there or closes a cycle.
AddGraphEdge ==
  /\ UNCHANGED unnamed
  /\ \E e \in (flow.ids \X flow.ids) \ flow.edges :
       Acyclic(flow.edges \cup {e}) /\ OfGraph([flow EXCEPT !.edges = @ \cup {e}])

RemoveGraphEdge ==
  /\ UNCHANGED unnamed
  /\ \E e \in flow.edges : OfGraph([flow EXCEPT !.edges = @ \ {e}])

ObjectNext ==
  \/ TransitionFlow \/ Saved \/ SaveThrows \/ Appended \/ Dies \/ ResumeFlow
  \/ CheckBudget \/ PersistFlow \/ ApplyFileOwnershipState
  \/ /\ flow # NoObject
     /\ \/ AddGraphNode \/ RemoveGraphNode \/ AddGraphEdge \/ RemoveGraphEdge
        \/ \E n \in Declared : \/ TransitionNode(n) \/ IncrementRetry(n) \/ AddAgent(n)
                               \/ RemoveAgent(n) \/ SetFileOwnership(n)
                               \/ CreateFileOwnershipManager(n)

ObjectSpec == ObjectInit /\ [][ObjectNext]_objectVars

-----------------------------------------------------------------------------
\* Who may write is who works: a node's scopes are those of its agents, but for a node that was
\* resumed while agents worked on it, or was given the scopes of an older manager.  A node has
\* started when it has been at work and ended when it is over, also after a resume.  The edges
\* in the file join nodes in the file, unless the graph was given a node the manager does not know.
\* And the log tells of nothing that the file is still to hear of.
ObjectIsTrue ==
  /\ flow # NoObject => \A n \in Declared :
       LET node == flow.nodes[n] IN
       /\ n \notin haunted => node.scopes \subseteq node.team
       /\ node.started <=> node.status \notin {"pending", "waiting"}
       /\ node.ended <=> node.status \in Lifecycle!TerminalStatuses
  /\ ~unnamed => onDisk.edges \subseteq Declared \X Declared
  /\ \A e \in diary : e.version <= onDisk.version

=============================================================================
