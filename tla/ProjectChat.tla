----------------------------- MODULE ProjectChat -----------------------------
(***************************************************************************)
(* POST /chat of one project (api/routes/chat.ts) and the LoomAgent behind *)
(* it (handleChat in agents/loom.ts): a message is classified, answered,   *)
(* and perhaps changes the graph of the workflow.                          *)
(*                                                                         *)
(* An action is the code between two awaits.  Requests interleave; they    *)
(* share the history, the agent's status, rt.workflow and the pending      *)
(* write of workflow.json.  The memory files an answer reads or writes are *)
(* left out: an error of theirs is swallowed.                              *)
(***************************************************************************)
EXTENDS WorkflowGraph

CONSTANTS
  NodeIds,     \* the ids randomUUID may come up with
  Chats,       \* the requests
  StartGraphs, \* the graphs there may be when the first request comes; NoGraph for no workflow
  ChatFaults   \* "ioError": the write of workflow.json may fail

NoNode == "none"  \* an insertAfter, insertBefore or nodeId the model left out
ASSUME NodeIdsAssumption == NoNode \notin NodeIds /\ IsFiniteSet(NodeIds)

\* The graph there is has come from the pipeline, or from requests like these: it can be run.
ASSUME StartGraphsAssumption ==
  \A g \in StartGraphs : /\ g \in [nodes : SUBSET NodeIds, edges : SUBSET (NodeIds \X NodeIds)]
                         /\ Runnable(g)

VARIABLES
  exists,    \* rt.workflow # null
  graph,     \* its nodes and edges
  skipped,   \* the nodes whose status a modification set to done
  chat,      \* where each request is
  change,    \* what its answer asks for, until it is applied
  chats,     \* the history: <<"user", c>> and <<"assistant", c>>
  disk,      \* the graph in workflow.json
  queued,    \* the graph the pending write holds
  failed,    \* history: a write of workflow.json has failed
  added,     \* history: the nodes added by requests
  removed    \* history: the nodes removed by requests

chatVars == <<exists, graph, skipped, chat, change, chats, disk, queued, failed,
              added, removed>>
memVars == <<exists, graph, skipped, added, removed>>
diskVars == <<disk, queued, failed>>

Target == NodeIds \cup {NoNode}
NoChange == [action |-> "no_action", node |-> NoNode, after |-> NoNode, before |-> NoNode]
Changes ==
  {NoChange}
  \cup [action : {"add_node"}, node : {NoNode}, after : Target, before : Target]
  \cup [action : {"modify_node", "remove_node", "skip_node"}, node : Target,
        after : {NoNode}, before : {NoNode}]

ChatTypeOK ==
  /\ exists \in BOOLEAN /\ failed \in BOOLEAN
  /\ graph.nodes \subseteq NodeIds /\ graph.edges \subseteq NodeIds \X NodeIds
  /\ disk.nodes \subseteq NodeIds /\ queued.nodes \subseteq NodeIds
  /\ skipped \subseteq graph.nodes
  /\ chat \in [Chats -> {"none", "classifying", "answering", "applying", "saving", "answered",
                         "error"}]
  /\ change \in [Chats -> Changes]
  /\ Range(chats) \subseteq {"user", "assistant"} \X Chats
  /\ added \subseteq NodeIds /\ removed \subseteq NodeIds

ChatInit ==
  /\ graph \in StartGraphs
  /\ exists = (graph # NoGraph)
  /\ disk = graph /\ queued = graph
  /\ skipped = {}
  /\ chat = [c \in Chats |-> "none"]
  /\ change = [c \in Chats |-> NoChange]
  /\ chats = <<>>
  /\ failed = FALSE
  /\ added = graph.nodes /\ removed = {}

\* POST /chat: the message joins the history, then handleChat.
ChatAsked(c) ==
  /\ chat[c] = "none"
  /\ chat' = [chat EXCEPT ![c] = "classifying"]
  /\ chats' = Append(chats, <<"user", c>>)
  /\ UNCHANGED <<change, memVars, diskVars>>

\* classifyMessage: a question, an instruction or a graph change.  A failing call or an
\* answer that does not parse is a question.
Classified(c) ==
  /\ chat[c] = "classifying"
  /\ chat' = [chat EXCEPT ![c] = "answering"]
  /\ UNCHANGED <<change, chats, memVars, diskVars>>

\* The handler of the category answers and the event is logged.  Only a graph change
\* asks for a modification; an error of the provider is an answer without one.
Answered(c) ==
  /\ chat[c] = "answering"
  /\ \E m \in Changes : change' = [change EXCEPT ![c] = m]
  /\ chat' = [chat EXCEPT ![c] = "applying"]
  /\ UNCHANGED <<chats, memVars, diskVars>>

\* The graph after add_node: the edges are wired as far as they can be.
Wired(g, n, after, before) ==
  LET g1 == AddNode(g, n)
      g2 == IF after = NoNode THEN g1 ELSE TryEdge(g1, <<after, n>>)
  IN IF before = NoNode THEN g2 ELSE TryEdge(g2, <<n, before>>)

\* The graph add_node is applied to.
Current_Faulty == [nodes |-> {}, edges |-> {}]
Current == graph

\* applyChatModification: what becomes of rt.workflow, or nothing if it returns null.
Applied(m) ==
  \/ /\ m.action = "add_node"
     /\ \E n \in NodeIds \ (added \cup {m.after, m.before}) :
          /\ graph' = IF exists THEN Wired(Current, n, m.after, m.before) ELSE AddNode(NoGraph, n)
          /\ added' = added \cup {n}
     /\ exists' = TRUE
     /\ UNCHANGED <<skipped, removed>>
  \/ /\ m.action = "modify_node" /\ m.node \in graph.nodes
     /\ UNCHANGED memVars
  \/ /\ m.action = "remove_node" /\ m.node \in graph.nodes
     /\ graph' = RemoveNode(graph, m.node)
     /\ skipped' = skipped \ {m.node}
     /\ removed' = removed \cup {m.node}
     /\ UNCHANGED <<exists, added>>
  \/ /\ m.action = "skip_node" /\ m.node \in graph.nodes
     /\ skipped' = skipped \cup {m.node}
     /\ UNCHANGED <<exists, graph, added, removed>>

Applicable(m) ==
  \/ m.action = "add_node"
  \/ m.action \in {"modify_node", "remove_node", "skip_node"} /\ m.node \in graph.nodes

\* What persistWorkflow is called with.
Persisted == graph'

\* The reply joins the history; a modification that applies is made and queued.
Replied(c) ==
  /\ chat[c] = "applying"
  /\ chats' = Append(chats, <<"assistant", c>>)
  /\ IF Applicable(change[c])
     THEN /\ Applied(change[c])
          /\ queued' = Persisted
          /\ chat' = [chat EXCEPT ![c] = "saving"]
     ELSE /\ chat' = [chat EXCEPT ![c] = "answered"]
          /\ UNCHANGED <<memVars, queued>>
  /\ change' = [change EXCEPT ![c] = NoChange]
  /\ UNCHANGED <<disk, failed>>

Saving == {c \in Chats : chat[c] = "saving"}

\* The pending write lands, for everybody who waits for it ...
GraphSaved ==
  /\ Saving # {}
  /\ disk' = queued
  /\ chat' = [c \in Chats |-> IF c \in Saving THEN "answered" ELSE chat[c]]
  /\ UNCHANGED <<change, chats, memVars, queued, failed>>

\* ... or fails: they answer 500, and memory keeps the change.
GraphNotSaved ==
  /\ Saving # {} /\ "ioError" \in ChatFaults
  /\ failed' = TRUE
  /\ chat' = [c \in Chats |-> IF c \in Saving THEN "error" ELSE chat[c]]
  /\ UNCHANGED <<change, chats, memVars, disk, queued>>

ChatStep(c) == ChatAsked(c) \/ Classified(c) \/ Answered(c) \/ Replied(c)
ChatNext == (\E c \in Chats : ChatStep(c)) \/ GraphSaved \/ GraphNotSaved

ChatSpec == ChatInit /\ [][ChatNext]_chatVars

-----------------------------------------------------------------------------
\* Whatever chats do to a graph, and in whatever order, the engine can still run it: no
\* edge leads to a node that is gone, and none closes a cycle.
EditedGraphRuns == Runnable(graph)

\* Two requests in flight do not undo each other: a node one of them has added is in the
\* graph until a request removes it.  And when no request is waiting for its write, what
\* the daemon would restore is what it shows, unless a write failed and said so.
EditsAreKept ==
  /\ graph.nodes = added \ removed
  /\ Saving = {} /\ ~failed => disk = graph

=============================================================================
