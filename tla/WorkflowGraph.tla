----------------------------- MODULE WorkflowGraph -----------------------------
(***************************************************************************)
(* The graph of a workflow as the code computes with it: WorkflowGraph     *)
(* (workflow/graph.ts) and the validation of a generated graph             *)
(* (spec/spec-engine.ts).  There is no state here.                         *)
(*                                                                         *)
(* A graph is a set of node ids and a set of edges <<from, to>>.  Edges    *)
(* are an array in the code; addEdge keeps it free of duplicates, and one  *)
(* in a generated graph changes no answer below but the topology's.        *)
(***************************************************************************)
EXTENDS Naturals, Sequences, FiniteSets, SequencesExt

Successors(g, n) == {m \in g.nodes : <<n, m>> \in g.edges}
Predecessors(g, n) == {m \in g.nodes : <<m, n>> \in g.edges}

NoGraph == [nodes |-> {}, edges |-> {}]

AddNode(g, n) == [g EXCEPT !.nodes = @ \cup {n}]

RemoveNode_Faulty(g, n) == [g EXCEPT !.nodes = @ \ {n}]

\* removeNode: with its edges.
RemoveNode(g, n) ==
  [nodes |-> g.nodes \ {n}, edges |-> {e \in g.edges : e[1] # n /\ e[2] # n}]

-----------------------------------------------------------------------------
(* Cycles                                                                  *)

\* What dfs of detectCycles knows: the colours of the nodes, those left to visit, its answer.
Walks(g) == [gray : SUBSET g.nodes, black : SUBSET g.nodes, todo : SUBSET g.nodes, cycle : BOOLEAN]

\* dfs visits the nodes of todo, those that have no colour with their successors before them.
DetectCycles(g) ==
  LET dfs[w \in Walks(g)] ==
        IF w.cycle \/ w.todo = {} THEN w
        ELSE LET m == CHOOSE m \in w.todo : TRUE
                 rest == [w EXCEPT !.todo = @ \ {m}]
                 left == dfs[[w EXCEPT !.gray = @ \cup {m}, !.todo = Successors(g, m)]]
             IN IF m \in w.gray THEN [w EXCEPT !.cycle = TRUE]
                ELSE IF m \in w.black THEN dfs[rest]
                ELSE IF left.cycle THEN left
                ELSE dfs[[rest EXCEPT !.gray = left.gray \ {m}, !.black = left.black \cup {m}]]
  IN dfs[[gray |-> {}, black |-> {}, todo |-> g.nodes, cycle |-> FALSE]].cycle

\* addEdge throws: an end is missing, a loop, a duplicate, or a cycle.
EdgeRefused(g, e) ==
  \/ ~({e[1], e[2]} \subseteq g.nodes) \/ e[1] = e[2] \/ e \in g.edges
  \/ DetectCycles([g EXCEPT !.edges = @ \cup {e}])

\* addEdge under a try that ignores what it throws.
TryEdge(g, e) == IF EdgeRefused(g, e) THEN g ELSE [g EXCEPT !.edges = @ \cup {e}]

\* validateDag of the spec engine: what Kahn's algorithm visits.
Visited(g) ==
  LET kahn[seen \in SUBSET g.nodes] ==
        LET next == {n \in g.nodes \ seen : Predecessors(g, n) \subseteq seen} IN
        IF next = {} THEN seen ELSE kahn[seen \cup next]
  IN kahn[{}]
ValidateDag(g) == Visited(g) = g.nodes

-----------------------------------------------------------------------------
(* Validation and topology                                                 *)

\* validateGraphIntegrity.
ValidateGraphIntegrity(g) ==
  LET incoming == {e[2] : e \in g.edges}
      outgoing == {e[1] : e \in g.edges}
  IN /\ g.nodes # {}
     /\ incoming \cup outgoing \subseteq g.nodes
     /\ g.nodes \ incoming # {}
     /\ Cardinality(g.nodes) > 1 => g.nodes \subseteq incoming \cup outgoing

\* validateDAG of WorkflowGraph asks for a single source, where the spec engine does not.
ValidateDAG(g) ==
  g.nodes # {} =>
    /\ ~DetectCycles(g)
    /\ Cardinality(g.nodes) > 1 => \A n \in g.nodes : Predecessors(g, n) \cup Successors(g, n) # {}
    /\ Cardinality({n \in g.nodes : Predecessors(g, n) = {}}) <= 1

\* detectTopology of WorkflowGraph, and of the spec engine, which tells one fork from several.
DetectTopology(g, single) ==
  LET forks == {n \in g.nodes : Cardinality(Successors(g, n)) > 1}
      joins == {n \in g.nodes : Cardinality(Predecessors(g, n)) > 1}
  IN CASE forks # {} /\ joins # {} -> "mixed"
       [] forks # {} /\ joins = {} -> IF Cardinality(forks) = 1 THEN single ELSE "tree"
       [] forks = {} /\ joins # {} -> "convergent"
       [] OTHER -> "linear"

\* getExecutionOrder: Kahn's algorithm with a queue; it throws when a node is left out.
ExecutionOrder(g) ==
  LET ordered[queue \in Seq(g.nodes), order \in Seq(g.nodes)] ==
        IF queue = <<>> THEN order
        ELSE LET done == Append(order, Head(queue))
                 freed == {m \in Successors(g, Head(queue)) : Predecessors(g, m) \subseteq Range(done)}
             IN ordered[Tail(queue) \o SetToSeq(freed), done]
  IN ordered[SetToSeq({n \in g.nodes : Predecessors(g, n) = {}}), <<>>]

-----------------------------------------------------------------------------
\* What a cycle is, for the properties: nodes each of which has a predecessor among them.
HasCycle(g) == \E S \in (SUBSET g.nodes) \ {{}} : \A n \in S : Predecessors(g, n) \cap S # {}

\* The reference for the algorithms above: a topological order of all nodes.
IsTopological(g, order) ==
  /\ Len(order) = Cardinality(g.nodes) /\ Range(order) = g.nodes
  /\ \A i, j \in DOMAIN order : <<order[i], order[j]>> \in g.edges => i < j

\* A graph the engine can run to its end: its edges join its nodes, without a cycle.
Runnable(g) == g.edges \subseteq g.nodes \X g.nodes /\ ~HasCycle(g)

=============================================================================
