------------------------- MODULE MCExecutionEngine -------------------------
(***************************************************************************)
(* Instances of ExecutionEngine for TLC: the graphs and the delays.        *)
(***************************************************************************)
EXTENDS ExecutionEngine, TLC

CONSTANTS a, b, c, d

\* a before b and c, which both come before d
Diamond == a :> {} @@ b :> {a} @@ c :> {a} @@ d :> {b, c}

\* a before b before c
Chain == a :> {} @@ b :> {a} @@ c :> {b}

\* a before c, a and b before d
Zigzag == a :> {} @@ b :> {} @@ c :> {a} @@ d :> {a, b}

\* None of them has a cycle, as LoopNeverSpinsHolds asks.
ASSUME GraphHasNoCycle == NoCycle

NoDelays == [n \in Nodes |-> "none"]

\* What spec-engine.ts gives every node but the first: config.defaultDelay
DefaultDelays == [n \in Nodes |-> IF n = a THEN "none" ELSE "timer"]

\* A delayed root, and a node whose delay parseDelay rejects
MixedDelays == [n \in Nodes |-> CASE n = b -> "timer" [] n = c -> "invalid" [] OTHER -> "none"]

=============================================================================
