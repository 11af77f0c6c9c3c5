---------------------------- MODULE DagExecution ----------------------------
(***************************************************************************)
(* What the execution of a workflow graph promises, with nothing of how    *)
(* workflow/execution-engine.ts does it: a node is begun once, after all   *)
(* its predecessors are done; it ends done or failed, for good; a node is  *)
(* written off without being begun only when a predecessor of it failed;   *)
(* and the result that is announced is true of the nodes.                  *)
(*                                                                         *)
(* ExecutionEngine is shown to implement this specification.               *)
(***************************************************************************)
CONSTANTS Nodes, Preds

VARIABLES
  outcome,  \* what has become of each node
  result    \* the result announced, "none" before it is

vars == <<outcome, result>>

Outcome == {"pending", "running", "done", "failed"}
Result  == {"none", "done", "failed", "paused"}

\* A resumed workflow starts with outcomes an earlier run left.
Init ==
  /\ outcome \in [Nodes -> Outcome]
  /\ result = "none"

\* Several nodes begin at once: all the successors one completion made ready.
Begin(S) ==
  /\ \A n \in S : outcome[n] = "pending" /\ \A p \in Preds[n] : outcome[p] = "done"
  /\ outcome' = [n \in Nodes |-> IF n \in S THEN "running" ELSE outcome[n]]
  /\ UNCHANGED result

End(n, how) ==
  /\ outcome[n] = "running"
  /\ outcome' = [outcome EXCEPT ![n] = how]
  /\ UNCHANGED result

WriteOff(n) ==
  /\ outcome[n] = "pending"
  /\ \E p \in Preds[n] : outcome[p] = "failed"
  /\ outcome' = [outcome EXCEPT ![n] = "failed"]
  /\ UNCHANGED result

Announce(r) ==
  /\ result = "none"
  /\ r = "done"   => \A n \in Nodes : outcome[n] = "done"
  /\ r = "failed" => \E n \in Nodes : outcome[n] # "done"
  /\ result' = r
  /\ UNCHANGED outcome

Next ==
  \/ \E S \in SUBSET Nodes : Begin(S)
  \/ \E n \in Nodes, how \in {"done", "failed"} : End(n, how)
  \/ \E n \in Nodes : WriteOff(n)
  \/ \E r \in Result \ {"none"} : Announce(r)

Spec == Init /\ [][Next]_vars
=============================================================================
