--------------------------- MODULE NodeLifecycle ---------------------------
(***************************************************************************)
(* The two state machines every other part of the workflow engine obeys:   *)
(* the lifecycle of a node (workflow/node.ts) and the lifecycle of a       *)
(* workflow (workflow/workflow.ts), as their transition tables.            *)
(***************************************************************************)

NodeStatus ==
  {"pending", "waiting", "running", "review", "done", "failed", "blocked",
   "waiting_for_provider", "failed_provider_exhausted"}

\* node.ts, TRANSITIONS: the statuses a node may move to from status s.
NodeTransitions(s) ==
  CASE s = "pending" -> {"waiting"}
    [] s = "waiting" -> {"running"}
    [] s = "running" -> {"review", "done", "failed", "blocked",
                         "waiting_for_provider", "failed_provider_exhausted"}
    [] s = "review"  -> {"done", "running", "blocked", "failed"}
    [] s = "waiting_for_provider" -> {"running", "failed_provider_exhausted"}
    [] OTHER -> {}

\* WorkflowNode.canTransition
CanTransition(from, to) == to \in NodeTransitions(from)

\* WorkflowExecutionEngine.FAILURE_NODE_STATUSES and TERMINAL_NODE_STATUSES
FailureStatuses  == {"failed", "blocked", "failed_provider_exhausted"}
TerminalStatuses == FailureStatuses \cup {"done"}

WorkflowStatus ==
  {"init", "spec", "building", "running", "paused", "done", "failed"}

\* workflow.ts, TRANSITIONS
WorkflowTransitions(s) ==
  CASE s = "init"     -> {"spec"}
    [] s = "spec"     -> {"building"}
    [] s = "building" -> {"running"}
    [] s = "running"  -> {"paused", "done", "failed"}
    [] s = "paused"   -> {"running"}
    [] OTHER -> {}

=============================================================================
