------------------------- MODULE MCWorkflowService -------------------------
(***************************************************************************)
(* WorkflowService for TLC: a graph of two nodes in a row.                 *)
(***************************************************************************)
EXTENDS WorkflowService, TLC

CONSTANTS a, b

Chain == a :> {} @@ b :> {a}
=============================================================================
