--------------------------- MODULE MCPlanExecutor ---------------------------
(* Small instances of PlanExecutor for TLC. *)
EXTENDS PlanExecutor
=============================================================================
