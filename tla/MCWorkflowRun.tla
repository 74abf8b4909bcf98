--------------------------- MODULE MCWorkflowRun ---------------------------
(* Model checking of a workflow run. *)
EXTENDS WorkflowRun, TLC

HandlerSymmetry == Permutations(Handlers)
=============================================================================
