-------------------------- MODULE CheckedWorkflow --------------------------
(* The definition validate_workflow is called with, read by all its checks *)
(* and changed by none.                                                    *)
EXTENDS WorkflowDefs

VARIABLE workflow
=============================================================================
