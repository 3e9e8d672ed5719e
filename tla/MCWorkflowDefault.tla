-------------------------- MODULE MCWorkflowDefault --------------------------
(***************************************************************************)
(* The three workflows of the base data and a body for each flag.          *)
(***************************************************************************)
EXTENDS WorkflowDefault

SomeBodies ==
    [workflow : Workflows, is_default : {"unset", "yes", "no"}, is_active : {"unset", "no"}]
=============================================================================
