--------------------------- MODULE MCRfqLifecycle ---------------------------
(***************************************************************************)
(* A small workflow for RfqLifecycle: two stages, each with a decision     *)
(* that must be captured and with subtasks.                                *)
(***************************************************************************)
EXTENDS RfqLifecycle, TLC

StageOf(mandatory, form, required) ==
    [mandatory |-> mandatory, form |-> form, required |-> required]

WorkTemplate ==
    << StageOf(<<"design_approved">>, {"design_approved"}, TRUE),
       StageOf(<<"go_nogo_decision">>, {"go_nogo_decision"}, TRUE) >>

OneReason == {"waiting_client"}
AnySubtask == Permutations(Subtasks)
=============================================================================
