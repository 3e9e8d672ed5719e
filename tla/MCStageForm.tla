----------------------------- MODULE MCStageForm -----------------------------
(***************************************************************************)
(* Small stages: one with two mandatory yes/no decisions, the terminal     *)
(* outcome and two reason codes, and the smallest one on which two         *)
(* requests can disagree.                                                  *)
(***************************************************************************)
EXTENDS StageForm

MCMandatory == <<"design_approved", "boq_completed">>
MCFormFields == {"design_approved", "boq_completed", "rfq_terminal_outcome"}
AnyReason == Permutations(Reasons)

MCOneReason == {"design_revision"}
MCOneDecision == <<"design_approved">>
MCOneField == {"design_approved"}
=============================================================================
