--------------------------- MODULE MCSubtaskRollup ---------------------------
(***************************************************************************)
(* Two subtasks and three progress values beside the initial 0: two of one *)
(* status, so that one of two overlapping updates may leave the status out *)
(* of its UPDATE, and the last.                                            *)
(***************************************************************************)
EXTENDS SubtaskRollup, TLC

FewSteps == {50, 60, 100}
AnyIdentity == Permutations(Requests) \cup Permutations(Tasks)
=============================================================================
