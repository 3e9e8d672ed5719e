----------------------------- MODULE MCReminders -----------------------------
(***************************************************************************)
(* One RFQ that goes through two stages and a decision, a rule for         *)
(* deadlines and one for overdue stages, one or two batches.               *)
(***************************************************************************)
EXTENDS Reminders, TLC

AnyIdentity == Permutations(Slots) \cup Permutations(Batches)

Now(open, critical, deadline, stage, end) ==
    [open |-> open, critical |-> critical, deadline |-> deadline, stage |-> stage, end |-> end]

Stages == {Now(TRUE, TRUE, 1, 1, 0), Now(TRUE, TRUE, 2, 2, 1)}
Ends == {Now(FALSE, TRUE, 1, 1, 0)}

SomeSituations == Stages \cup Ends
MoreSituations == SomeSituations \cup {Now(TRUE, FALSE, 1, 2, 0)}

SomeScopes == [r \in Rules |-> r]
=============================================================================
