------------------------------- MODULE RfqRows -------------------------------
(***************************************************************************)
(* The rules of src/src/utils/rfq_status.py and rfq_lifecycle.py on the    *)
(* rows of tables rfq and rfq_stage.  They are shared by the model in      *)
(* which requests run one after another (RfqLifecycle) and the one in      *)
(* which their transactions interleave (RfqConcurrent).                    *)
(*                                                                         *)
(* The stages of an RFQ are identified with their column "order", which    *)
(* create() numbers 1, 2, ...; NoStage stands for a NULL current_stage_id. *)
(* Dates are abstracted to "is set": started and ended stand for           *)
(* actual_start and actual_end.  Status names are written without blanks.  *)
(***************************************************************************)
EXTENDS Integers, FiniteSets

NoStage == 0

TerminalStatuses == {"Awarded", "Lost", "Cancelled"}
RfqStatuses == {"InPreparation"} \cup TerminalStatuses

ValidTransitions ==
    [s \in RfqStatuses |-> IF s = "InPreparation" THEN TerminalStatuses ELSE {}]

\* validate_rfq_status_transition: the 409 is raised when this is false.
ValidTransition(from, to) == to = from \/ to \in ValidTransitions[from]

StageStatuses == {"NotStarted", "InProgress", "Completed", "Skipped"}
StageRow == [status : StageStatuses, started : BOOLEAN, ended : BOOLEAN]

NewStage(first) ==
    [status  |-> IF first THEN "InProgress" ELSE "NotStarted",
     started |-> first,
     ended   |-> FALSE]

\* A plausible slip: the next stage is started without its date.
StartedUndated(row) == [row EXCEPT !.status = "InProgress"]

Completed(row) == [row EXCEPT !.status = "Completed", !.ended = TRUE]
Started(row) == [row EXCEPT !.status = "InProgress", !.started = TRUE]

(***************************************************************************)
(* calculate_rfq_lifecycle_progress: the share of non-skipped stages that  *)
(* are Completed, in whole per cent; a terminal RFQ always shows 100.      *)
(***************************************************************************)
EffectiveStages(rows) == {i \in DOMAIN rows : rows[i].status # "Skipped"}
CompletedStages(rows) == {i \in DOMAIN rows : rows[i].status = "Completed"}

\* A plausible slip: the live stage counts as done.
ProgressCountingLive(rows, rfqStatus) ==
    IF rfqStatus \in TerminalStatuses \/ EffectiveStages(rows) = CompletedStages(rows)
      THEN 100
      ELSE ((Cardinality(CompletedStages(rows)) + 1) * 100)
             \div Cardinality(EffectiveStages(rows))

LifecycleProgress(rows, rfqStatus) ==
    IF rfqStatus \in TerminalStatuses \/ EffectiveStages(rows) = CompletedStages(rows)
      THEN 100
      ELSE (Cardinality(CompletedStages(rows)) * 100)
             \div Cardinality(EffectiveStages(rows))

(***************************************************************************)
(* apply_terminal_stage_freeze: the current stage, unless Completed, and   *)
(* every later stage that is not Completed become Skipped.  With no        *)
(* current stage the comparison is with order 0, so every stage is later.  *)
(***************************************************************************)
FrozenRow(row, order, current) ==
    CASE order = current /\ row.status = "InProgress"
           -> [row EXCEPT !.status = "Skipped", !.ended = TRUE]
      [] order = current /\ row.status = "NotStarted"
           -> [row EXCEPT !.status = "Skipped"]
      [] order > current /\ row.status # "Completed"
           -> [row EXCEPT !.status = "Skipped"]
      [] OTHER -> row

\* A plausible slip: the current stage is left as it is.
FreezeLaterOnly(rows, current) ==
    [i \in DOMAIN rows |-> IF i = current THEN rows[i]
                                          ELSE FrozenRow(rows[i], i, current)]

FreezeStages(rows, current) ==
    [i \in DOMAIN rows |-> FrozenRow(rows[i], i, current)]

(***************************************************************************)
(* _derive_status_from_progress and the average of _update_stage_progress. *)
(***************************************************************************)
DeriveStatus(progress) ==
    CASE progress <= 0   -> "Open"
      [] progress >= 100 -> "Done"
      [] OTHER           -> "InProgress"
=============================================================================
