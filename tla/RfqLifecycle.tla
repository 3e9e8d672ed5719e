----------------------------- MODULE RfqLifecycle -----------------------------
(***************************************************************************)
(* The life of one RFQ: creation from a workflow, work on its stages       *)
(* (forms, blockers, subtasks), advance() with its three outcomes, and     *)
(* cancellation.  Each action is one accepted HTTP request run alone; a    *)
(* refused one (403, 404, 409, 422) changes nothing and is not an action.  *)
(* RfqConcurrent shows what is left of this when requests overlap.         *)
(*                                                                         *)
(* events is the sequence of event-bus publications, attempted after the   *)
(* commit of the request that causes them.                                 *)
(***************************************************************************)
EXTENDS RfqRows, FormRules, FiniteSetsExt

CONSTANTS
    Template,       \* the effective stage templates of the workflow, in order:
                    \* a sequence of [mandatory, form, required]
    Customizable,   \* selection_mode = "customizable": stages may be skipped
    Subtasks,       \* identities of the subtasks of one stage
    ProgressSteps,  \* the subtask progress values clients use
    Explanations    \* non-blank outcome reasons

ASSUME TemplateAssumption ==
    /\ Len(Template) \in Nat \ {0}
    /\ DOMAIN Template = 1..Len(Template)
    /\ \A t \in DOMAIN Template :
          /\ Template[t].form \subseteq Fields
          /\ DOMAIN Template[t].mandatory \subseteq Nat
          /\ \A m \in DOMAIN Template[t].mandatory : Template[t].mandatory[m] \in Fields
ASSUME CustomizableAssumption == Customizable \in BOOLEAN
ASSUME ProgressAssumption == ProgressSteps \subseteq 0..100
ASSUME ExplanationsAssumption == None \notin Explanations

VARIABLES
    rfq,            \* status, current_stage_id, progress, outcome_reason
    plan,           \* plan[i] is the template stage i was created from
    stages,         \* status and dates of stage i
    forms,          \* captured_data and blocker of stage i
    subtasks,       \* subtasks[i][k]
    stageProgress,  \* column progress of stage i
    events

vars == <<rfq, plan, stages, forms, subtasks, stageProgress, events>>

Size == Len(Template)
Stage == DOMAIN stages
Mandatory(i) == Template[plan[i]].mandatory

Init ==
    /\ rfq = [status |-> "Absent", current |-> NoStage, progress |-> 0, reason |-> None]
    /\ plan = <<>>
    /\ stages = <<>>
    /\ forms = <<>>
    /\ subtasks = <<>>
    /\ stageProgress = <<>>
    /\ events = <<>>

-----------------------------------------------------------------------------
(***************************************************************************)
(* create(): the templates kept are all, or all but a set of optional ones *)
(* when the workflow is customizable; they are renumbered in order.        *)
(***************************************************************************)
ActiveTemplates ==
    {kept \in SUBSET (1..Size) :
        /\ kept # {}
        /\ \A t \in (1..Size) \ kept : Customizable /\ ~ Template[t].required}

InOrder(kept) ==
    {p \in [1..Cardinality(kept) -> kept] : \A i, j \in DOMAIN p : i < j => p[i] < p[j]}

NoSubtask == [live |-> FALSE, progress |-> 0, status |-> "Open"]
RfqCreated == [type |-> "rfq.created"]
StatusChanged(from, to) == [type |-> "rfq.status_changed", from |-> from, to |-> to]
StageAdvanced(i) == [type |-> "stage.advanced", stage |-> i]

CreateRfq ==
    /\ rfq.status = "Absent"
    /\ \E kept \in ActiveTemplates :
        /\ plan' \in InOrder(kept)
        /\ stages' = [i \in DOMAIN plan' |-> NewStage(i = 1)]
        /\ forms' = [i \in DOMAIN plan' |-> EmptyForm]
        /\ subtasks' = [i \in DOMAIN plan' |-> [k \in Subtasks |-> NoSubtask]]
        /\ stageProgress' = [i \in DOMAIN plan' |-> 0]
    /\ rfq' = [status |-> "InPreparation", current |-> 1, progress |-> 0, reason |-> None]
    /\ events' = <<RfqCreated>>

-----------------------------------------------------------------------------
(* PATCH of stage i; the state of the RFQ is not looked at.                *)
Bodies == [t \in 1..Size |-> {body \in PatchBodies(Template[t].form) : ValidPatch(body)}]

UpdateStage(i) ==
    /\ \E answer \in Answers(Bodies[plan[i]], forms[i], Mandatory(i)) :
          forms' = [forms EXCEPT ![i] = answer]
    /\ UNCHANGED <<rfq, plan, stages, subtasks, stageProgress, events>>

(***************************************************************************)
(* Subtasks of stage i, followed by _update_stage_progress.                *)
(***************************************************************************)
Active(tasks) == {k \in Subtasks : tasks[k].live}

Rollup(tasks) ==
    IF Active(tasks) = {} THEN 0
    ELSE MapThenSumSet(LAMBDA k : tasks[k].progress, Active(tasks))
           \div Cardinality(Active(tasks))

\* A plausible slip: the average is read before the change is flushed.
SetSubtaskBeforeFlush(i, k, task) ==
    /\ subtasks' = [subtasks EXCEPT ![i][k] = task]
    /\ stageProgress' = [stageProgress EXCEPT ![i] = Rollup(subtasks[i])]
    /\ UNCHANGED <<rfq, plan, stages, forms, events>>

SetSubtask(i, k, task) ==
    /\ subtasks' = [subtasks EXCEPT ![i][k] = task]
    /\ stageProgress' = [stageProgress EXCEPT ![i] = Rollup([subtasks[i] EXCEPT ![k] = task])]
    /\ UNCHANGED <<rfq, plan, stages, forms, events>>

CreateSubtask(i, k) ==
    /\ ~ subtasks[i][k].live
    /\ SetSubtask(i, k, [live |-> TRUE, progress |-> 0, status |-> "Open"])

\* A request that names no progress keeps the old one; the status is always
\* derived, whatever status the request asks for.
UpdateSubtask(i, k) ==
    /\ subtasks[i][k].live
    /\ \E p \in ProgressSteps \cup {subtasks[i][k].progress} :
        /\ p >= subtasks[i][k].progress
        /\ SetSubtask(i, k, [live |-> TRUE, progress |-> p, status |-> DeriveStatus(p)])

DeleteSubtask(i, k) ==
    /\ subtasks[i][k].live
    /\ SetSubtask(i, k, NoSubtask)

-----------------------------------------------------------------------------
(***************************************************************************)
(* advance(): its checks, then one of three outcomes.                      *)
(***************************************************************************)
SubtasksDone(tasks) ==
    \A k \in Active(tasks) : tasks[k].progress >= 100 /\ tasks[k].status = "Done"

\* Plausible slips: a gate left out.
MayAdvanceUnblockedUnchecked(i) ==
    /\ i = rfq.current
    /\ MandatoryCaptured(forms[i], Mandatory(i))
    /\ SubtasksDone(subtasks[i])

MayAdvanceAnyStage(i) ==
    /\ stages[i].status # "Completed"
    /\ forms[i].blocker # "Blocked"
    /\ MandatoryCaptured(forms[i], Mandatory(i))
    /\ SubtasksDone(subtasks[i])

MayAdvance(i) ==
    /\ i = rfq.current
    /\ forms[i].blocker # "Blocked"
    /\ MandatoryCaptured(forms[i], Mandatory(i))
    /\ SubtasksDone(subtasks[i])

NoGo(i) == NoGoDecided(forms[i], Mandatory(i))

AdvancedRows(i) ==
    [stages EXCEPT ![i] = Completed(@), ![i + 1] = Started(@)]

AdvanceToNext(i) ==
    /\ MayAdvance(i)
    /\ ~ NoGo(i)
    /\ i + 1 \in Stage
    /\ stages' = AdvancedRows(i)
    /\ rfq' = [rfq EXCEPT !.current  = i + 1,
                          !.progress = LifecycleProgress(AdvancedRows(i), rfq.status)]
    /\ stageProgress' = [stageProgress EXCEPT ![i] = 100]
    /\ events' = Append(events, StageAdvanced(i))
    /\ UNCHANGED <<plan, forms, subtasks>>

\* The RFQ and stage rows of an RFQ that is cancelled for a reason.
CancelledRows(why) ==
    /\ ValidTransition(rfq.status, "Cancelled")
    /\ stages' = FreezeStages(stages, rfq.current)
    /\ rfq' = [status   |-> "Cancelled",
               current  |-> NoStage,
               progress |-> LifecycleProgress(FreezeStages(stages, rfq.current), "Cancelled"),
               reason   |-> why]

AdvanceNoGo(i) ==
    /\ MayAdvance(i)
    /\ NoGo(i)
    /\ \E why \in Explanations : CancelledRows(why)
    /\ events' = Append(events, StatusChanged(rfq.status, "Cancelled"))
    /\ UNCHANGED <<plan, forms, subtasks, stageProgress>>

\* build_terminal_outcome_reason: a lost RFQ has at least its reason's label.
OutcomeReasons(decision) ==
    IF decision = "Lost" THEN Explanations ELSE Explanations \cup {None}

\* The outcome and its lost reason are written to the form too; the entry of
\* the trail, which this module leaves out, is in StageForm.
AdvanceToOutcome(i) ==
    \E asked \in ValuesOf("rfq_terminal_outcome") \cup {None} :
        LET decision == IF OutcomeOf(forms[i], asked) = "awarded" THEN "Awarded" ELSE "Lost" IN
        /\ MayAdvance(i)
        /\ ~ NoGo(i)
        /\ i + 1 \notin Stage
        /\ OutcomeComplete(forms[i], asked)
        /\ ValidTransition(rfq.status, decision)
        /\ forms' = [forms EXCEPT ![i] = OutcomeForm(forms[i], asked)]
        /\ stages' = [stages EXCEPT ![i] = Completed(@)]
        /\ stageProgress' = [stageProgress EXCEPT ![i] = 100]
        /\ \E why \in OutcomeReasons(decision) :
              rfq' = [status |-> decision, current |-> NoStage, progress |-> 100, reason |-> why]
        /\ events' = events \o <<StatusChanged(rfq.status, decision), StageAdvanced(i)>>
        /\ UNCHANGED <<plan, subtasks>>

Advance(i) == AdvanceToNext(i) \/ AdvanceNoGo(i) \/ AdvanceToOutcome(i)

-----------------------------------------------------------------------------
(* POST /rfqs/{id}/cancel; on an RFQ already Cancelled it only replaces    *)
(* the reason and publishes nothing (the slip publishes there too).        *)
CancelRfq ==
    /\ rfq.status \notin {"Absent", "Cancelled"}
    /\ \E why \in Explanations : CancelledRows(why)
    /\ events' = Append(events, StatusChanged(rfq.status, "Cancelled"))
    /\ UNCHANGED <<plan, forms, subtasks, stageProgress>>

AmendCancellationAnnounced ==
    /\ rfq.status = "Cancelled"
    /\ \E why \in Explanations : rfq' = [rfq EXCEPT !.reason = why]
    /\ Len(events) < 2 * Size + 2
    /\ events' = Append(events, StatusChanged("Cancelled", "Cancelled"))
    /\ UNCHANGED <<plan, stages, forms, subtasks, stageProgress>>

AmendCancellation ==
    /\ rfq.status = "Cancelled"
    /\ \E why \in Explanations : rfq' = [rfq EXCEPT !.reason = why]
    /\ UNCHANGED <<plan, stages, forms, subtasks, stageProgress, events>>

Next ==
    \/ CreateRfq
    \/ CancelRfq
    \/ AmendCancellation
    \/ \E i \in Stage :
        \/ UpdateStage(i)
        \/ Advance(i)
        \/ \E k \in Subtasks : CreateSubtask(i, k) \/ UpdateSubtask(i, k) \/ DeleteSubtask(i, k)

Spec == Init /\ [][Next]_vars

-----------------------------------------------------------------------------
(***************************************************************************)
(* What holds of a serially used RFQ.                                      *)
(***************************************************************************)
Closed == rfq.status \in TerminalStatuses

RowsOK ==
    /\ rfq \in [status   : RfqStatuses \cup {"Absent"},
                current  : Stage \cup {NoStage},
                progress : 0..100,
                reason   : Explanations \cup {None}]
    /\ \E n \in 0..Size :
          /\ plan \in [1..n -> 1..Size]
          /\ stages \in [1..n -> StageRow]
          /\ forms \in [1..n -> Form]

SubtaskRow == [live : BOOLEAN, progress : 0..100, status : {"Open", "InProgress", "Done"}]

SubtasksOK ==
    /\ subtasks \in [Stage -> [Subtasks -> SubtaskRow]]
    /\ DOMAIN stageProgress = Stage

\* The types of the rows and columns (the range of a stage's progress, which
\* rests on an average, is in StageProgressIsRollup).
TypeOK == RowsOK /\ SubtasksOK

\* The stage list and the RFQ row tell the same story: an RFQ in preparation
\* is at its one live stage, with everything before it Completed and everything
\* after it untouched; a decided one has no live stage; it was Awarded or Lost
\* by completing every stage, and Cancelled with a prefix done and the rest
\* Skipped.
LiveStageIsCurrent ==
    /\ rfq.status = "Absent" <=> Stage = {}
    /\ rfq.status = "InPreparation" <=> rfq.current # NoStage
    /\ rfq.status = "InPreparation" =>
          \A i \in Stage :
             /\ i < rfq.current => stages[i].status = "Completed"
             /\ i = rfq.current => stages[i].status = "InProgress"
             /\ i > rfq.current => stages[i].status = "NotStarted"
    /\ rfq.status \in {"Awarded", "Lost"} =>
          \A i \in Stage : stages[i].status = "Completed"
    /\ rfq.status = "Cancelled" =>
          \E n \in Stage : \A i \in Stage :
             stages[i].status = IF i < n THEN "Completed" ELSE "Skipped"

RowDated(row) ==
    /\ row.status = "NotStarted" => ~ row.started /\ ~ row.ended
    /\ row.status = "InProgress" => row.started /\ ~ row.ended
    /\ row.status = "Completed"  => row.started /\ row.ended
    /\ row.status = "Skipped"    => (row.started <=> row.ended)

\* A stage carries a start date exactly when it was live at some time, and an
\* end date exactly when it then left the live state: advance() and the freeze
\* stamp the stage that was live and no other.  A dropped stage was live just
\* if it is the first one dropped.
DatesTellTheStory ==
    \A i \in Stage :
        /\ RowDated(stages[i])
        /\ stages[i].status = "Skipped" =>
              (stages[i].started <=> (i = 1 \/ stages[i - 1].status = "Completed"))

\* The stored RFQ progress, which is recomputed by advance() and by the freeze
\* only, is at every moment the whole percentage of stages completed, and it
\* reaches 100 exactly when the RFQ is decided.
ProgressTellsClosure ==
    /\ Closed <=> rfq.progress = 100
    /\ rfq.status = "InPreparation" =>
          LET done == Cardinality(CompletedStages(stages)) * 100
          IN  /\ rfq.progress * Cardinality(Stage) <= done
              /\ done < (rfq.progress + 1) * Cardinality(Stage)

\* A stage's stored progress is a percentage, the average over its undeleted
\* subtasks; the 100 that advance() writes differs from it only where there
\* are none.
StageProgressIsRollup ==
    \A i \in Stage :
        /\ stageProgress[i] \in 0..100
        /\ stageProgress[i] # Rollup(subtasks[i]) =>
            /\ stages[i].status = "Completed"
            /\ Active(subtasks[i]) = {}
            /\ stageProgress[i] = 100

\* A stage becomes Completed only with all it requires: its mandatory fields
\* captured, none of its mandatory decisions "no" (advance() checks the blocker,
\* not the decision, so this needs every PATCH before it to have kept the two
\* together), no "no-go" and no open subtask.
CompletedStageWasClear ==
    [][\A i \in Stage :
          stages[i].status # "Completed" /\ stages'[i].status = "Completed" =>
             /\ MandatoryCaptured(forms[i], Mandatory(i))
             /\ NegativeDecision(Mandatory(i), forms[i].captured) = None
             /\ ~ NoGo(i)
             /\ \A k \in Subtasks : subtasks[i][k].live => subtasks[i][k].progress = 100
      ]_vars

\* Nothing reopens a decided RFQ: its status, its stages and its progress never
\* change again, and no more is published about it.
TerminalIsFinal ==
    [][Closed => /\ rfq' = [rfq EXCEPT !.reason = rfq'.reason]
                 /\ UNCHANGED <<plan, stages, events>>]_vars

\* A consumer that sees the publications in order can rebuild the RFQ: first
\* its creation, then one stage.advanced per Completed stage in stage order and,
\* if it is decided, one status change to the present status: after the stages
\* of a Cancelled RFQ, before the last stage of an Awarded or Lost one.
EventsTellTheLife ==
    LET done      == Cardinality(CompletedStages(stages))
        upTo(n)   == <<RfqCreated>> \o [k \in 1..n |-> StageAdvanced(k)]
        decided   == StatusChanged("InPreparation", rfq.status)
    IN  events = CASE rfq.status = "Absent"        -> <<>>
                   [] rfq.status = "InPreparation" -> upTo(done)
                   [] rfq.status = "Cancelled"     -> Append(upTo(done), decided)
                   [] OTHER -> upTo(done - 1) \o <<decided, StageAdvanced(done)>>

\* A Lost or Cancelled RFQ says why, whichever of the four ways led there.
DecisionExplained == rfq.status \in {"Lost", "Cancelled"} => rfq.reason # None

\* The RFQ walks through its stages as RfqWalk says.
Walk == INSTANCE RfqWalk WITH
    MaxStages <- Size,
    status    <- rfq.status,
    open      <- {i \in Stage : stages[i].status \in {"NotStarted", "InProgress"}},
    done      <- {i \in Stage : stages[i].status = "Completed"},
    dropped   <- {i \in Stage : stages[i].status = "Skipped"}

\* Every behaviour of the service's handlers is one of the abstract walk: stages
\* done strictly in order, one final decision, nothing dropped that was done.
WalksThroughStages == Walk!WalkSpec
=============================================================================
