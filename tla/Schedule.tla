------------------------------- MODULE Schedule -------------------------------
(***************************************************************************)
(* The calendar of one RFQ: its deadline, the planned dates that create()  *)
(* and a PATCH of the deadline derive from it, the actual dates that       *)
(* advance() and the freeze stamp, and the windows in which subtasks and   *)
(* reminders of a stage may be due.  It is RfqLifecycle with days: every   *)
(* request of the lifecycle is made on some day and leaves its dates.      *)
(*                                                                         *)
(* Day 0 is the day of the creation.  Requests run one after another.      *)
(***************************************************************************)
EXTENDS RfqLifecycle

CONSTANTS
    Durations,      \* Durations[t]: planned_duration_days of template t
    Deadlines,      \* the deadlines clients ask for, in days after the creation
    LastDay         \* bound on time

ASSUME CalendarAssumption ==
    /\ DOMAIN Durations = DOMAIN Template
    /\ \A t \in DOMAIN Durations : Durations[t] \in Int
    /\ Deadlines \subseteq Int
    /\ LastDay \in Nat

VARIABLES
    today,
    deadline,
    planned,        \* planned[i]: planned_start and planned_end of stage i
    actual          \* actual[i]: actual_start and actual_end of stage i

calendar == <<deadline, planned, actual>>
scheduleVars == <<vars, today, calendar>>

NoDate == -1
NoDates == [start |-> NoDate, end |-> NoDate]

-----------------------------------------------------------------------------
(* Durations and feasibility.                                              *)

\* _get_stage_planned_duration_days
Duration(t) == IF Durations[t] > 0 THEN Durations[t] ELSE 0

TotalDuration(templates) == MapThenSumSet(Duration, templates)

MinimumFeasibleDeadline(templates) == today + TotalDuration(templates)

\* deadline cannot be in the past, nor too narrow for the workflow; the slip
\* asks the first of the two only.
AcceptableNotPast(day, templates) == day >= today

Acceptable(day, templates) == day >= today /\ day >= MinimumFeasibleDeadline(templates)

\* A plausible slip: the time left after a stage is that of the whole workflow.
PlannedInWorkflow(day, kept, i) ==
    LET end == day - TotalDuration({t \in 1..Size : t > kept[i]})
    IN  [start |-> end - Duration(kept[i]), end |-> end]

\* _calculate_stage_dates: from the deadline back, the last stage first.
PlannedStage(day, kept, i) ==
    LET end == day - TotalDuration({kept[j] : j \in {k \in DOMAIN kept : k > i}})
    IN  [start |-> end - Duration(kept[i]), end |-> end]

StageDates(day, kept) == [i \in DOMAIN kept |-> PlannedStage(day, kept, i)]

Open(row) == row.status \in {"NotStarted", "InProgress"}

\* A plausible slip: the stages that are over are planned anew as well.
RecalculatedAll(day) == StageDates(day, plan)

\* _recalculate_stage_dates: a stage that is over keeps its dates, and its
\* share of the time.
Recalculated(day) ==
    [i \in Stage |-> IF Open(stages[i]) THEN PlannedStage(day, plan, i) ELSE planned[i]]

-----------------------------------------------------------------------------
(* The requests.                                                           *)

ScheduleInit ==
    /\ Init
    /\ today = 0
    /\ deadline = 0
    /\ planned = <<>>
    /\ actual = <<>>

\* The feasibility is that of the stages kept.
CreateScheduled ==
    /\ CreateRfq
    /\ \E day \in Deadlines :
          /\ Acceptable(day, {plan'[i] : i \in DOMAIN plan'})
          /\ deadline' = day
          /\ planned' = StageDates(day, plan')
    /\ actual' = [i \in DOMAIN plan' |-> [NoDates EXCEPT !.start = IF i = 1 THEN today ELSE NoDate]]
    /\ UNCHANGED today

\* PATCH of the RFQ with a deadline.  The feasibility is that of the whole
\* workflow from today on, whichever stages were kept or are already over.
\* (rfq.deadline_changed is published when the day is another one.)
ChangeDeadline ==
    /\ rfq.status = "InPreparation"
    /\ \E day \in Deadlines :
          /\ Acceptable(day, 1..Size)
          /\ deadline' = day
          /\ planned' = Recalculated(day)
    /\ UNCHANGED <<vars, today, actual>>

EndedToday(i) == [actual EXCEPT ![i].end = today]

HandedOver(i) == [EndedToday(i) EXCEPT ![i + 1].start = today]

\* apply_terminal_stage_freeze: a current stage in progress ends today.
FrozenDates ==
    IF rfq.current # NoStage /\ stages[rfq.current].status = "InProgress"
      THEN EndedToday(rfq.current)
      ELSE actual

AdvanceScheduled(i) ==
    /\ \/ AdvanceToNext(i)    /\ actual' = HandedOver(i)
       \/ AdvanceNoGo(i)      /\ actual' = FrozenDates
       \/ AdvanceToOutcome(i) /\ actual' = EndedToday(i)
    /\ UNCHANGED <<today, deadline, planned>>

CancelScheduled ==
    /\ CancelRfq
    /\ actual' = FrozenDates
    /\ UNCHANGED <<today, deadline, planned>>

\* The requests that stamp no date.
Undated ==
    /\ \/ AmendCancellation
       \/ \E i \in Stage :
            \/ UpdateStage(i)
            \/ \E k \in Subtasks : CreateSubtask(i, k) \/ UpdateSubtask(i, k) \/ DeleteSubtask(i, k)
    /\ UNCHANGED <<today, calendar>>

NextDay ==
    /\ rfq.status # "Absent"
    /\ today < LastDay
    /\ today' = today + 1
    /\ UNCHANGED <<vars, calendar>>

ScheduleNext ==
    \/ CreateScheduled
    \/ ChangeDeadline
    \/ \E i \in Stage : AdvanceScheduled(i)
    \/ CancelScheduled
    \/ Undated
    \/ NextDay

ScheduleSpec == ScheduleInit /\ [][ScheduleNext]_scheduleVars

-----------------------------------------------------------------------------
(* Windows for due dates.                                                  *)

Days(dates) == IF dates.end > dates.start THEN dates.end - dates.start ELSE 0

\* A plausible slip: a live stage that started late keeps its planned end.
WindowUnshifted(i) ==
    IF actual[i].start = NoDate THEN planned[i]
    ELSE IF actual[i].end # NoDate THEN actual[i]
    ELSE [start |-> actual[i].start, end |-> planned[i].end]

\* _resolve_due_date_window: the actual dates of a stage that has both; for a
\* live one its planned duration from its actual start, or its planned end if
\* that is later; else the planned dates.
Window(i) ==
    LET shifted == actual[i].start + Days(planned[i]) IN
    IF actual[i].start = NoDate THEN planned[i]
    ELSE IF actual[i].end # NoDate THEN actual[i]
    ELSE [start |-> actual[i].start,
          end   |-> IF shifted > planned[i].end THEN shifted ELSE planned[i].end]

\* SubtaskController._validate_due_date
SubtaskMayBeDue(i, day) == Window(i).start <= day /\ day <= Window(i).end

\* ReminderController._validate_due_date, for a reminder of stage i or, with
\* NoStage, of the RFQ.
ReminderMayBeDue(i, day) ==
    /\ day >= today
    /\ IF i = NoStage THEN day <= deadline ELSE SubtaskMayBeDue(i, day)

-----------------------------------------------------------------------------
(* What the calendar keeps.                                                *)

\* The types of the dates.  The dates that are set are those the flags of the
\* lifecycle say, and no stage ends before it starts or in the future.
CalendarOK ==
    /\ today \in Nat
    /\ DOMAIN planned = Stage
    /\ actual \in [Stage -> [start : Int, end : Int]]
    /\ \A i \in Stage :
          /\ IF stages[i].started THEN actual[i].start \in 0..today ELSE actual[i].start = NoDate
          /\ IF stages[i].ended THEN actual[i].end \in actual[i].start..today
                                ELSE actual[i].end = NoDate

\* The stages still to be done fill the time to the deadline without a gap or
\* an overlap, the last of them ending on it, however often the deadline moved
\* while stages were being completed.
OpenStagesReachDeadline ==
    \A i \in Stage : Open(stages[i]) =>
        planned[i].end = IF i + 1 \in Stage THEN planned[i + 1].start ELSE deadline

\* Whenever dates are planned, no stage still to be done is planned into the
\* past: a deadline accepted for the whole workflow leaves room for the rest of
\* any selection of its stages, and a live stage ceases to be overdue.
NeverPlannedIntoThePast ==
    [][planned' # planned =>
          \A i \in DOMAIN planned' : Open(stages'[i]) => planned'[i].start >= today]_scheduleVars

\* What is over is on record: neither the planned nor the actual dates of a
\* stage that is Completed or Skipped change, by a PATCH of the deadline, an
\* advance, a freeze or anything else.
PastStands ==
    [][\A i \in Stage : ~ Open(stages[i]) =>
          planned'[i] = planned[i] /\ actual'[i] = actual[i]]_scheduleVars

\* Every stage has a window in which subtasks may be due.  A live stage has at
\* least its planned duration, however late it was started and wherever the
\* deadline went.  Work on a later stage is not due before an untouched earlier
\* one, and as long as the deadline has not passed, work on the last stage may
\* be due on it.
WindowsLeaveRoom ==
    \A i \in Stage :
        /\ Window(i).start <= Window(i).end
        /\ i = rfq.current => Days(Window(i)) >= Duration(plan[i])
        /\ i + 1 \in Stage /\ stages[i].status = "NotStarted"
              => Window(i).end <= Window(i + 1).start
        /\ i + 1 \notin Stage /\ Open(stages[i]) /\ today <= deadline
              => SubtaskMayBeDue(i, deadline) /\ ReminderMayBeDue(i, deadline)
=============================================================================
