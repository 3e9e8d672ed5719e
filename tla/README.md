# rfq_manager_ms in TLA+

The service keeps RFQs (requests for quotation), walks each through the stages of a
workflow, tracks the subtasks, blockers and files of a stage, plans and moves its dates,
hands out RFQ codes, sends reminders and tells an event bus what happened. It is a FastAPI
application: a request runs in a thread (an upload on the event loop), with one SQLAlchemy
session and one PostgreSQL transaction (`src/src/database.py`). Paths below are relative to
the repository; `PROJECT.json` lists the components, runs, hazards, findings and theorems,
and maps each definition to the lines it models.

## 1. Inventory

| Component | State it keeps | Operations | What makes it correct |
|---|---|---|---|
| Lifecycle rules (`utils/rfq_status.py`, `utils/rfq_lifecycle.py`) | none, pure | transition check, progress, freeze | progress is 100 just when the RFQ is decided; the freeze leaves no live stage |
| RFQ commands (`controllers/rfq_controller.py`) | row `rfq`: status, `current_stage_id`, progress, outcome reason, deadline | create, cancel, PATCH of reason and deadline | one decision, final and explained |
| Stage engine (`controllers/rfq_stage_controller.py`, `advance`) | rows `rfq_stage`: status, actual dates, progress | advance to the next stage, to "no-go", to an outcome | stages done in order, none completed against a missing field, a blocker, a "no" or an open subtask |
| Schedule (the two controllers above, and the windows in those of subtasks and reminders) | deadline, planned and actual dates | planning at create, anew at each move of the deadline; windows for due dates | open stages fill the time to the deadline; what is over stands; every stage has a window |
| Stage form (the stage controller, `update`, and `advance` to an outcome) | `captured_data` with the trail and the automatic blocker source; blocker status and reason | PATCH of a stage; the outcome, its lost reason and their entry written by `advance` | a negative decision keeps the stage Blocked, with a reason; the trail agrees with the row |
| Subtasks (`controllers/subtask_controller.py`) | rows `subtask`; `rfq_stage.progress` | create, update, delete, each with a rollup | progress is the average of the undeleted subtasks, and never goes back |
| Stage files (stage and file controllers, `utils/file_storage.py`) | rows `rfq_file`, bytes on the disk | upload, soft deletion, download | a row leads to the whole of its bytes; an accepted download is delivered |
| Code allocation (`datasources/rfq_datasource.py`) | `rfq_code_counter`, unique index on `rfq_code` | `get_next_code` inside create | no two equal codes, no gap, no refusal |
| Workflows (`controllers/workflow_controller.py`, `scripts/bootstrap_base_data.py`) | `workflow.is_default` | PATCH of a workflow, base data | one default |
| Reminders (`services/notification_service.py`, `controllers/reminder_controller.py`) | rows `reminder`, `reminder_rule` | create, resolve, toggle a rule, batch | one active reminder per context; at most once a day and `max_sends` times |
| Authentication, IAM (`utils/auth.py`, `connectors/iam_service.py`) | none | permission and team checks | who is refused changes nothing |
| Process: loop, threads, pool (`app.py`, `database.py`, routes) | connections | | it does not hang |
| Event bus (`connectors/event_bus.py`) | none in the service | publish after the commit, failures only logged | what is announced has been committed |
| Notes, queries, logging, settings, scripts | none that others read | | section 6 |

**How they interact.** Components call each other inside one request and share rows: the
stage engine writes the RFQ row and counts all its stages; subtasks write the progress of
their stage, which `advance` sets to 100, and their due dates must be in the window the
dates of the stage give; the form's blocker is the only thing that tells `advance` of a
negative decision; the reminder batch reads deadlines, statuses and current stages; the
milestones of an RFQ are read off its files. Requests meet only in the database, on the
disk and in the pool of connections: no row is read `FOR UPDATE` (except that the code
counter's `UPDATE ... RETURNING` locks), no row has a version column, the session does not
flush before it queries, and an `UPDATE` names only the columns that changed.

**What is hard.** Overlapping requests that check what they read and write later; two
columns that belong together but are written by two requests; long sequences of requests
that separate a decision from its blocker or a plan from its deadline; lock waits in no
fixed order, and a handler that waits on the loop for what only the loop can free; events
built from rows read again after the commit, each of which may be lost; a batch that sends
before it records; a file in two places; counters started by several creations at once.
`PROJECT.json` lists each at the line where it bites, with the property that would notice,
or the reason why none does.

## 2. Modules

| Module | Models | Correspondence |
|---|---|---|
| `RfqRows` | the pure rules on rows | `ValidTransition`, `LifecycleProgress`, `FreezeStages`, `DeriveStatus` are the functions of the two utils files and of the subtask controller |
| `FormRules` | validator and `_normalize_stage_update` | `ValidPatch` is `validate_blocker_fields`, `PatchAccepted` adds the 422 for a "no" without a reason, `PatchedForm` is the row written; `OutcomeForm` is what `advance` to an outcome writes into it (`_handle_terminal_outcome_completion`) |
| `RfqLifecycle` | the life of one RFQ, requests one after another | `CreateRfq`, `UpdateStage`, `CreateSubtask`/`UpdateSubtask`/`DeleteSubtask`, `AdvanceToNext`/`AdvanceNoGo`/`AdvanceToOutcome`, `CancelRfq`/`AmendCancellation`; a refused request changes nothing and is no action; `AdvanceToOutcome` writes the outcome and lost reason into the stage's form as well |
| `Schedule` | `RfqLifecycle` with days | `StageDates` is `_calculate_stage_dates`, `Recalculated` `_recalculate_stage_dates`, `Acceptable` the feasibility, `Window` `_resolve_due_date_window`; each request of the lifecycle is conjoined with the dates it leaves |
| `RfqWalk` | abstract: what the service promises about one RFQ | implemented by `RfqLifecycle` and `Schedule` (`WalksThroughStages`) |
| `RfqConcurrent` | the transactions of advance, cancel and a blocking PATCH on one RFQ | sessions with loaded, read and changed rows; row locks; flush (`Update` row by row), `Commit`, `Announce`, `Die`, `DeadlockVictim` |
| `StageForm` | the two writers of one stage's form and audit trail, serial or overlapping | `Load` is the SELECT, `Save` the UPDATE and commit of a PATCH, `Complete` that of `advance` to an outcome, `Abandon` the refusal or loss |
| `SubtaskRollup` | the transactions of subtask requests on one stage | `Begin` reads, `Write` flushes and refreshes, `Rollup` averages, `Store` flushes the stage, `Commit` |
| `RfqCodes` | overlapping creations up to their code | `Seed`/`EnsureCounterRow` are `INSERT ... SELECT MAX ... ON CONFLICT DO NOTHING`, `Allocate` the `UPDATE ... RETURNING`, `CreateRfq` the INSERT into the unique index |
| `CodeDispenser` | abstract: each prefix a ledger | implemented by `RfqCodes` (`DispensesInOrder`) |
| `Reminders` | users' reminders, rules of each scope, and batches that may overlap or die | `Reconcile`, `Send`, `Commit` are the three parts of `process_due_reminders`; `Crash` loses a batch in between |
| `WorkflowDefault` | PATCHes of workflows, overlapping, and the base data | `Clear`, `ClearRow`, `Cleared` are the bulk UPDATE row by row, `WriteRow` the flush; `Reseed` is `seed_base_data` |
| `ServerProcess` | event loop, threads, pool | operators that a component's handlers conjoin: `RunsOnLoop`, `Connects`, `TimesOut`, `Disconnects` |
| `Authorization` | permissions, bypass, team checks | `HasPermission`, `Admits`, `MayDelete`, `MayAdvanceFor` are the functions of the same names in `utils/auth.py` and the controllers |
| `FileStore` | files of the stages | composes the two above with `BeginUpload` ... `ReloadRow`, `FindToDelete`/`MarkDeleted`, `FindToSend`/`Send`; `Fail` and `Crash` at each step |
| `MCRfqLifecycle`, `MCSchedule`, `MCRfqConcurrent`, `MCStageForm`, `MCSubtaskRollup`, `MCRfqCodes`, `MCReminders`, `MCWorkflowDefault`, `MCFileStore` | | small values for the constants |
| `RfqLifecycleProofs`, `RfqConcurrentProofs`, `StageFormProofs`, `SubtaskRollupProofs`, `RfqCodesProofs`, `RemindersProofs`, `WorkflowDefaultProofs`, `FileStoreProofs` | | theorems, section 5 |

`RfqLifecycle` composes `RfqRows` and `FormRules`, and `Schedule` extends it with days;
`RfqConcurrent` and `SubtaskRollup` use `RfqRows` with transactions in place of atomic
requests; `StageForm` does so with `FormRules`. The serial model says what each handler
means to do, the concurrent ones what is left of it.

Some operators marked "a plausible slip" (`FreezeLaterOnly`, `MayAdvanceAnyStage`, ...) are
not behaviour of the code: each is a small error put in the place of the definition after it
to see that the property about it fails. No model uses them.

**Abstractions.** A stage is its `order`; field values are the normalised ones; reasons,
names and texts are members of small sets; a lost outcome carries its reason (`lost`, or
`lost_other` with the detail the code asks for). Dates are days, in `Schedule` and
`Reminders`; elsewhere a date is "set" or "not set". Publications are kept in the order in
which the bus hears them; in `RfqLifecycle` all of them arrive, in `RfqConcurrent` each
request's may be lost. The trail is in `StageForm` only, where in turn `advance`
takes the stage whenever its form allows: subtasks and the state of the RFQ are the matter of
`RfqLifecycle`, and `advance` of other stages, cancel and the freeze write no form. The free
text of an outcome's reason is "detail" or absent; in a lost one's the label of the lost
reason, which always comes first, stands for the whole. The 403 of a stranger to the stage's team changes nothing and is left
out (`TeamCheckFollows`, section 5). In `RfqConcurrent` mandatory fields and subtasks are
met, the blocker stands for them, and "no-go" is part of the request; in `SubtaskRollup`
name, assignee and due date are left out, and with them a request that locks the row without
changing the columns modelled; in `WorkflowDefault` name and description, so that a PATCH
always writes its row. A batch of reminders does not run over midnight. What a rule of the
batch may find of an RFQ is a set of situations, not the lifecycle itself. A file's path
keeps its id and its sanitized name, the two parts that could collide; all the ways in which
IAM can fail are one refusal.

## 3. Runs

Every run is one question. "States" are the distinct ones TLC finds; where
reasons, subtasks, requests or reminders are interchangeable they are counted once
(`SYMMETRY`, in runs without liveness properties).

| Run | Question | Bounds | States |
|---|---|---|---|
| `RfqWalks` | Do stages, dates, plan, progress, reason and events agree over whole lives, and is each life a walk? | 4 templates of 1, 2, 0 and 1 days, 2 optional, go/no-go first, outcome last; 4 days, deadlines on day 3 or 5, moved at any time | 98,801 |
| `RfqWork` | What lets a stage be completed, and is its progress the average? | 2 stages, one yes/no and one go/no-go mandatory, a source clients may name, 2 subtasks, progress 0 or 100 | 76,417 |
| `StageFormSerial` | Do decision, blocker, reason and trail agree after any sequence of PATCHes and an advance to an outcome? | 2 mandatory decisions and the outcome, a source clients may name, 2 reasons, a trail of 3 | 18,630 |
| `RfqOverlap` | What do the columns keep however requests overlap, and does each request end? | 3 stages, 3 requests of any kind, fairness | 245,929 |
| `RfqCodes` | Are codes distinct, gapless, given in order, and does each creation end? | 3 creations, 2 prefixes, one without a counter but with code 3 in use, fairness | 9,895 |
| `Reminders` | Cadence, limit, no duplicate, and the wanted reminders after a batch that ran alone | 3 days, 1 RFQ of 2 stages, a rule for deadlines and one for overdue stages, 2 reminders, 2 sends, 2 batches, one overlap or one death | 1,890,296 |
| `FileStore` | Do rows and bytes keep to each other, and does the process go on? | 3 requests, a pool of 2, one old file, 2 names that sanitize alike and one refused, 2 principals, fairness | 844,628 |
| `SubtasksOverlap` | What does a request that runs alone guarantee after any overlaps, do deletions last, do waits close a circle? | 2 threads, 2 subtasks, progress 50, 60, 100 | 1,442,651 |
| `StageFormRace_NegativeDecisionBlocks` | violation, section 4 | 2 clients, 1 decision | |
| `RfqRace` | violation | 2 stages, 2 requests | |
| `RemindersResolvedSent` | violation | 2 days, no crash, no overlap | |
| `WorkflowRace` | violation | 3 workflows, 2 threads | |

**Why the bounds are enough.** Four stages of which two may be missing give every shape the
plan distinguishes (a live stage, one without a duration, gaps in the template on either side of the live
one) and progress values that round (1 of 3, 2 of 3). Four days let the live stage start
late, run past its planned end up to the deadline of day 3, and be planned anew by a move
to day 5. Two decisions are needed
for one to hide behind the other (the code reports the first only), and two reasons for a
reason to change; three entries make the trail overflow within one request, which adds up to
four. A client that names the automatic source itself can name the second of the two
decisions, the one that the code does not; it names none in `RfqWalks`, which has no yes/no
field, and in the violation, which needs none. Three overlapping requests let one read before, one write between and one commit
after; each request is made once, and as no row remembers who wrote it more requests repeat
these orders. In `SubtasksOverlap` and `WorkflowRace` threads serve any number of requests.
Two progress values of the same status (50 and 60) let an UPDATE leave the status out.
Reminders need two days for a second sending and a third for one too many at `MaxSends = 2`
(3 in the code), two rules for contexts of an RFQ and of a stage, and two reminders so
that a duplicate has room. In `FileStore` two connections and three requests make the pool
run out while an upload holds the loop. Where a bound could hide something, the theorems of
section 5 have none.

Named bounds are `HistoryLimit` (100 in the code), `Sources` (both yes/no fields in the code), `LastDay`, `Deadlines`, `Durations`,
`Dues`, `Situations`, `MaxTrouble` (overlaps and deaths of batches together), `PoolSize`,
the sizes of `Slots`, `Tasks` and `Subtasks`, and that `Commit` of a batch needs a free slot
for each new reminder; the length of `events` is bounded by the life itself.

`CHECK_DEADLOCK FALSE` stands where the system may stop: when all requests have been made
(`RfqConcurrent`, `RfqCodes`, `FileStore`) and when every subtask identity is used up
(`SubtaskRollup`); `WorkflowRace`, a violation, has it as well. The other runs check
deadlock.

**Fairness.** `RfqConcurrent!FairSpec` and `FileStore!FairSpec` assume weak fairness of
"some request does its next step", and no more: threads and loop are not stopped, a wait for
a lock ends when the holder's transaction does, PostgreSQL fails one member of a circle of
waits (`DeadlockVictim`), and the pool gives a waiter up after its timeout (`PoolTimeout`).
Which request goes on is left to the scheduler. `RfqCodes!FairSpec` assumes it of each
creation, as `CreationsEnd` is about each: a creation waits for one row only, and no lock is
taken again and again in front of it, each creation being made once. Nothing obliges clients
to ask (`Start`, `Ask`) or a worker to die (`Die`, `Fail`, `Crash`).

## 4. What the runs found

1. **Decision and blocker part** (`StageFormRace_NegativeDecisionBlocks`). Of two overlapping
   PATCHes, one records "no" and one lifts a blocker; each writes its own columns, and the
   stage ends with "no" and not Blocked, so `advance` lets it pass.
2. **A decided RFQ changes** (`RfqRace`, `DecidedIsReadOnly`). A cancel that overlaps the
   advance of the last stage replaces Awarded by Cancelled, or the reverse; and an advance
   that read the RFQ before a cancel committed gives the cancelled RFQ a current stage again.
   What remains true is `DecidedStaysDecided`: no overlap makes it open again. Without
   overlap the RFQ is read-only, which is proved (`ReadOnlyInTurn`).
3. **A resolved reminder is sent** (`RemindersResolvedSent`). What the batch resolves in
   memory is still "open" for its own query for due reminders.
4. **Two default workflows** (`WorkflowRace`). Two PATCHes that overlap, each for another
   workflow, clear the old default and commit one new default each. Without overlap there
   is one at most, which is proved (`OneDefaultInTurn`).

Further consequences of overlap seen while modelling, not made runs of their own as no text
in the repository promises otherwise or they have the same cause: a duplicate `advance` with
a stale `current_stage_id` moves the current stage back (`rfq_stage_controller.py:207`) or
sets a Completed one to "In Progress" - its end date stays, which is what `NothingSkipped`
says; two `rfq.status_changed` are published for one RFQ; overlapping PATCHes leave a stage
Blocked without a reason; overlapping batches insert a reminder twice, or send one twice;
overlapping subtask requests take progress back, leave status and progress of a subtask in
disagreement, and leave a stage progress that is no average of anything until the next
request that runs alone (`LoneRequestSettles`).

Smaller observations: `advance` with another lost reason than the captured one replaces
it and leaves no entry about it but the reason text of the outcome's
(`rfq_stage_controller.py:721`), so that the trail's last `rfq_lost_reason_code` is the old
one; a client can set the automatic blocker source itself, inside `captured_data`, while no
decision is "no" (`rfq_stage_controller.py:373`), and a blocker is then lifted by a decision
that did not raise it; running the base data again beside a default chosen by a
client among workflows it does not define leaves two (`bootstrap_base_data.py:132`); an upload
whose answer finds no connection is stored and answered 500, so that a retry stores it twice;
a PATCH of the deadline asks for time for the whole workflow, stages left out or over
included; an explicit `null` clears `blocker_status`, though the model says `NULL = never
blocked` (`models/rfq_stage.py:86`); `RELEASE_v1.0.0.md:21` still lists code generation as
non-atomic, which `docs/KNOWN_LIMITATIONS.md:10` and the code contradict; `actual_end` is
also set on a Skipped stage; a PATCH to "Resolved" keeps the old reason code; a captured
field cannot be cleared again; a stage of a decided RFQ can still be PATCHed and given
subtasks; the automatic blocker source survives requests without `captured_data`.

## 5. What is proved

TLAPS checks the following for every value of the constants. TLC has checked the formulas
that runs name, and during development the strengthenings `PlanOK`, `ProgressOK`, `LInv`,
`OneUpload` and the two `SerialInv` on small instances; the types of the other modules,
`CalendarOK`, `DecisionExplained`, `TerminalIsFinal` and the two properties of
`WorkflowDefault` stand on their proofs alone. Every invariant and action property that a
passing run checks is a theorem here.

**`RfqLifecycleProofs`** - any workflow (`TemplateAssumption`: a non-empty sequence of
templates with known fields), any set of subtasks, steps, reasons. The properties are not
inductive one by one: a freeze leaves a prefix Completed only because the live stage is the
current one, progress is below 100 only because the live stage is not Completed, and a
stage is completed without a "no" only if every PATCH kept the blocker. The invariant is

    IInv == RowsOK /\ LiveStageIsCurrent /\ DatesTellTheStory
              /\ ProgressTellsClosure /\ DecisionExplained /\ FormsSound

where `FormsSound` (a mandatory "no" means Blocked, for each stage) is the part no run
checks by itself; `StageForm` checks its stronger form. One lemma per action shows that it
keeps `IInv`. From it: `OneLiveStage`, `DatesTrue`, `ProgressTrue`, `Explained`;
`ClosedForGood` (no request changes a decided RFQ, its stages or the publications) and
`NoCompletionAgainstNo`; `ImplementsWalk`, the refinement of `RfqWalk`; with `SubtasksOK`
beside it, `TypesCorrect`; with `EventsTold`, which gives the publications as a function of
the number of Completed stages, `EventsTrue`.
`ScheduleRefines` shows that `Schedule` takes the steps of `RfqLifecycle`, which carries all of
this over; on it rest `DatesInOrder` (`CalendarOK` is inductive beside `IInv`) and
`RecordStands`.

Two groups of its theorems need sums over sets, which the community modules define by
folding, out of reach of induction here. The lemmas about them avoid it by counting: the sum
of `f` over a finite set is the number of pairs of an element and a unit of its value
(`SumCounts`; where it failed, a smallest set for which it fails would exist, as finite sets
are well-founded under inclusion, and without one of its elements it would be smaller still).
That a sum splits, grows with its set or is bounded is then a fact about cardinalities.

- *Progress of a stage.* `ProgressOK` adds to the property that a stage has finitely many
  undeleted subtasks; the bound of 100 on their average is one of such sums.
  From it: `ProgressIsAverage`.
- *The plan.* `PlanOK`: the stages an RFQ keeps are in the order of their templates, each is
  planned for its duration, and the open ones meet the deadline. The order is what a request
  needs to see that days of work on a selection are no more than those on the whole
  workflow, which is all it asks room for. From it: `OpenStagesMeetDeadline`,
  `PlansForTheFuture`; and with `CalendarOK`, `WindowsHaveRoom`.

**`StageFormProofs`** - any fields, reasons and limit of the trail, under `OneClient`: with
two clients the first property fails (section 4), so the hypothesis is part of each
theorem about the specification. The invariant adds to the properties that what the client has read is the row
(`ReadIsCurrent`) and that the last entry in the trail on each subject (the blocker, a
decision, the outcome, the lost reason) tells the row (`SaysLatest`), which cutting the trail
at the front preserves and the entries of either writer restore: those of a PATCH
(`Retold`), and the one of `advance` to an outcome, whose reason names the lost reason and so
counts as an entry on it (`OutcomeIsTold`, `OutcomeKeepsTheRest`). From it: `DecisionAndBlockerAgree`, `ReasonIsKept`, `SourceIsTheNo`,
`TrailIsTrue`, `TrailOnlyGrows`, `TypesCorrect`. `RetryChangesNothing` is about the
operators: a PATCH made twice is accepted twice, and the second changes neither form nor
trail. Its hypothesis leaves out the one exception TLC found, a request that lifts a blocker
with an explicit `null`: "Resolved" the first time, `null` the second.

**`RfqConcurrentProofs`** - any number of stages, of requests, deaths and deadlocks. The
invariant relates each session to the rows (`Facts`: what it read as ended or decided still
is; the current stage it would write is reached), says what it has done by the point it
has reached (`Purpose`), what its flush has still to send (`Flushed`) and what its
uncommitted versions hold (`Locks`). All rest on end dates and decisions never being
taken back (`Forward`). From it: `LooksOpenAlways`, `NothingIsSkipped`, `AnnouncedIsTrue`,
`DecisionsLast`. `ReadOnlyInTurn` has the hypothesis that at any time at most one
transaction is open (`OneAtATime`; publications may still be under way) and shows that
`DecidedIsReadOnly` then holds. Its invariant, `SerialInv`, says that a request past its
checks found the RFQ open and that what it has read is still what is stored.

**`SubtaskRollupProofs`** - any number of subtasks and threads (`StageAssumption`: the
stage's row is none of the subtasks'). `Locks`: a request locks its subtask before the stage
(`NoCircle`). `Lasting`: what is deleted stays so in rows and uncommitted versions
(`DeletionsLast`). `Alone` and `Settling`: a request that nothing overlapped works on what
is stored (`LoneProgress`, `LoneRepair`, `LoneAverage`).

**`RfqCodesProofs`** - any number of creations and prefixes, old codes with gaps, counters
migrated or not (`LegacyAssumption`). The invariant is `TypeOK` with what the committed
counter says of the codes in use (`LedgerOK`), what each transaction knows while it
holds the row (`SessionOK`), and `CodesNeverCollide`. The crux: a seed read from an old
snapshot is used only if no counter row has been committed since, and with no counter row no
code of the prefix has been given. From it: `TypesCorrect`, `NeverCollide`, `NoGaps`, and
`ImplementsDispenser`, the refinement of `CodeDispenser`.

**`RemindersProofs`** - any number of RFQs, rules, reminders, batches and days, without
`MaxTrouble` in the conclusion (`RemindersAssumption`: the constants are of their kind). The
limits are kept by an account of each reminder: the sends made, and the running batches that
may still send it, never exceed those recorded in its row, one that is pending, and one for
each batch that began beside another or died (`Accounts`). It needs that a running batch's copy differs from the row
by at most what has been sent today (`Holding`). From it: `SentOncePerDay`,
`SentWithinLimit`; and with `Apart` (without overlaps, what the batch is about to insert has
no reminder yet), `NoDuplicates`. `LoneBatchRepairs` assumes nothing about the past: its
invariant `LInv` says what a batch that has been alone knows (`Knows`): it has loaded every
automatic reminder, none has changed since, and it is about to leave one with the right
date for each context it found due and to resolve one of each other.

**`WorkflowDefaultProofs`** - any workflows, threads and bodies (hypothesis `WorkflowsOK`:
the base data's default is among the workflows it defines). `DefaultStays`: where no client
sets the flag to false or null there is always a default. `LonePatchRepairs`: a PATCH that
makes a workflow the default and that nothing overlaps leaves it the only one. They say
what is left of `OneDefault`; no run has them, as the run about this module is the one that
fails. `OneDefaultInTurn`: if requests do not overlap (`OneAtATime`), and every workflow is
one the base data defines, which no request changes, `OneDefault` holds.

**`FileStoreProofs`** - any requests, old files, pool and sanitizing. The invariant says that
a path begins with the file whose bytes it has (`PathsAreOwn`), and what each request has
reached (`Fits`). From it: `RowsComplete`, `DownloadsComplete`, `StraysExplained`,
`TypesCorrect`. An upload holds the loop from its `at` to its commit, so there is one at a
time and its time is later than that of any row (`UploadsAreAlone`); with the greatest element
of a finite set of times, `MilestonesMoveForward`. `TeamCheckFollows` shows that whoever the route admits to `advance` passes
the controller's team check unless the stage has no team.

**Only model-checked.** Liveness under fairness: `RequestsFinish`, `CreationsEnd`,
`RequestsEnd`. The prover handles neither `ENABLED` nor the well-founded arguments these
need. The four violations are runs by nature; for two of them the proofs show that
overlap is the only cause (`ReadOnlyInTurn`, `OneDefaultInTurn`), as the theorems under
`OneClient` do for the first.

## 6. Not modelled, and what is left

Not modelled for good: queries, statistics, export and pagination (they change nothing;
the milestones, which depend on an order of requests, are in `FileStore`); notes
(append-only, read by nothing); two tables no code writes
(`docs/ADR_H5_DORMANT_MODELS.md`); logging, metrics, settings, error bodies and the parsing
of headers (no business state); the script that writes demo scenarios directly into the
tables, past every handler (`scripts/seed_rfqmgmt_scenarios.py`); what a disk keeps
without `fsync` when the machine, not the process, fails; response schemas that refuse a
nullable flag; the e-mail stub.

Done: all modules of section 2, their runs and proofs. What is left, the most useful first:

1. Dates under overlapping requests: `RfqConcurrent` with planned dates, a PATCH of the deadline
   against an advance, and what a plan mixed from two deadlines still guarantees.
2. The reminder batch on top of `Schedule` in place of `Situations`, so that the overdue
   stages it finds are those the calendar produces.
3. Weaker forms of the properties that overlap breaks: of `NegativeDecisionBlocks`, that a
   PATCH alone with the row repairs it, as `LonePatchRepairs` says of the default.
