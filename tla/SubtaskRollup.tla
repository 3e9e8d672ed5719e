---------------------------- MODULE SubtaskRollup ----------------------------
(***************************************************************************)
(* The subtasks of one stage and the progress of the stage, which every    *)
(* create, update and delete of a subtask recomputes in its transaction    *)
(* (SubtaskController).  The transactions overlap as in RfqConcurrent: the *)
(* subtask and the stage are read first, the subtask's changed columns are *)
(* flushed and read again, the undeleted subtasks are listed (committed    *)
(* rows, and the transaction's own), and the stage's progress is flushed   *)
(* if it differs from the one read first.  Row 0 is the stage.             *)
(***************************************************************************)
EXTENDS RfqRows, FiniteSetsExt

CONSTANTS
    Requests,       \* threads that serve subtask requests, one after another
    Tasks,          \* identities of subtasks
    Steps,          \* the progress values clients use
    Nobody

ASSUME StepsAssumption == Steps \subseteq 0..100
ASSUME NobodyAssumption == Nobody \notin Requests

Stage == "stage"
ASSUME StageAssumption == Stage \notin Tasks

VARIABLES
    task,           \* task[k]: committed row of subtask k
    progress,       \* committed progress of the stage
    holder,         \* holder[k]: the request that has written row k and not committed
    version,        \* version[k]: the row as written by its holder
    tx              \* tx[p]: the request under way

vars == <<task, progress, holder, version, tx>>

NewTask == [exists |-> "no", progress |-> 0, status |-> "Open"]

\* seen and stage: the two rows as read at first; mine: the subtask as this
\* request wants it; average: what it computed for the stage; alone (history):
\* no other request has been under way beside it.
NoRequest == [pc |-> "idle", task |-> CHOOSE k \in Tasks : TRUE, seen |-> NewTask,
              mine |-> NewTask, stage |-> 0, average |-> 0, alone |-> TRUE]

Init ==
    /\ task = [k \in Tasks |-> NewTask]
    /\ progress = 0
    /\ holder = [r \in Tasks \cup {Stage} |-> Nobody]
    /\ version = [k \in Tasks |-> NewTask]
    /\ tx = [p \in Requests |-> NoRequest]

-----------------------------------------------------------------------------
At(p, pc) == tx[p].pc = pc

\* The rows as p sees them: its own uncommitted ones, else what is committed.
Visible(p) == [k \in Tasks |-> IF holder[k] = p THEN version[k] ELSE task[k]]

Live(rows) == {k \in Tasks : rows[k].exists = "yes"}

\* A plausible slip: deleted subtasks still count.
AverageOfAll(rows) ==
    LET counted == {k \in Tasks : rows[k].exists # "no"} IN
    IF counted = {} THEN 0
    ELSE MapThenSumSet(LAMBDA k : rows[k].progress, counted) \div Cardinality(counted)

Average(rows) ==
    IF Live(rows) = {} THEN 0
    ELSE MapThenSumSet(LAMBDA k : rows[k].progress, Live(rows)) \div Cardinality(Live(rows))

Begin(p, k, mine) ==
    LET others == {q \in Requests \ {p} : ~ At(q, "idle")} IN
    tx' = [q \in Requests |->
             IF q = p
               THEN [pc |-> "write", task |-> k, seen |-> task[k], mine |-> mine,
                     stage |-> progress, average |-> 0, alone |-> others = {}]
             ELSE IF q \in others THEN [tx[q] EXCEPT !.alone = FALSE]
             ELSE tx[q]]

Create(p) ==
    /\ At(p, "idle")
    /\ \E k \in Tasks :
        /\ task[k].exists = "no"
        /\ \A q \in Requests : At(q, "idle") \/ tx[q].task # k
        /\ Begin(p, k, [exists |-> "yes", progress |-> 0, status |-> "Open"])
    /\ UNCHANGED <<task, progress, holder, version>>

\* Plausible slips: the old progress is not looked at; the old status stays.
MayBecomeUnchecked(row, value) == value >= 0
WithProgressKeptStatus(row, value) == [row EXCEPT !.progress = value]

\* _normalize_subtask_update: 409 when the progress would go back.
MayBecome(row, value) == value >= row.progress
WithProgress(row, value) == [row EXCEPT !.progress = value, !.status = DeriveStatus(value)]

Update(p) ==
    /\ At(p, "idle")
    /\ \E k \in Live(task) :
        \E value \in Steps \cup {task[k].progress} :
            /\ MayBecome(task[k], value)
            /\ Begin(p, k, WithProgress(task[k], value))
    /\ UNCHANGED <<task, progress, holder, version>>

Delete(p) ==
    /\ At(p, "idle")
    /\ \E k \in Live(task) : Begin(p, k, [task[k] EXCEPT !.exists = "deleted"])
    /\ UNCHANGED <<task, progress, holder, version>>

\* An UPDATE that names every column, changed or not.
WrittenWhole(stored, seen, mine) == mine

Written(stored, seen, mine) ==
    [c \in DOMAIN stored |-> IF mine[c] = seen[c] THEN stored[c] ELSE mine[c]]

\* flush() and refresh(): without a changed column nothing is sent, and the
\* subtask is only read again.
Write(p) ==
    LET k == tx[p].task
        row == Written(task[k], tx[p].seen, tx[p].mine)
    IN  /\ At(p, "write")
        /\ IF tx[p].mine = tx[p].seen
             THEN UNCHANGED <<holder, version>>
             ELSE /\ holder[k] = Nobody
                  /\ holder' = [holder EXCEPT ![k] = p]
                  /\ version' = [version EXCEPT ![k] = row]
        /\ tx' = [tx EXCEPT ![p].pc = "rollup", ![p].mine = row]
        /\ UNCHANGED <<task, progress>>

\* _update_stage_progress lists the rows; the subtask of the request is still
\* in the session as it was read after the flush.
Rollup(p) ==
    /\ At(p, "rollup")
    /\ LET listed == [Visible(p) EXCEPT ![tx[p].task].progress = tx[p].mine.progress] IN
       tx' = [tx EXCEPT ![p].pc = "store", ![p].average = Average(listed)]
    /\ UNCHANGED <<task, progress, holder, version>>

Store(p) ==
    /\ At(p, "store")
    /\ IF tx[p].average = tx[p].stage
         THEN UNCHANGED holder
         ELSE /\ holder[Stage] = Nobody
              /\ holder' = [holder EXCEPT ![Stage] = p]
    /\ tx' = [tx EXCEPT ![p].pc = "commit"]
    /\ UNCHANGED <<task, progress, version>>

\* A plausible slip: a session that is not closed keeps its row locks.
KeptOpen(p) == holder

Released(p) == [r \in DOMAIN holder |-> IF holder[r] = p THEN Nobody ELSE holder[r]]
Forgotten(p) == [k \in Tasks |-> IF holder[k] = p THEN NewTask ELSE version[k]]

Commit(p) ==
    /\ At(p, "commit")
    /\ task' = Visible(p)
    /\ progress' = IF holder[Stage] = p THEN tx[p].average ELSE progress
    /\ holder' = Released(p)
    /\ version' = Forgotten(p)
    /\ tx' = [tx EXCEPT ![p] = NoRequest]

\* The worker or the connection is lost.
Die(p) ==
    /\ ~ At(p, "idle")
    /\ holder' = Released(p)
    /\ version' = Forgotten(p)
    /\ tx' = [tx EXCEPT ![p] = NoRequest]
    /\ UNCHANGED <<task, progress>>

Work(p) == Write(p) \/ Rollup(p) \/ Store(p) \/ Commit(p)

Next == \E p \in Requests : Create(p) \/ Update(p) \/ Delete(p) \/ Work(p) \/ Die(p)

Spec == Init /\ [][Next]_vars

-----------------------------------------------------------------------------
\* A request that no other overlaps leaves the stage with the average of its
\* undeleted subtasks ("Recalculate parent stage progress from average of
\* active subtask progresses"), whatever overlapping requests, lost updates and
\* crashes have left behind before it.
LoneRequestSettles ==
    [][\A p \in Requests : Commit(p) /\ tx[p].alone =>
          LET live == {k \in Tasks : task'[k].exists = "yes"} IN
          progress' = IF live = {} THEN 0
                      ELSE MapThenSumSet(LAMBDA k : task'[k].progress, live)
                             \div Cardinality(live)]_vars

\* "Subtask progress cannot move backward once saved": it does not unless
\* updates overlap.
LoneRequestKeepsProgress ==
    [][\A p \in Requests : Commit(p) /\ tx[p].alone =>
          \A k \in Tasks : task[k].progress <= task'[k].progress]_vars

\* A status that contradicts the progress, which overlapping updates can leave
\* and which keeps advance() from completing the stage, is put right by the
\* next lone update of the subtask.
LoneUpdateRepairsStatus ==
    [][\A p \in Requests : Commit(p) /\ tx[p].alone =>
          LET row == task'[tx[p].task] IN
          row.exists = "yes" => row.status = DeriveStatus(row.progress)]_vars

\* No request that overlaps a deletion brings the subtask back: the column
\* deleted_at is not part of its UPDATE.
DeletedStaysDeleted ==
    [][\A k \in Tasks : task[k].exists = "deleted" => task'[k].exists = "deleted"]_vars

Waits(p) ==
    \/ At(p, "write") /\ tx[p].mine # tx[p].seen /\ holder[tx[p].task] # Nobody
    \/ At(p, "store") /\ tx[p].average # tx[p].stage /\ holder[Stage] # Nobody

\* Requests never all wait for each other: each locks its subtask before the
\* stage, and what it has locked is given back when it ends or dies.
SomeoneProceeds ==
    (\E p \in Requests : ~ At(p, "idle")) => \E p \in Requests : ~ At(p, "idle") /\ ~ Waits(p)
=============================================================================
