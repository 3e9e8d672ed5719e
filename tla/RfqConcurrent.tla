---------------------------- MODULE RfqConcurrent ----------------------------
(***************************************************************************)
(* Requests on one RFQ that overlap.  Each runs in a thread of its own     *)
(* with its own SQLAlchemy session, in one PostgreSQL transaction at READ  *)
(* COMMITTED:                                                              *)
(*                                                                         *)
(*   - a SELECT sees what is committed when it runs; a row the session     *)
(*     already holds keeps the attributes it was first read with;          *)
(*   - nothing is read FOR UPDATE and no row carries a version;            *)
(*   - a flush sends one UPDATE per changed row, naming only the columns   *)
(*     that differ from what was read or last flushed, in any order: of    *)
(*     the ids of the stages, which are random, and of the two tables,     *)
(*     whose mappers declare no relationship.  An UPDATE waits for the     *)
(*     lock of its row and keeps it until the commit or the rollback.      *)
(*                                                                         *)
(* Row 0 is the RFQ, row i its stage i.  The requests are advance (to the  *)
(* next stage, or to an outcome from the last one), advance of a stage     *)
(* captured as "no-go", cancel, and a PATCH that sets the blocker.         *)
(***************************************************************************)
EXTENDS RfqRows, Sequences

CONSTANTS
    Size,           \* number of stages
    Requests,       \* identities of the requests; each is made at most once
    Kinds,          \* what they may ask: a set of [op, stage]
    Nobody          \* no request

Ops == {"advance", "no_go", "cancel", "block"}
Rfq == 0
Stages == 1..Size
Row == {Rfq} \cup Stages

ASSUME SizeAssumption == Size \in Nat \ {0}
ASSUME KindsAssumption == Kinds \subseteq [op : Ops, stage : Stages]
ASSUME NobodyAssumption == Nobody \notin Requests

VARIABLES
    db,             \* the committed rows
    holder,         \* holder[r]: the request whose transaction has locked row r
    version,        \* the row as last written by its holder, not yet committed
    tx,             \* tx[p]: the session of request p
    events          \* publications, in the order they reach the bus

vars == <<db, holder, version, tx, events>>

InitialRow(r) ==
    IF r = Rfq THEN [status |-> "InPreparation", current |-> 1, progress |-> 0]
    ELSE [status  |-> NewStage(r = 1).status, started |-> r = 1, ended |-> FALSE,
          blocked |-> FALSE]

InitialRows == [r \in Row |-> InitialRow(r)]

\* seen: the rows as read or last flushed; mine: the same with the changes
\* made in memory; both mean something for the loaded rows only.  todo: the
\* rows the flush under way has still to UPDATE.
NoSession == [pc |-> "idle", ask |-> [op |-> "cancel", stage |-> 1], was |-> "InPreparation",
              loaded |-> {}, seen |-> InitialRows, mine |-> InitialRows, todo |-> {}]

Done == [NoSession EXCEPT !.pc = "done"]

Init ==
    /\ db = InitialRows
    /\ holder = [r \in Row |-> Nobody]
    /\ version = InitialRows
    /\ tx = [p \in Requests |-> NoSession]
    /\ events = <<>>

-----------------------------------------------------------------------------
(* The session.                                                            *)

Select(session, rows) ==
    LET fresh == rows \ session.loaded
        read(image) == [r \in Row |-> IF r \in fresh THEN db[r] ELSE image[r]]
    IN  [session EXCEPT !.loaded = @ \cup rows, !.seen = read(@), !.mine = read(@)]

StageRows(image) == [i \in Stages |-> image[i]]

\* A flush is due: the rows that differ from what was read or last flushed.
Flush(session, next) ==
    [session EXCEPT !.todo = {r \in session.loaded : session.mine[r] # session.seen[r]},
                    !.pc = next]

\* An UPDATE that names every column of the row, changed or not.
WrittenWhole(stored, seen, mine) == mine

Written(stored, seen, mine) ==
    [c \in DOMAIN stored |-> IF mine[c] = seen[c] THEN stored[c] ELSE mine[c]]

At(p, pc) == tx[p].pc = pc /\ tx[p].todo = {}

\* The session of p becomes s; the database does not notice.
Becomes(p, s) ==
    /\ tx' = [tx EXCEPT ![p] = s]
    /\ UNCHANGED <<db, holder, version, events>>

\* A plausible slip: a session that is not closed keeps its row locks.
KeptOpen(p) == holder

\* The end of a session; row locks go with its transaction.
Released(p) == [r \in Row |-> IF holder[r] = p THEN Nobody ELSE holder[r]]
Forgotten(p) == [r \in Row |-> IF holder[r] = p THEN InitialRow(r) ELSE version[r]]

RolledBack(p) ==
    /\ tx' = [tx EXCEPT ![p] = Done]
    /\ holder' = Released(p)
    /\ version' = Forgotten(p)
    /\ UNCHANGED <<db, events>>

-----------------------------------------------------------------------------
(* The requests.                                                           *)
Start(p) ==
    /\ At(p, "idle")
    /\ \E ask \in Kinds :
          Becomes(p, [tx[p] EXCEPT !.ask = ask,
                                   !.pc  = IF ask.op = "cancel" THEN "rfq" ELSE "stage"])

\* _get_stage_or_404; a PATCH changes the stage and flushes at once.
LoadStage(p) ==
    /\ At(p, "stage")
    /\ LET stage == tx[p].ask.stage
           s == Select(tx[p], {stage})
       IN  Becomes(p, IF s.ask.op = "block"
                        THEN Flush([s EXCEPT !.mine[stage].blocked = TRUE], "commit")
                        ELSE [s EXCEPT !.pc = "rfq"])

\* cancel() of a Cancelled RFQ only amends the reason, which is not modelled
\* here.  The plausible slip of advance() asks only that the stage is clear.
MayCancel(s) == s.mine[Rfq].status # "Cancelled" /\ ValidTransition(s.mine[Rfq].status, "Cancelled")

MayProceedAnyStage(s) ==
    IF s.ask.op = "cancel" THEN MayCancel(s)
    ELSE /\ ~ s.mine[s.ask.stage].blocked
         /\ s.ask.op = "no_go" => ValidTransition(s.mine[Rfq].status, "Cancelled")

\* The checks of cancel() and of advance().  On the way to a next stage
\* advance() never looks at the status of the RFQ.
MayProceed(s) ==
    IF s.ask.op = "cancel" THEN MayCancel(s)
    ELSE /\ s.mine[Rfq].current = s.ask.stage
         /\ ~ s.mine[s.ask.stage].blocked
         /\ s.ask.op = "no_go" => ValidTransition(s.mine[Rfq].status, "Cancelled")

LoadRfq(p) ==
    /\ At(p, "rfq")
    /\ LET s == Select(tx[p], {Rfq}) IN
       IF MayProceed(s)
         THEN Becomes(p, [s EXCEPT !.was = s.mine[Rfq].status,
                                   !.pc  = IF s.ask.op = "advance" THEN "next" ELSE "freeze"])
         ELSE RolledBack(p)

\* get_next_stage, then the stage is Completed and flushed.
CompleteStage(p) ==
    /\ At(p, "next")
    /\ tx[p].ask.stage < Size
    /\ LET stage == tx[p].ask.stage
           s == Select(tx[p], {stage + 1})
       IN  Becomes(p, Flush([s EXCEPT !.mine[stage] = Completed(@)], "completed"))

StartNext(p) ==
    /\ At(p, "completed")
    /\ LET next == tx[p].ask.stage + 1 IN
       Becomes(p, Flush([tx[p] EXCEPT !.mine[next] = Started(@),
                                      !.mine[Rfq].current = next], "started"))

\* _update_rfq_progress: counts the session's own copies of the stages it has
\* read, and the committed rows of the others.
CountProgress(p) ==
    /\ At(p, "started")
    /\ LET s == Select(tx[p], Stages) IN
       Becomes(p, Flush([s EXCEPT !.mine[Rfq].progress =
                            LifecycleProgress(StageRows(s.mine), s.mine[Rfq].status)], "commit"))

\* _handle_terminal_outcome_completion.
DecideOutcome(p) ==
    /\ At(p, "next")
    /\ tx[p].ask.stage = Size
    /\ \E decision \in {"Awarded", "Lost"} :
          IF ValidTransition(tx[p].was, decision)
            THEN Becomes(p, Flush([tx[p] EXCEPT
                    !.mine[Size] = Completed(@),
                    !.mine[Rfq] = [status |-> decision, current |-> NoStage, progress |-> 100]],
                    "commit"))
            ELSE RolledBack(p)

\* apply_terminal_stage_freeze and the update of the RFQ row, for cancel() and
\* for a "no-go".
Freeze(p) ==
    /\ At(p, "freeze")
    /\ LET s == Select(tx[p], Stages)
           frozen == FreezeStages(StageRows(s.mine), s.mine[Rfq].current)
           rfq == [status |-> "Cancelled", current |-> NoStage, progress |-> 100]
       IN  Becomes(p, Flush([s EXCEPT !.mine = [r \in Row |-> IF r = Rfq THEN rfq ELSE frozen[r]]],
                            "commit"))

-----------------------------------------------------------------------------
(* The transaction.                                                        *)
Update(p, r) ==
    /\ r \in tx[p].todo
    /\ holder[r] \in {Nobody, p}
    /\ holder' = [holder EXCEPT ![r] = p]
    /\ version' = [version EXCEPT ![r] =
          Written(IF holder[r] = p THEN version[r] ELSE db[r], tx[p].seen[r], tx[p].mine[r])]
    /\ tx' = [tx EXCEPT ![p].todo = @ \ {r}, ![p].seen[r] = tx[p].mine[r]]
    /\ UNCHANGED <<db, events>>

Commit(p) ==
    /\ At(p, "commit")
    /\ db' = [r \in Row |-> IF holder[r] = p THEN version[r] ELSE db[r]]
    /\ holder' = Released(p)
    /\ version' = Forgotten(p)
    /\ tx' = [tx EXCEPT ![p] =
          IF @.ask.op = "block" THEN Done
          ELSE [NoSession EXCEPT !.pc = "announce", !.ask = tx[p].ask, !.was = tx[p].was]]
    /\ UNCHANGED events

StatusChanged(from, to) == [type |-> "rfq.status_changed", from |-> from, to |-> to]
StageAdvanced(i) == [type |-> "stage.advanced", stage |-> i]

\* The publications of p, made of what refresh() reads after the commit.
Publications(p) ==
    LET ask == tx[p].ask
        change == StatusChanged(tx[p].was, db[Rfq].status)
    IN  CASE ask.op = "cancel"  -> IF tx[p].was # db[Rfq].status THEN <<change>> ELSE <<>>
          [] ask.op = "no_go"   -> <<change>>
          [] ask.op = "advance" -> IF ask.stage = Size THEN <<change, StageAdvanced(ask.stage)>>
                                                       ELSE <<StageAdvanced(ask.stage)>>

\* What of the (at most two) publications reaches the bus: each is posted by
\* itself, and when the bus is not configured, does not answer or rejects it,
\* the failure is logged and forgotten.
Delivered(publications) ==
    {<<>>, publications} \cup {<<publications[k]>> : k \in DOMAIN publications}

\* A plausible slip: publishing before the commit.
AnnounceUncommitted(p) ==
    /\ At(p, "commit")
    /\ tx[p].ask.op # "block"
    /\ \E reached \in Delivered(Publications(p)) : events' = events \o reached
    /\ tx' = [tx EXCEPT ![p] = Done]
    /\ holder' = Released(p)
    /\ version' = Forgotten(p)
    /\ UNCHANGED db

Announce(p) ==
    /\ At(p, "announce")
    /\ \E reached \in Delivered(Publications(p)) : events' = events \o reached
    /\ tx' = [tx EXCEPT ![p] = Done]
    /\ UNCHANGED <<db, holder, version>>

\* The connection or the worker is lost; get_db closes the session.
Die(p) ==
    /\ tx[p].pc \notin {"idle", "done"}
    /\ RolledBack(p)

\* PostgreSQL ends a cycle of lock waits by failing one of its transactions.
Stuck(p) == tx[p].todo # {} /\ \A r \in tx[p].todo : holder[r] \notin {Nobody, p}

InDeadlock(p) ==
    \E cycle \in SUBSET Requests :
        /\ p \in cycle
        /\ \A q \in cycle : Stuck(q) /\ \A r \in tx[q].todo : holder[r] \in cycle \ {q}

DeadlockVictim(p) == InDeadlock(p) /\ RolledBack(p)

Work(p) ==
    \/ LoadStage(p) \/ LoadRfq(p)
    \/ CompleteStage(p) \/ StartNext(p) \/ CountProgress(p)
    \/ DecideOutcome(p) \/ Freeze(p)
    \/ \E r \in Row : Update(p, r)
    \/ Commit(p) \/ Announce(p)
    \/ DeadlockVictim(p)

Next == \E p \in Requests : Start(p) \/ Work(p) \/ Die(p)

Spec == Init /\ [][Next]_vars

\* As long as some request can go on, one of them does: threads are not
\* stopped, lock waits end when the holder does, and the server breaks
\* deadlocks.  Which of them goes on is left to the scheduler, and nothing
\* makes clients ask.
FairSpec == Spec /\ WF_vars(\E p \in Requests : Work(p))

-----------------------------------------------------------------------------
(* What the columns keep however the requests overlap.                     *)

\* An RFQ in preparation has a current stage and is below 100 per cent: the
\* UPDATE that closes an RFQ replaces its three columns together, and no count
\* of stages taken from stale copies reaches 100.
OpenRfqLooksOpen ==
    db[Rfq].status = "InPreparation" => db[Rfq].current # NoStage /\ db[Rfq].progress < 100

\* No overlap reopens a decided RFQ: a request that read "In preparation" and
\* does not decide leaves the column out of its UPDATEs.
DecidedStaysDecided ==
    [][db[Rfq].status \in TerminalStatuses => db'[Rfq].status \in TerminalStatuses]_vars

\* What the bus has heard has been committed: an announced decision is one of
\* a decided RFQ, and a stage announced as advanced has its end date.
AnnouncedOnlyCommitted ==
    \A k \in DOMAIN events :
        CASE events[k].type = "rfq.status_changed" -> /\ events[k].to \in TerminalStatuses
                                                      /\ db[Rfq].status \in TerminalStatuses
          [] events[k].type = "stage.advanced"     -> db[events[k].stage].ended

\* However requests overlap, no stage is passed over: every stage before the
\* current one has been completed once, and so has its end date.  Its status may
\* say otherwise: what advance() checked is stale when it writes, and a
\* duplicate that comes late sets a Completed stage back to "In Progress".
NothingSkipped == \A i \in Stages : i < db[Rfq].current => db[i].ended

\* Requests that have been taken up come to their end, whatever locks they
\* meet on the way: no cycle of waits, and no lock left behind, holds them.
Busy == \E p \in Requests : tx[p].pc \notin {"idle", "done"}

RequestsFinish == Busy ~> ~ Busy

-----------------------------------------------------------------------------
(* What the repository says of the RFQ and overlapping requests break.     *)

\* "Terminal RFQs are read-only through standard lifecycle controls."  Broken
\* by a cancel and the advance of the last stage, of which the later commit
\* replaces the decision of the first, and by an advance on the way to a next
\* stage, which starts it and makes it current after a cancel committed.
DecidedIsReadOnly ==
    [][db[Rfq].status \in TerminalStatuses =>
          /\ db'[Rfq] = db[Rfq]
          /\ \A i \in Stages : db'[i].status = db[i].status]_vars
=============================================================================
