------------------------------ MODULE Reminders ------------------------------
(***************************************************************************)
(* Reminders: those that users write and resolve, and those that the batch *)
(* POST /reminders/process generates, keeps up to date, resolves and sends *)
(* (NotificationService.process_due_reminders), one for each rule and each *)
(* context, an RFQ or its overdue stage, that the rule's scope selects.    *)
(*                                                                         *)
(* A batch is one transaction of a session that does not flush before it   *)
(* queries (autoflush=False): it reads and reconciles the automatic        *)
(* reminders in memory (Reconcile), queries the due ones and sends (Send), *)
(* and only then writes, the columns that differ from what it read         *)
(* (Commit).  Sending is not undone when the batch dies.  Nothing keeps    *)
(* two batches from overlapping.  Other requests are one step: what they   *)
(* read they do not use to compute what they write.  A batch does not last *)
(* over midnight.                                                          *)
(***************************************************************************)
EXTENDS Integers, FiniteSets

CONSTANTS
    Rfqs,           \* the RFQs with reminders
    Situations,     \* what the batch may find of an RFQ
    Rules,          \* rows of reminder_rule
    Scope,          \* Scope[r]: the scope of rule r
    NoRule,         \* of a reminder that a user wrote
    NoStage,        \* of a reminder of the RFQ as a whole
    Slots,          \* identities of reminders
    Batches,        \* batches that may run at the same time
    Dues,           \* the days users ask to be reminded on
    MaxSends,       \* parameter max_sends, 3 in the code
    LastDay,        \* bound on time
    MaxTrouble      \* bound on overlapping batches and batches that die

\* open: In preparation; stage: the current stage, in progress, and its
\* planned_end.
AnySituation ==
    [open : BOOLEAN, critical : BOOLEAN, deadline : Int, stage : Nat, end : Int]

ASSUME RemindersAssumption ==
    /\ Situations \subseteq AnySituation
    /\ DOMAIN Scope = Rules
    /\ NoRule \notin Rules
    /\ NoStage \notin Nat
    /\ Dues \subseteq Int
    /\ MaxSends \in Nat \ {0}
    /\ LastDay \in Nat
    /\ MaxTrouble \in Nat

Never == -1                 \* no last_sent_at
ActiveStatuses == {"open", "overdue"}

VARIABLES
    today,
    rfqs,           \* rfqs[f]: the situation of RFQ f
    ruleActive,     \* ruleActive[r]: reminder_rule.is_active
    db,             \* db[s]: reminder s as committed
    batch,          \* batch[b]: the session of a batch
    sentToday,      \* history: how often s was sent today
    sentEver,       \* history: how often s was sent
    overlaps,       \* history: batches begun while another was running
    crashes         \* history: batches that died

history == <<sentToday, sentEver, overlaps, crashes>>
vars == <<today, rfqs, ruleActive, db, batch, history>>

\* A context with its due date, as a rule finds or keeps it.
Context(rule, f, stage, due) == [rule |-> rule, rfq |-> f, stage |-> stage, due |-> due]

ContextOf(row) == Context(row.rule, row.rfq, row.stage, row.due)

\* A new reminder.  status "none": there is no such row.
Reminder(context, status) ==
    [rule |-> context.rule, rfq |-> context.rfq, stage |-> context.stage, due |-> context.due,
     status |-> status, sends |-> 0, last |-> Never]

NoReminder == Reminder(Context(NoRule, CHOOSE f \in Rfqs : TRUE, NoStage, 0), "none")

Nothing == [s \in Slots |-> NoReminder]

\* loaded: the reminders in the session; seen: as read; mine: as changed in
\* memory; fresh: contexts whose new reminder the session holds; wanted: those
\* in need of a reminder; alone (history): no other batch ran beside it.
NoBatch == [pc |-> "idle", loaded |-> {}, seen |-> Nothing, mine |-> Nothing,
            fresh |-> {}, wanted |-> {}, alone |-> TRUE]

Init ==
    /\ today = 0
    /\ rfqs \in [Rfqs -> {now \in Situations : now.open /\ now.deadline >= 0}]
    /\ ruleActive = [r \in Rules |-> TRUE]
    /\ db = Nothing
    /\ batch = [b \in Batches |-> NoBatch]
    /\ sentToday = [s \in Slots |-> 0]
    /\ sentEver = [s \in Slots |-> 0]
    /\ overlaps = 0
    /\ crashes = 0

Unused(s) == db[s].status = "none"
Active(row) == row.status \in ActiveStatuses
Automatic(row) == Active(row) /\ row.rule # NoRule

\* normalize_reminder_status
StatusOn(status, due) ==
    IF status = "resolved" THEN "resolved" ELSE IF due < today THEN "overdue" ELSE "open"

-----------------------------------------------------------------------------
(* The other requests, and time.                                           *)

\* create(): due today or later; the window it must be in is that of Schedule.
CreateManual(s, f) ==
    /\ Unused(s)
    /\ \E due \in {day \in Dues : day >= today} :
          db' = [db EXCEPT ![s] = Reminder(Context(NoRule, f, NoStage, due), "open")]
    /\ UNCHANGED <<today, rfqs, ruleActive, batch, history>>

\* resolve(): 409 for an automatic reminder.
Resolve(s) ==
    /\ Active(db[s]) /\ db[s].rule = NoRule
    /\ db' = [db EXCEPT ![s].status = "resolved"]
    /\ UNCHANGED <<today, rfqs, ruleActive, batch, history>>

ToggleRule(r) ==
    /\ ruleActive' = [ruleActive EXCEPT ![r] = ~ @]
    /\ UNCHANGED <<today, rfqs, db, batch, history>>

\* A PATCH moves the deadline of an open RFQ, not into the past, an advance its
\* current stage, a decision ends it.
ChangeRfq(f) ==
    /\ rfqs[f].open
    /\ \E now \in Situations \ {rfqs[f]} :
          /\ now.open /\ now.deadline # rfqs[f].deadline => now.deadline >= today
          /\ rfqs' = [rfqs EXCEPT ![f] = now]
    /\ UNCHANGED <<today, ruleActive, db, batch, history>>

Running == {b \in Batches : batch[b].pc # "idle"}

NextDay ==
    /\ today < LastDay
    /\ Running = {}
    /\ today' = today + 1
    /\ sentToday' = [s \in Slots |-> 0]
    /\ UNCHANGED <<rfqs, ruleActive, db, batch, sentEver, overlaps, crashes>>

-----------------------------------------------------------------------------
(* The batch.                                                              *)

Select(session, rows) ==
    LET new == rows \ session.loaded
        read(image) == [s \in Slots |-> IF s \in new THEN db[s] ELSE image[s]]
    IN  [session EXCEPT !.loaded = @ \cup rows, !.seen = read(@), !.mine = read(@)]

Supported == {"all_rfqs", "critical_only", "stage_overdue"}

\* _build_due_soon_rfq_contexts: the open RFQs due tomorrow or before.
DueSoon(f) == rfqs[f].open /\ rfqs[f].deadline <= today + 1

\* _build_stage_overdue_contexts
StageOverdue(f) == rfqs[f].open /\ rfqs[f].end < today

\* _build_contexts_for_rule
Selects(scope, f) ==
    \/ scope = "all_rfqs"      /\ DueSoon(f)
    \/ scope = "critical_only" /\ DueSoon(f) /\ rfqs[f].critical
    \/ scope = "stage_overdue" /\ StageOverdue(f)

ContextFor(r, f) ==
    IF Scope[r] = "stage_overdue" THEN Context(r, f, rfqs[f].stage, rfqs[f].end)
                                  ELSE Context(r, f, NoStage, rfqs[f].deadline)

Wanted ==
    UNION {{ContextFor(r, f) : f \in {g \in Rfqs : Selects(Scope[r], g)}} :
              r \in {q \in Rules : ruleActive[q]}}

SameContext(c, d) == c.rule = d.rule /\ c.rfq = d.rfq /\ c.stage = d.stage

\* A plausible slip: reminders that are no longer wanted are left alone.
ReconciledKeepingOld(row) ==
    LET found == {c \in Wanted : SameContext(c, row)} IN
    IF found = {} THEN row
    ELSE LET due == (CHOOSE c \in found : TRUE).due
         IN  [row EXCEPT !.due = due, !.status = StatusOn("open", due)]

\* A reminder that its rule has found: brought up to date, or resolved.
Reconciled(row) ==
    LET found == {c \in Wanted : SameContext(c, row)} IN
    IF found = {} THEN [row EXCEPT !.status = "resolved"]
    ELSE LET due == (CHOOSE c \in found : TRUE).due
         IN  [row EXCEPT !.due = due, !.status = StatusOn("open", due)]

\* A plausible slip: only "open" reminders are looked for.
FoundOpenOnly(r) == {s \in Slots : Automatic(db[s]) /\ db[s].rule = r /\ db[s].status = "open"}

\* The query of a rule.
Found(r) == {s \in Slots : Automatic(db[s]) /\ db[s].rule = r}

\* existing_by_context: one reminder for each context that has any, the others
\* being left alone; all of them if the rule is inactive and none if its scope
\* is not supported.
Existing ==
    LET grouped(r) == ruleActive[r] /\ Scope[r] \in Supported
        ignored(r) == ruleActive[r] /\ Scope[r] \notin Supported
        found == UNION {Found(r) : r \in {q \in Rules : ~ ignored(q)}}
    IN  {kept \in SUBSET found :
            \A s \in found :
                IF grouped(db[s].rule) THEN Cardinality({k \in kept : SameContext(db[k], db[s])}) = 1
                                       ELSE s \in kept}

Reconcile(b) ==
    /\ batch[b].pc = "idle"
    /\ \E kept \in Existing :
        LET auto == UNION {Found(r) : r \in Rules}
            session == Select(NoBatch, auto)
        IN  batch' = [c \in Batches |->
                IF c = b
                  THEN [pc     |-> "reconciled",
                        loaded |-> session.loaded,
                        seen   |-> session.seen,
                        mine   |-> [s \in Slots |-> IF s \in kept THEN Reconciled(session.mine[s])
                                                                 ELSE session.mine[s]],
                        wanted |-> Wanted,
                        fresh  |-> {c2 \in Wanted : \A s \in kept : ~ SameContext(c2, db[s])},
                        alone  |-> (Running = {})]
                ELSE IF c \in Running THEN [batch[c] EXCEPT !.alone = FALSE] ELSE batch[c]]
    /\ overlaps' = IF Running = {} THEN overlaps ELSE overlaps + 1
    /\ overlaps' + crashes <= MaxTrouble
    /\ UNCHANGED <<today, rfqs, ruleActive, db, sentToday, sentEver, crashes>>

\* Plausible slips: no daily limit; one attempt too many.
MaySendUnlimitedDaily(row) == row.sends < MaxSends
MaySendOnceMore(row) == row.sends <= MaxSends /\ row.last # today

MaySend(row) == row.sends < MaxSends /\ row.last # today

Sent(row) ==
    LET current == [row EXCEPT !.status = StatusOn(row.status, row.due)] IN
    IF MaySend(row) THEN [current EXCEPT !.sends = @ + 1, !.last = today] ELSE current

\* The query compares committed rows; rows already in the session come with
\* their changed attributes.
Send(b) ==
    /\ batch[b].pc = "reconciled"
    /\ LET due == {s \in Slots : Active(db[s]) /\ db[s].due <= today}
           session == Select(batch[b], due)
           sending == {s \in due : MaySend(session.mine[s])}
           count(h) == [s \in Slots |-> IF s \in sending THEN h[s] + 1 ELSE h[s]]
       IN  /\ batch' = [batch EXCEPT ![b] = [session EXCEPT
                  !.pc   = "sent",
                  !.mine = [s \in Slots |-> IF s \in due THEN Sent(@[s]) ELSE @[s]]]]
           /\ sentToday' = count(sentToday)
           /\ sentEver' = count(sentEver)
    /\ UNCHANGED <<today, rfqs, ruleActive, db, overlaps, crashes>>

\* An UPDATE names the columns that differ from what the session read.
Written(stored, seen, mine) ==
    [c \in DOMAIN stored |-> IF mine[c] = seen[c] THEN stored[c] ELSE mine[c]]

\* The bound: a batch commits only when a slot is left for what it generates.
Commit(b) ==
    /\ batch[b].pc = "sent"
    /\ \E slot \in [batch[b].fresh -> {s \in Slots : Unused(s)}] :
        /\ \A c, d \in batch[b].fresh : c # d => slot[c] # slot[d]
        /\ db' = [s \in Slots |->
                    IF \E c \in batch[b].fresh : slot[c] = s
                      THEN LET c == CHOOSE c \in batch[b].fresh : slot[c] = s
                           IN  Reminder(c, StatusOn("open", c.due))
                    ELSE IF s \in batch[b].loaded THEN Written(db[s], batch[b].seen[s], batch[b].mine[s])
                    ELSE db[s]]
    /\ batch' = [batch EXCEPT ![b] = NoBatch]
    /\ UNCHANGED <<today, rfqs, ruleActive, history>>

\* The worker or the connection is lost.
Crash(b) ==
    /\ batch[b].pc # "idle"
    /\ overlaps + crashes < MaxTrouble
    /\ batch' = [batch EXCEPT ![b] = NoBatch]
    /\ crashes' = crashes + 1
    /\ UNCHANGED <<today, rfqs, ruleActive, db, sentToday, sentEver, overlaps>>

Next ==
    \/ \E s \in Slots : Resolve(s) \/ \E f \in Rfqs : CreateManual(s, f)
    \/ \E f \in Rfqs : ChangeRfq(f)
    \/ \E r \in Rules : ToggleRule(r)
    \/ NextDay
    \/ \E b \in Batches : Reconcile(b) \/ Send(b) \/ Commit(b) \/ Crash(b)

Spec == Init /\ [][Next]_vars

-----------------------------------------------------------------------------
\* "Daily cadence block: prevents spamming if processed multiple times a day":
\* a reminder is sent at most once a day, however often the batch runs and
\* whatever users do in between; each batch begun while another was running,
\* and each that died after sending, accounts for at most one sending more.
OncePerDay == \A s \in Slots : sentToday[s] <= 1 + overlaps + crashes

\* In all a reminder is sent at most max_sends times, however long it stays
\* active and however often it is reconciled, but for the same exceptions.
NeverOverLimit == \A s \in Slots : sentEver[s] <= MaxSends + overlaps + crashes

\* As long as batches do not overlap, no context has two active reminders of a
\* rule: the batch finds the one it generated before, even after dying half way
\* and whatever else ran beside it.
OneActivePerContext ==
    overlaps = 0 =>
        \A s, r \in Slots :
            Automatic(db[s]) /\ Automatic(db[r]) /\ SameContext(db[s], db[r]) => s = r

Reminding(rows, c) == {s \in Slots : Automatic(rows[s]) /\ SameContext(rows[s], c)}

\* A batch that no other overlaps leaves a reminder with the right date for
\* each context it found due, and one active reminder less than before for each
\* other, though users resolve, move deadlines and toggle rules while it runs:
\* what overlapping batches have duplicated does not multiply, and fades when
\* the condition has ended.
LoneBatchReconciles ==
    [][\A b \in Batches : Commit(b) /\ batch[b].alone =>
          /\ batch[b].wanted \subseteq {ContextOf(db'[s]) : s \in {r \in Slots : Automatic(db'[r])}}
          /\ \A s \in Slots : Automatic(db'[s]) =>
                LET before == Cardinality(Reminding(db, db'[s]))
                    after  == Cardinality(Reminding(db', db'[s]))
                IN  IF \E c \in batch[b].wanted : SameContext(c, db'[s])
                      THEN after <= before \/ after = 1
                      ELSE after < before]_vars

\* The batch sends "open/overdue reminders": the step that makes a reminder
\* resolved does not also record a send of it.
ResolvedIsNotSent ==
    [][\A s \in Slots :
          db[s].status # "resolved" /\ db'[s].status = "resolved" => db'[s].sends = db[s].sends]_vars
=============================================================================
