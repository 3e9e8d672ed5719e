--------------------------- MODULE RemindersProofs ---------------------------
(***************************************************************************)
(* Proofs about Reminders, for any number of RFQs, rules, reminders and    *)
(* days, and of batches that overlap in any way or die.                    *)
(***************************************************************************)
EXTENDS Reminders, FiniteSetTheorems, TLAPS

-----------------------------------------------------------------------------
(* Types, as far as the argument needs them: of a reminder its sends, of a *)
(* session what it has read and what it makes of it.                       *)

IsRow(r) ==
    r \in [rule : {r.rule}, rfq : {r.rfq}, stage : {r.stage}, due : {r.due},
           status : {r.status}, sends : Nat, last : Int]

IsImage(rows) ==
    /\ DOMAIN rows = Slots /\ rows = [s \in Slots |-> rows[s]]
    /\ \A s \in Slots : IsRow(rows[s])

IsSession(x) ==
    /\ x \in [pc : {"idle", "reconciled", "sent"}, loaded : SUBSET Slots, seen : {x.seen},
              mine : {x.mine}, fresh : {x.fresh}, wanted : {x.wanted}, alone : {x.alone}]
    /\ IsImage(x.seen) /\ IsImage(x.mine)

Types ==
    /\ today \in Nat /\ overlaps \in Nat /\ crashes \in Nat
    /\ IsImage(db)
    /\ DOMAIN batch = Batches /\ batch = [b \in Batches |-> batch[b]]
    /\ \A b \in Batches : IsSession(batch[b])
    /\ sentToday \in [Slots -> Nat] /\ sentEver \in [Slots -> Nat]
    /\ IsFiniteSet(Running)

\* What the rows tell of sends: a new one of none, each of at most max_sends.
Limits ==
    \A s \in Slots :
        /\ db[s].last <= today /\ db[s].sends <= MaxSends
        /\ Unused(s) => db[s].sends = 0 /\ db[s].last = Never

(***************************************************************************)
(* What a running batch x holds of a reminder whose row is now: sends may  *)
(* have been recorded since, but only by a batch that had read the same    *)
(* count, as time stands still while a batch runs.                         *)
(***************************************************************************)
Holds(x, s, now) ==
    /\ now.status # "none" /\ x.mine[s].status # "none"
    /\ now.last # today => x.seen[s].sends = now.sends /\ x.seen[s].last = now.last
    /\ now.last = today =>
          x.seen[s].sends = IF x.seen[s].last = today THEN now.sends ELSE now.sends - 1
    /\ \/ x.mine[s].sends = x.seen[s].sends /\ x.mine[s].last = x.seen[s].last
       \/ /\ x.pc = "sent" /\ x.seen[s].last # today /\ x.mine[s].last = today
          /\ x.mine[s].sends = x.seen[s].sends + 1 /\ x.mine[s].sends <= MaxSends

Holding(rows) ==
    \A b \in Batches : \A s \in batch[b].loaded :
        batch[b].pc # "idle" => Holds(batch[b], s, rows[s])

(***************************************************************************)
(* The account of a reminder.  Candidates are the batches that may still   *)
(* send it; each was begun while another was running, except one, and that *)
(* one will have its send recorded, unless it dies.                        *)
(***************************************************************************)
MaySendYet(x, s, now) ==
    x.pc = "reconciled" /\ (IF s \in x.loaded THEN x.mine[s].last ELSE now.last) # today

HasSent(x, s) == x.pc = "sent" /\ s \in x.loaded /\ x.mine[s].last # x.seen[s].last

Candidates(s) == {b \in Batches : MaySendYet(batch[b], s, db[s])}

Recorded(s) == IF db[s].last = today THEN 1 ELSE 0

Pending(s) ==
    IF db[s].last # today /\ \E b \in Batches : MaySendYet(batch[b], s, db[s]) \/ HasSent(batch[b], s)
      THEN 1 ELSE 0

Account(s) ==
    LET n == Cardinality(Candidates(s)) IN
    /\ sentToday[s] + n <= overlaps + crashes + Recorded(s) + Pending(s)
    /\ sentEver[s] + n <= overlaps + crashes + db[s].sends + Pending(s)

Accounts == \A s \in Slots : Account(s)

CInv == Types /\ Limits /\ Holding(db) /\ Accounts

(***************************************************************************)
(* As long as no batches overlap, the one that runs holds new reminders    *)
(* for contexts that have none, and what it has read of an automatic       *)
(* reminder is still active when it writes; what a reminder is about never *)
(* changes.                                                                *)
(***************************************************************************)
About(r) == <<r.rule, r.rfq, r.stage>>

KeepsKeys(x) == \A s \in x.loaded : About(x.mine[s]) = About(x.seen[s])

News(x, rows) ==
    /\ \A c, d \in x.fresh : SameContext(c, d) => c = d
    /\ \A c \in x.fresh, s \in Slots : Automatic(rows[s]) => ~ SameContext(c, rows[s])
    /\ \A s \in x.loaded : rows[s].rule # NoRule => Active(rows[s])

Apart ==
    /\ \A b \in Batches : batch[b].pc # "idle" => KeepsKeys(batch[b])
    /\ overlaps = 0 =>
          /\ \A b, c \in Running : b = c
          /\ \A b \in Running : News(batch[b], db)

KInv == CInv /\ Apart /\ OneActivePerContext

-----------------------------------------------------------------------------
(* Candidates.                                                             *)

LEMMA CandidatesFinite ==
    ASSUME Types, NEW s \in Slots
    PROVE  IsFiniteSet(Candidates(s)) /\ Cardinality(Candidates(s)) \in Nat
<1>1. Candidates(s) \subseteq Running
  BY DEF Candidates, Running, MaySendYet
<1>2. IsFiniteSet(Candidates(s))
  BY <1>1, FS_Subset DEF Types
<1> QED BY <1>2, FS_CardinalityType

\* The bounds that the account implies.
LEMMA AccountBounds ==
    ASSUME CInv, NEW s \in Slots
    PROVE  /\ sentToday[s] <= 1 + overlaps + crashes
           /\ sentEver[s] <= MaxSends + overlaps + crashes
<1>0. /\ sentToday[s] \in Nat /\ sentEver[s] \in Nat /\ overlaps \in Nat /\ crashes \in Nat
      /\ db[s].sends \in Nat /\ MaxSends \in Nat /\ db[s].sends <= MaxSends
  BY RemindersAssumption DEF CInv, Types, Limits, IsImage, IsRow
<1>1. PICK n \in Nat : n = Cardinality(Candidates(s))
  BY CandidatesFinite DEF CInv
<1>2. /\ sentToday[s] + n <= overlaps + crashes + Recorded(s) + Pending(s)
      /\ sentEver[s] + n <= overlaps + crashes + db[s].sends + Pending(s)
  BY <1>1 DEF CInv, Accounts, Account
<1>3. Recorded(s) + Pending(s) <= 1 /\ Recorded(s) \in {0, 1} /\ Pending(s) \in {0, 1}
  BY DEF Recorded, Pending
<1>4. sentToday[s] <= 1 + overlaps + crashes
  BY <1>0, <1>1, <1>2, <1>3
<1>5. CASE Pending(s) = 0
  BY <1>0, <1>1, <1>2, <1>4, <1>5
<1>6. CASE Pending(s) = 1
  <2>1. PICK b \in Batches : MaySendYet(batch[b], s, db[s]) \/ HasSent(batch[b], s)
    BY <1>6 DEF Pending
  <2>2. CASE MaySendYet(batch[b], s, db[s])
    <3>1. Candidates(s) # {}
      BY <2>2 DEF Candidates
    <3>2. n # 0
      BY <1>1, <3>1, CandidatesFinite, FS_EmptySet DEF CInv
    <3> QED BY <1>0, <1>1, <1>2, <1>4, <1>6, <3>2
  <2>3. CASE HasSent(batch[b], s)
    <3>1. Holds(batch[b], s, db[s]) /\ db[s].last # today
      BY <1>6, <2>3 DEF Pending, CInv, Holding, HasSent
    <3>2. db[s].sends + 1 <= MaxSends
      BY <2>3, <3>1 DEF Holds, HasSent
    <3> QED BY <1>0, <1>1, <1>2, <1>4, <1>6, <3>2
  <2> QED BY <2>1, <2>2, <2>3
<1> QED BY <1>3, <1>5, <1>6

-----------------------------------------------------------------------------
(* Rows.                                                                   *)

LEMMA NewRow ==
    ASSUME NEW c, NEW status
    PROVE  LET row == Reminder(c, status) IN
           /\ IsRow(row) /\ row.sends = 0 /\ row.last = Never /\ row.status = status
           /\ row.rule = c.rule /\ row.rfq = c.rfq /\ row.stage = c.stage
<1>1. Never \in Int
  BY DEF Never
<1> QED BY <1>1 DEF Reminder, IsRow

LEMMA NothingThere ==
    IsImage(Nothing) /\ \A s \in Slots : Nothing[s].status = "none" /\ Nothing[s].sends = 0
                                        /\ Nothing[s].last = Never
<1>1. IsRow(NoReminder) /\ NoReminder.status = "none" /\ NoReminder.sends = 0
        /\ NoReminder.last = Never
  BY NewRow DEF NoReminder
<1> QED BY <1>1 DEF Nothing, IsImage

\* A reconciled reminder is about the same and keeps its sends.
LEMMA ReconciledRow ==
    ASSUME NEW r, IsRow(r)
    PROVE  LET row == Reconciled(r) IN
           /\ IsRow(row) /\ row.sends = r.sends /\ row.last = r.last
           /\ row.status # "none" /\ About(row) = About(r)
<1>1. PICK found : found = {c \in Wanted : SameContext(c, r)}
  OBVIOUS
<1>2. PICK due : due = (CHOOSE c \in found : TRUE).due
  OBVIOUS
<1>3. Reconciled(r) = IF found = {} THEN [r EXCEPT !.status = "resolved"]
                      ELSE [r EXCEPT !.due = due, !.status = StatusOn("open", due)]
  BY <1>1, <1>2 DEF Reconciled
<1>4. StatusOn("open", due) # "none"
  BY DEF StatusOn
<1>5. CASE found = {}
  <2>1. Reconciled(r) = [r EXCEPT !.status = "resolved"]
    BY <1>3, <1>5
  <2> QED BY <2>1 DEF IsRow, About
<1>6. CASE found # {}
  <2>1. PICK status : status = StatusOn("open", due)
    OBVIOUS
  <2>2. Reconciled(r) = [r EXCEPT !.due = due, !.status = status]
    BY <1>3, <1>6, <2>1
  <2> QED BY <1>4, <2>1, <2>2 DEF IsRow, About
<1> QED BY <1>5, <1>6

\* Sending counts once and is dated today.
LEMMA SentRow ==
    ASSUME NEW r, IsRow(r), today \in Nat
    PROVE  LET row == Sent(r) IN
           /\ IsRow(row) /\ row.status # "none" /\ About(row) = About(r)
           /\ row.sends = IF MaySend(r) THEN r.sends + 1 ELSE r.sends
           /\ row.last = IF MaySend(r) THEN today ELSE r.last
<1>1. PICK status : status = StatusOn(r.status, r.due)
  OBVIOUS
<1>2. status # "none"
  BY <1>1 DEF StatusOn
<1>3. PICK current : current = [r EXCEPT !.status = status]
  OBVIOUS
<1>4. IsRow(current) /\ About(current) = About(r) /\ current.status = status
        /\ current.sends = r.sends /\ current.last = r.last
  BY <1>3 DEF IsRow, About
<1>5. Sent(r) = IF MaySend(r) THEN [current EXCEPT !.sends = current.sends + 1, !.last = today]
                ELSE current
  BY <1>1, <1>3 DEF Sent
<1>6. CASE MaySend(r)
  <2>1. Sent(r) = [current EXCEPT !.sends = current.sends + 1, !.last = today]
    BY <1>5, <1>6
  <2>2. current.sends + 1 \in Nat
    BY <1>4 DEF IsRow
  <2>3. PICK row : row = Sent(r)
    OBVIOUS
  <2>4. PICK n \in Nat : n = current.sends + 1
    BY <2>2
  <2>5. row = [current EXCEPT !.sends = n, !.last = today]
    BY <2>1, <2>3, <2>4
  <2>6. row = [rule |-> current.rule, rfq |-> current.rfq, stage |-> current.stage,
               due |-> current.due, status |-> current.status, sends |-> n, last |-> today]
    BY <1>4, <2>5 DEF IsRow
  <2>7. IsRow(row)
    BY <2>6 DEF IsRow
  <2> QED BY <1>2, <1>4, <1>6, <2>3, <2>4, <2>6, <2>7 DEF About
<1>7. CASE ~ MaySend(r)
  BY <1>2, <1>4, <1>5, <1>7
<1> QED BY <1>6, <1>7

\* An UPDATE takes each column from the session if the session has changed it.
LEMMA WrittenRow ==
    ASSUME NEW stored, NEW seen, NEW mine, IsRow(stored), IsRow(seen), IsRow(mine)
    PROVE  LET row == Written(stored, seen, mine) IN
           /\ IsRow(row)
           /\ row.sends = IF mine.sends = seen.sends THEN stored.sends ELSE mine.sends
           /\ row.last = IF mine.last = seen.last THEN stored.last ELSE mine.last
           /\ row.status = IF mine.status = seen.status THEN stored.status ELSE mine.status
           /\ About(mine) = About(seen) => About(row) = About(stored)
<1> DEFINE Taken(m, n, o) == IF m = n THEN o ELSE m
<1>1. DOMAIN stored = {"rule", "rfq", "stage", "due", "status", "sends", "last"}
  BY DEF IsRow
<1>2. PICK row : row = Written(stored, seen, mine)
  OBVIOUS
<1>3. row = [c \in {"rule", "rfq", "stage", "due", "status", "sends", "last"} |->
               Taken(mine[c], seen[c], stored[c])]
  BY <1>1, <1>2 DEF Written
<1>4. row = [rule |-> Taken(mine.rule, seen.rule, stored.rule),
             rfq |-> Taken(mine.rfq, seen.rfq, stored.rfq),
             stage |-> Taken(mine.stage, seen.stage, stored.stage),
             due |-> Taken(mine.due, seen.due, stored.due),
             status |-> Taken(mine.status, seen.status, stored.status),
             sends |-> Taken(mine.sends, seen.sends, stored.sends),
             last |-> Taken(mine.last, seen.last, stored.last)]
  BY <1>3
<1>5. /\ row.rule = Taken(mine.rule, seen.rule, stored.rule)
      /\ row.rfq = Taken(mine.rfq, seen.rfq, stored.rfq)
      /\ row.stage = Taken(mine.stage, seen.stage, stored.stage)
      /\ row.sends = Taken(mine.sends, seen.sends, stored.sends)
      /\ row.last = Taken(mine.last, seen.last, stored.last)
      /\ row.status = Taken(mine.status, seen.status, stored.status)
  BY <1>4
<1>6. Taken(mine.sends, seen.sends, stored.sends) \in Nat
      /\ Taken(mine.last, seen.last, stored.last) \in Int
  BY DEF IsRow
<1>7. IsRow(row)
  BY <1>4, <1>6 DEF IsRow
<1>8. About(mine) = About(seen) => About(row) = About(stored)
  BY <1>5 DEF About
<1> QED BY <1>2, <1>5, <1>7, <1>8

-----------------------------------------------------------------------------
(* The beginning, and the steps that no batch makes.                       *)

LEMMA KInvInit == ASSUME Init PROVE KInv
<1>1. \A b \in Batches : batch[b] = NoBatch /\ NoBatch.pc = "idle" /\ NoBatch.loaded = {}
  BY DEF Init, NoBatch
<1>2. IsSession(NoBatch)
  BY NothingThere DEF NoBatch, IsSession
<1>3. Running = {}
  BY <1>1 DEF Running
<1>4. Types
  <2>1. IsImage(db)
    BY NothingThere DEF Init
  <2>2. \A b \in Batches : IsSession(batch[b])
    BY <1>1, <1>2
  <2>3. IsFiniteSet(Running)
    BY <1>3, FS_EmptySet
  <2> QED BY <2>1, <2>2, <2>3 DEF Init, Types
<1>5. Limits
  BY NothingThere, RemindersAssumption DEF Init, Limits, Never
<1>6. Holding(db) /\ Apart
  BY <1>1, <1>3 DEF Holding, Apart
<1>7. Accounts
  <2> SUFFICES ASSUME NEW s \in Slots PROVE Account(s)
    BY DEF Accounts
  <2>1. Candidates(s) = {}
    BY <1>1 DEF Candidates, MaySendYet
  <2>2. Cardinality(Candidates(s)) = 0
    BY <2>1, FS_EmptySet
  <2>3. Recorded(s) \in {0, 1} /\ Pending(s) \in {0, 1}
    BY DEF Recorded, Pending
  <2>4. sentToday[s] = 0 /\ sentEver[s] = 0 /\ overlaps = 0 /\ crashes = 0 /\ db[s].sends = 0
    BY NothingThere DEF Init
  <2> QED BY <2>2, <2>3, <2>4 DEF Account
<1>8. OneActivePerContext
  BY NothingThere DEF Init, OneActivePerContext, Automatic, Active, ActiveStatuses
<1> QED BY <1>4, <1>5, <1>6, <1>7, <1>8 DEF KInv, CInv

\* What a request does to the reminders between two steps of the batches
\* touches neither sends nor automatic reminders.
LEMMA QuietStep ==
    ASSUME KInv, UNCHANGED <<today, batch, sentToday, sentEver, overlaps, crashes>>,
           IsImage(db'),
           \A s \in Slots : /\ db'[s].sends = db[s].sends /\ db'[s].last = db[s].last
                            /\ \/ db'[s] = db[s]
                               \/ db'[s].status # "none" /\ db'[s].rule = NoRule
    PROVE  KInv'
<1>1. Types'
  BY DEF KInv, CInv, Types, Running
<1>2. Limits'
  BY DEF KInv, CInv, Limits, Unused
<1>3. Holding(db)'
  <2> SUFFICES ASSUME NEW b \in Batches, NEW s \in batch[b].loaded, batch[b].pc # "idle"
               PROVE  Holds(batch[b], s, db[s])'
    BY DEF Holding
  <2>1. Holds(batch[b], s, db[s]) /\ s \in Slots
    BY DEF KInv, CInv, Holding, Types, IsSession
  <2> QED BY <2>1 DEF Holds
<1>4. Accounts'
  <2> SUFFICES ASSUME NEW s \in Slots PROVE Account(s)'
    BY DEF Accounts
  <2>1. Candidates(s)' = Candidates(s)
    BY DEF Candidates, MaySendYet
  <2>2. Recorded(s)' = Recorded(s)
    BY DEF Recorded
  <2>3. Pending(s)' = Pending(s)
    BY DEF Pending, MaySendYet, HasSent
  <2>4. Account(s)
    BY DEF KInv, CInv, Accounts
  <2> QED BY <2>1, <2>2, <2>3, <2>4 DEF Account
<1>5. \A s \in Slots : Automatic(db'[s]) => db'[s] = db[s]
  BY DEF Automatic
<1>6. OneActivePerContext'
  BY <1>5 DEF KInv, OneActivePerContext
<1>7. Apart'
  <2>1. \A b \in Batches : batch[b].loaded \subseteq Slots
    BY DEF KInv, CInv, Types, IsSession
  <2>2. Running' = Running
    BY DEF Running
  <2>3. ASSUME NEW b \in Running, News(batch[b], db)
        PROVE  News(batch[b], db')
    <3>1. b \in Batches
      BY DEF Running
    <3> QED BY <1>5, <2>1, <2>3, <3>1 DEF News
  <2>4. ASSUME overlaps = 0
        PROVE  /\ \A b, c \in Running : b = c
               /\ \A b \in Running : News(batch[b], db')
    BY <2>3, <2>4 DEF KInv, Apart
  <2> QED BY <2>2, <2>4 DEF KInv, Apart, KeepsKeys
<1> QED BY <1>1, <1>2, <1>3, <1>4, <1>6, <1>7 DEF KInv, CInv

LEMMA UserStep ==
    ASSUME KInv,
           \/ \E s \in Slots : Resolve(s) \/ \E f \in Rfqs : CreateManual(s, f)
           \/ \E f \in Rfqs : ChangeRfq(f)
           \/ \E r \in Rules : ToggleRule(r)
    PROVE  KInv'
<1>1. IsImage(db)
  BY DEF KInv, CInv, Types
<1>2. ASSUME NEW s \in Slots, Resolve(s)
      PROVE  KInv'
  <2>1. db' = [db EXCEPT ![s] = [db[s] EXCEPT !.status = "resolved"]] /\ db[s].rule = NoRule
    BY <1>2 DEF Resolve
  <2>2. PICK row : row = [db[s] EXCEPT !.status = "resolved"]
    OBVIOUS
  <2>3. IsRow(row) /\ row.sends = db[s].sends /\ row.last = db[s].last
        /\ row.status # "none" /\ row.rule = NoRule
    BY <1>1, <2>1, <2>2 DEF IsImage, IsRow
  <2>4. db' = [db EXCEPT ![s] = row]
    BY <2>1, <2>2
  <2>5. IsImage(db')
    BY <1>1, <2>3, <2>4 DEF IsImage
  <2> QED BY <1>1, <1>2, <2>3, <2>4, <2>5, QuietStep DEF Resolve, history, IsImage
<1>3. ASSUME NEW s \in Slots, NEW f \in Rfqs, CreateManual(s, f)
      PROVE  KInv'
  <2>1. PICK due : db' = [db EXCEPT ![s] = Reminder(Context(NoRule, f, NoStage, due), "open")]
    BY <1>3 DEF CreateManual
  <2>2. PICK row : row = Reminder(Context(NoRule, f, NoStage, due), "open")
    OBVIOUS
  <2>3. IsRow(row) /\ row.sends = db[s].sends /\ row.last = db[s].last
        /\ row.status # "none" /\ row.rule = NoRule
    BY <1>3, <2>2, NewRow DEF CreateManual, KInv, CInv, Limits, Context
  <2>4. db' = [db EXCEPT ![s] = row]
    BY <2>1, <2>2
  <2>5. IsImage(db')
    BY <1>1, <2>3, <2>4 DEF IsImage
  <2> QED BY <1>1, <1>3, <2>3, <2>4, <2>5, QuietStep DEF CreateManual, history, IsImage
<1>4. ASSUME UNCHANGED <<today, db, batch, sentToday, sentEver, overlaps, crashes>>
      PROVE  KInv'
  BY <1>1, <1>4, QuietStep
<1>5. ASSUME (\E f \in Rfqs : ChangeRfq(f)) \/ (\E r \in Rules : ToggleRule(r))
      PROVE  KInv'
  BY <1>4, <1>5 DEF ChangeRfq, ToggleRule, history
<1> QED BY <1>2, <1>3, <1>5

\* Over midnight no batch runs, and yesterday's sends are history.
LEMMA NextDayStep == ASSUME KInv, NextDay PROVE KInv'
<1>1. /\ today' = today + 1 /\ today \in Nat
      /\ db' = db /\ batch' = batch /\ sentEver' = sentEver
      /\ overlaps' = overlaps /\ crashes' = crashes
      /\ sentToday' = [s \in Slots |-> 0]
  BY DEF NextDay, KInv, CInv, Types
<1>2. \A b \in Batches : batch[b].pc = "idle"
  BY DEF NextDay, Running
<1>3. Types'
  BY <1>1 DEF KInv, CInv, Types, Running
<1>4. \A s \in Slots : db[s].last <= today /\ db[s].last \in Int /\ db[s].sends \in Nat
  BY DEF KInv, CInv, Limits, Types, IsImage, IsRow
<1>5. Limits'
  <2>1. \A s \in Slots : db[s].last <= today + 1
    BY <1>1, <1>4
  <2> QED BY <1>1, <2>1 DEF KInv, CInv, Limits, Unused
<1>6. Holding(db)'
  BY <1>1, <1>2 DEF Holding
<1>7. Accounts'
  <2> SUFFICES ASSUME NEW s \in Slots PROVE Account(s)'
    BY DEF Accounts
  <2>1. Candidates(s)' = {} /\ Candidates(s) = {}
    BY <1>1, <1>2 DEF Candidates, MaySendYet
  <2>2. Pending(s) = 0 /\ Pending(s)' = 0
    BY <1>1, <1>2 DEF Pending, MaySendYet, HasSent
  <2>3. Recorded(s)' = 0
    <3>1. db[s].last # today + 1
      BY <1>1, <1>4
    <3> QED BY <1>1, <3>1 DEF Recorded
  <2>4. Cardinality(Candidates(s)) = 0 /\ Cardinality(Candidates(s)') = 0
    BY <2>1, FS_EmptySet
  <2>5. sentEver[s] + 0 <= overlaps + crashes + db[s].sends + 0
    BY <2>2, <2>4 DEF KInv, CInv, Accounts, Account
  <2>6. 0 + 0 <= overlaps + crashes + 0 + 0
    BY DEF KInv, CInv, Types
  <2> QED BY <1>1, <2>2, <2>3, <2>4, <2>5, <2>6 DEF Account
<1>8. Apart' /\ OneActivePerContext'
  BY <1>1 DEF KInv, Apart, OneActivePerContext, Running, KeepsKeys
<1> QED BY <1>3, <1>5, <1>6, <1>7, <1>8 DEF KInv, CInv

-----------------------------------------------------------------------------
(* Reconcile.                                                              *)

LEMMA FewerWithout ==
    ASSUME NEW C, IsFiniteSet(C), NEW b, NEW D, D \subseteq C \ {b}
    PROVE  /\ IsFiniteSet(D) /\ Cardinality(C) \in Nat /\ Cardinality(D) \in Nat
           /\ Cardinality(D) <= IF b \in C THEN Cardinality(C) - 1 ELSE Cardinality(C)
<1>1. IsFiniteSet(C \ {b}) /\ Cardinality(C) \in Nat
      /\ Cardinality(C \ {b}) = IF b \in C THEN Cardinality(C) - 1 ELSE Cardinality(C)
  BY FS_RemoveElement, FS_CardinalityType
<1> QED BY <1>1, FS_Subset, FS_CardinalityType

LEMMA OneMore ==
    ASSUME NEW C, IsFiniteSet(C), NEW b, NEW D, D \subseteq C \cup {b}
    PROVE  /\ IsFiniteSet(D) /\ Cardinality(C) \in Nat /\ Cardinality(D) \in Nat
           /\ Cardinality(D) <= Cardinality(C) + 1
<1>1. /\ IsFiniteSet(C \cup {b}) /\ Cardinality(C) \in Nat
      /\ Cardinality(C \cup {b}) <= Cardinality(C) + 1
  <2>1. Cardinality(C) \in Nat
    BY FS_CardinalityType
  <2>2. /\ IsFiniteSet(C \cup {b})
        /\ Cardinality(C \cup {b}) = Cardinality(C) \/ Cardinality(C \cup {b}) = Cardinality(C) + 1
    BY FS_AddElement
  <2> QED BY <2>1, <2>2
<1>2. IsFiniteSet(D) /\ Cardinality(D) \in Nat /\ Cardinality(C \cup {b}) \in Nat
      /\ Cardinality(D) <= Cardinality(C \cup {b})
  BY <1>1, FS_Subset, FS_CardinalityType
<1> QED BY <1>1, <1>2

\* What a batch holds after its first step.
LEMMA ReconcileFacts ==
    ASSUME KInv, NEW b \in Batches, Reconcile(b)
    PROVE  LET x == batch'[b] IN
           /\ DOMAIN batch' = Batches /\ batch' = [c \in Batches |-> batch'[c]]
           /\ \A c \in Batches \ {b} :
                 \/ batch'[c] = batch[c]
                 \/ batch'[c] = [batch[c] EXCEPT !.alone = FALSE]
           /\ IsSession(x) /\ x.pc = "reconciled"
           /\ \A s \in x.loaded :
                 /\ Automatic(db[s]) /\ x.seen[s] = db[s]
                 /\ x.mine[s] = db[s] \/ x.mine[s] = Reconciled(db[s])
           /\ x.fresh \subseteq Wanted
           /\ \A c \in x.fresh, s \in Slots : Automatic(db[s]) => ~ SameContext(c, db[s])
<1>0. /\ IsImage(db) /\ IsSession(batch[b]) /\ batch[b].pc = "idle"
      /\ DOMAIN batch = Batches /\ \A c \in Batches : IsSession(batch[c])
  BY DEF KInv, CInv, Types, Reconcile
<1>1. PICK auto : auto = UNION {Found(r) : r \in Rules}
  OBVIOUS
<1>2. auto \subseteq Slots /\ \A s \in auto : Automatic(db[s])
  BY <1>1 DEF Found
<1>3. PICK old : old = [s \in Slots |-> IF s \in auto THEN db[s] ELSE Nothing[s]]
  OBVIOUS
<1>4. Select(NoBatch, auto) = [NoBatch EXCEPT !.loaded = auto, !.seen = old, !.mine = old]
  <2>1. auto \ {} = auto /\ {} \cup auto = auto
    OBVIOUS
  <2>2. NoBatch.loaded = {} /\ NoBatch.seen = Nothing /\ NoBatch.mine = Nothing
    BY DEF NoBatch
  <2> QED BY <1>3, <2>1, <2>2 DEF Select
<1>5. PICK kept \in Existing :
        batch' = [c \in Batches |->
            IF c = b
              THEN [pc     |-> "reconciled",
                    loaded |-> Select(NoBatch, auto).loaded,
                    seen   |-> Select(NoBatch, auto).seen,
                    mine   |-> [s \in Slots |-> IF s \in kept THEN Reconciled(Select(NoBatch, auto).mine[s])
                                                             ELSE Select(NoBatch, auto).mine[s]],
                    wanted |-> Wanted,
                    fresh  |-> {c2 \in Wanted : \A s \in kept : ~ SameContext(c2, db[s])},
                    alone  |-> (Running = {})]
            ELSE IF c \in Running THEN [batch[c] EXCEPT !.alone = FALSE] ELSE batch[c]]
  BY <1>1 DEF Reconcile
<1>6. PICK new : new = {c \in Wanted : \A s \in kept : ~ SameContext(c, db[s])}
  OBVIOUS
<1>7. PICK mine : mine = [s \in Slots |-> IF s \in kept THEN Reconciled(old[s]) ELSE old[s]]
  OBVIOUS
<1>8. PICK wanted, alone : wanted = Wanted /\ alone = (Running = {})
  OBVIOUS
<1>9. batch'[b] = [pc |-> "reconciled", loaded |-> auto, seen |-> old, mine |-> mine,
                   wanted |-> wanted, fresh |-> new, alone |-> alone]
  <2>1. Select(NoBatch, auto).loaded = auto /\ Select(NoBatch, auto).seen = old
        /\ Select(NoBatch, auto).mine = old
    BY <1>4 DEF NoBatch
  <2> QED BY <1>5, <1>6, <1>7, <1>8, <2>1
<1>10. IsImage(old)
  BY <1>0, <1>3, NothingThere DEF IsImage
<1>11. IsImage(mine)
  <2>1. \A s \in Slots : IsRow(Reconciled(old[s])) /\ IsRow(old[s])
    BY <1>10, ReconciledRow DEF IsImage
  <2> QED BY <1>7, <2>1 DEF IsImage
<1>12. IsSession(batch'[b])
  BY <1>2, <1>9, <1>10, <1>11 DEF IsSession
<1>13. ASSUME NEW c \in Batches \ {b}
       PROVE  batch'[c] = batch[c] \/ batch'[c] = [batch[c] EXCEPT !.alone = FALSE]
  BY <1>5
<1>14. ASSUME NEW c \in new, NEW s \in Slots, Automatic(db[s]), SameContext(c, db[s])
       PROVE  FALSE
  <2>1. PICK r \in Rules, f \in Rfqs : c = ContextFor(r, f) /\ ruleActive[r] /\ Selects(Scope[r], f)
    BY <1>6 DEF Wanted
  <2>2. c.rule = r /\ Scope[r] \in Supported
    BY <2>1 DEF ContextFor, Context, Selects, Supported
  <2>3. db[s].rule = r /\ s \in Found(r)
    BY <1>14, <2>2 DEF SameContext, Found
  <2>4. Cardinality({k \in kept : SameContext(db[k], db[s])}) = 1
    BY <2>1, <2>2, <2>3 DEF Existing
  <2>5. {k \in kept : SameContext(db[k], db[s])} # {}
    BY <2>4, FS_EmptySet
  <2>6. PICK k \in kept : SameContext(db[k], db[s])
    BY <2>5
  <2>7. SameContext(c, db[k])
    BY <1>14, <2>6 DEF SameContext
  <2> QED BY <1>6, <2>6, <2>7
<1>15. \A s \in auto : old[s] = db[s] /\ (mine[s] = db[s] \/ mine[s] = Reconciled(db[s]))
  BY <1>2, <1>3, <1>7
<1>16. new \subseteq Wanted
  BY <1>6
<1>17. DOMAIN batch' = Batches /\ batch' = [c \in Batches |-> batch'[c]]
  BY <1>5
<1> QED BY <1>2, <1>9, <1>12, <1>13, <1>14, <1>15, <1>16, <1>17

LEMMA ReconcileStep == ASSUME KInv, NEW b \in Batches, Reconcile(b) PROVE KInv'
<1> PICK x : x = batch'[b]
  OBVIOUS
<1>1. /\ DOMAIN batch' = Batches /\ batch' = [c \in Batches |-> batch'[c]]
      /\ IsSession(x) /\ x.pc = "reconciled"
      /\ \A s \in x.loaded :
            /\ Automatic(db[s]) /\ x.seen[s] = db[s]
            /\ x.mine[s] = db[s] \/ x.mine[s] = Reconciled(db[s])
      /\ x.fresh \subseteq Wanted
      /\ \A c \in x.fresh, s \in Slots : Automatic(db[s]) => ~ SameContext(c, db[s])
  BY ReconcileFacts
<1>2. \A c \in Batches \ {b} :
        /\ IsSession(batch'[c])
        /\ batch'[c].pc = batch[c].pc /\ batch'[c].loaded = batch[c].loaded
        /\ batch'[c].seen = batch[c].seen /\ batch'[c].mine = batch[c].mine
        /\ batch'[c].fresh = batch[c].fresh
  <2> SUFFICES ASSUME NEW c \in Batches \ {b}
               PROVE  /\ IsSession(batch'[c])
                      /\ batch'[c].pc = batch[c].pc /\ batch'[c].loaded = batch[c].loaded
                      /\ batch'[c].seen = batch[c].seen /\ batch'[c].mine = batch[c].mine
                      /\ batch'[c].fresh = batch[c].fresh
    OBVIOUS
  <2>1. batch'[c] = batch[c] \/ batch'[c] = [batch[c] EXCEPT !.alone = FALSE]
    BY ReconcileFacts
  <2>2. IsSession(batch[c])
    BY DEF KInv, CInv, Types
  <2> QED BY <2>1, <2>2 DEF IsSession
<1>3. /\ UNCHANGED <<today, db, sentToday, sentEver, crashes>>
      /\ overlaps' = IF Running = {} THEN overlaps ELSE overlaps + 1
      /\ batch[b].pc = "idle"
  BY DEF Reconcile
<1>4. /\ overlaps \in Nat /\ crashes \in Nat /\ today \in Nat /\ IsImage(db)
      /\ sentToday \in [Slots -> Nat] /\ sentEver \in [Slots -> Nat] /\ IsFiniteSet(Running)
  BY DEF KInv, CInv, Types
<1>5. Running' = Running \cup {b}
  BY <1>1, <1>2 DEF Running
<1>6. Types'
  <2>1. IsFiniteSet(Running')
    BY <1>4, <1>5, FS_AddElement
  <2>2. \A c \in Batches : IsSession(batch'[c])
    BY <1>1, <1>2
  <2>3. overlaps' \in Nat
    BY <1>3, <1>4
  <2> QED BY <1>1, <1>3, <1>4, <2>1, <2>2, <2>3 DEF Types
<1>7. Limits'
  BY <1>3 DEF KInv, CInv, Limits, Unused
<1>8. \A s \in x.loaded :
        /\ s \in Slots /\ db[s].status # "none" /\ x.mine[s].status # "none"
        /\ x.mine[s].sends = db[s].sends /\ x.mine[s].last = db[s].last
        /\ About(x.mine[s]) = About(db[s])
  <2> SUFFICES ASSUME NEW s \in x.loaded
               PROVE  /\ s \in Slots /\ db[s].status # "none" /\ x.mine[s].status # "none"
                      /\ x.mine[s].sends = db[s].sends /\ x.mine[s].last = db[s].last
                      /\ About(x.mine[s]) = About(db[s])
    OBVIOUS
  <2>1. s \in Slots
    BY <1>1 DEF IsSession
  <2>2. IsRow(db[s])
    BY <1>4, <2>1 DEF IsImage
  <2>3. db[s].status # "none"
    BY <1>1 DEF Automatic, Active, ActiveStatuses
  <2> QED BY <1>1, <2>1, <2>2, <2>3, ReconciledRow
<1>9. Holding(db)'
  <2> SUFFICES ASSUME NEW c \in Batches, NEW s \in batch'[c].loaded, batch'[c].pc # "idle"
               PROVE  Holds(batch[c], s, db[s])'
    BY DEF Holding
  <2>1. CASE c = b
    BY <1>1, <1>3, <1>8, <2>1 DEF Holds
  <2>2. CASE c # b
    <3>1. Holds(batch[c], s, db[s])
      BY <1>2, <2>2 DEF KInv, CInv, Holding
    <3> QED BY <1>2, <1>3, <2>2, <3>1 DEF Holds
  <2> QED BY <2>1, <2>2
<1>10. Accounts'
  <2> SUFFICES ASSUME NEW s \in Slots PROVE Account(s)'
    BY DEF Accounts
  <2>1. MaySendYet(x, s, db[s]) <=> db[s].last # today
    BY <1>1, <1>8 DEF MaySendYet
  <2>2. /\ \A c \in Batches \ {b} :
              /\ MaySendYet(batch[c], s, db[s])' <=> MaySendYet(batch[c], s, db[s])
              /\ HasSent(batch[c], s)' <=> HasSent(batch[c], s)
        /\ MaySendYet(batch[b], s, db[s])' <=> MaySendYet(x, s, db[s])
    BY <1>2, <1>3 DEF MaySendYet, HasSent
  <2>3. Account(s)
    BY DEF KInv, CInv, Accounts
  <2>4. IsFiniteSet(Candidates(s)) /\ Candidates(s) \subseteq Batches
    BY CandidatesFinite DEF KInv, CInv, Candidates
  <2>5. PICK C, D : C = Candidates(s) /\ D = Candidates(s)'
    OBVIOUS
  <2>6. D \subseteq C \cup {b}
    BY <1>3, <2>2, <2>5 DEF Candidates
  <2>7. PICK n \in Nat, m \in Nat : n = Cardinality(C) /\ m = Cardinality(D) /\ m <= n + 1
    BY <2>4, <2>5, <2>6, OneMore
  <2>8. PICK t \in Nat, e \in Nat, k \in Nat :
          t = sentToday[s] /\ e = sentEver[s] /\ k = db[s].sends
    BY <1>4 DEF IsImage, IsRow
  <2>9. PICK r \in {0, 1}, p \in {0, 1}, q \in {0, 1} :
          r = Recorded(s) /\ p = Pending(s) /\ q = Pending(s)'
    BY DEF Recorded, Pending
  <2>10. Recorded(s)' = r
    BY <1>3, <2>9 DEF Recorded
  <2>11. t + n <= overlaps + crashes + r + p /\ e + n <= overlaps + crashes + k + p
    BY <2>3, <2>5, <2>7, <2>8, <2>9 DEF Account
  <2>12. t + m <= overlaps' + crashes + r + q /\ e + m <= overlaps' + crashes + k + q
    <3>1. CASE Running = {}
      <4>1. C = {} /\ p = 0
        BY <2>5, <2>9, <3>1 DEF Running, Candidates, Pending, MaySendYet, HasSent
      <4>2. n = 0
        BY <2>7, <4>1, FS_EmptySet
      <4>3. CASE db[s].last = today
        <5>1. D = {}
          BY <1>3, <2>1, <2>2, <2>5, <2>6, <4>1, <4>3 DEF Candidates
        <5>2. m = 0
          BY <2>7, <5>1, FS_EmptySet
        <5> QED BY <1>3, <1>4, <2>11, <3>1, <4>1, <4>2, <5>2
      <4>4. CASE db[s].last # today
        <5>1. q = 1
          BY <1>3, <2>1, <2>2, <2>9, <4>4 DEF Pending
        <5> QED BY <1>3, <1>4, <2>7, <2>11, <3>1, <4>1, <4>2, <5>1
      <4> QED BY <4>3, <4>4
    <3>2. CASE Running # {}
      <4>1. p <= q
        <5>1. ASSUME p = 1
              PROVE  q = 1
          <6>1. /\ db[s].last # today
                /\ \E c \in Batches : MaySendYet(batch[c], s, db[s]) \/ HasSent(batch[c], s)
            BY <2>9, <5>1 DEF Pending
          <6>2. MaySendYet(batch[b], s, db[s])'
            BY <2>1, <2>2, <6>1
          <6> QED BY <1>3, <2>9, <6>1, <6>2 DEF Pending
        <5> QED BY <5>1
      <4> QED BY <1>3, <1>4, <2>7, <2>11, <3>2, <4>1
    <3> QED BY <3>1, <3>2
  <2> QED BY <1>3, <2>5, <2>7, <2>8, <2>9, <2>10, <2>12 DEF Account
<1>11. OneActivePerContext'
  <2>1. overlaps' = 0 => overlaps = 0
    BY <1>3, <1>4
  <2> QED BY <1>3, <2>1 DEF KInv, OneActivePerContext, Automatic, Active
<1>12. Apart'
  <2>1. \A c \in Batches : batch'[c].pc # "idle" => KeepsKeys(batch'[c])
    <3>1. KeepsKeys(x)
      BY <1>1, <1>8 DEF KeepsKeys
    <3>2. \A c \in Batches \ {b} : batch'[c].pc # "idle" => KeepsKeys(batch'[c])
      BY <1>2 DEF KInv, Apart, KeepsKeys
    <3> QED BY <3>1, <3>2
  <2>2. ASSUME overlaps' = 0
        PROVE  Running' = {b} /\ News(x, db)
    <3>1. Running = {}
      BY <1>3, <1>4, <2>2
    <3>2. \A c, d \in x.fresh : SameContext(c, d) => c = d
      BY <1>1 DEF Wanted, ContextFor, Context, SameContext
    <3>3. \A s \in x.loaded : db[s].rule # NoRule => Active(db[s])
      BY <1>1 DEF Automatic
    <3> QED BY <1>1, <1>5, <3>1, <3>2, <3>3 DEF News
  <2>3. overlaps' = 0 => /\ \A c, d \in Running' : c = d
                         /\ \A c \in Running' : News(batch'[c], db')
    BY <1>3, <2>2
  <2> QED BY <2>1, <2>3 DEF Apart
<1> QED BY <1>6, <1>7, <1>9, <1>10, <1>11, <1>12 DEF KInv, CInv

-----------------------------------------------------------------------------
(* Send.                                                                   *)

\* The reminder that the batch looks at when s is due.
Due(old, s) == IF s \in old.loaded THEN old.mine[s] ELSE db[s]

\* What a batch holds after sending: x, and what it has sent.
Sends(b, old, due, x) ==
    /\ \A s \in due : Active(db[s])
    /\ batch' = [batch EXCEPT ![b] = x]
    /\ IsSession(x) /\ x.pc = "sent" /\ old.pc = "reconciled"
    /\ x.loaded = old.loaded \cup due /\ x.fresh = old.fresh
    /\ x.wanted = old.wanted /\ x.alone = old.alone
    /\ \A s \in Slots :
          /\ x.seen[s] = IF s \in due \ old.loaded THEN db[s] ELSE old.seen[s]
          /\ s \in due => x.mine[s] = Sent(Due(old, s))
          /\ s \notin due => x.mine[s] = old.mine[s]
          /\ sentToday'[s] = IF s \in due /\ MaySend(Due(old, s)) THEN sentToday[s] + 1 ELSE sentToday[s]
          /\ sentEver'[s] = IF s \in due /\ MaySend(Due(old, s)) THEN sentEver[s] + 1 ELSE sentEver[s]
    /\ DOMAIN sentToday' = Slots /\ sentToday' = [s \in Slots |-> sentToday'[s]]
    /\ DOMAIN sentEver' = Slots /\ sentEver' = [s \in Slots |-> sentEver'[s]]

LEMMA SendFacts ==
    ASSUME KInv, NEW b \in Batches, Send(b)
    PROVE  \E due \in SUBSET Slots : \E x : Sends(b, batch[b], due, x)
<1>0. /\ IsImage(db) /\ IsSession(batch[b]) /\ batch[b].pc = "reconciled" /\ today \in Nat
      /\ DOMAIN batch = Batches
  BY DEF KInv, CInv, Types, Send
<1>1. PICK due \in SUBSET Slots : due = {s \in Slots : Active(db[s]) /\ db[s].due <= today}
  OBVIOUS
<1>2. PICK old, session : old = batch[b] /\ session = Select(batch[b], due)
  OBVIOUS
<1>3. PICK seen, mine :
        /\ seen = [s \in Slots |-> IF s \in due \ old.loaded THEN db[s] ELSE old.seen[s]]
        /\ mine = [s \in Slots |-> IF s \in due \ old.loaded THEN db[s] ELSE old.mine[s]]
  OBVIOUS
<1>4. session = [old EXCEPT !.loaded = old.loaded \cup due, !.seen = seen, !.mine = mine]
  BY <1>2, <1>3 DEF Select
<1>5. session = [pc |-> old.pc, loaded |-> old.loaded \cup due, seen |-> seen, mine |-> mine,
                 fresh |-> old.fresh, wanted |-> old.wanted, alone |-> old.alone]
  BY <1>0, <1>2, <1>4 DEF IsSession
<1>6. PICK written : written = [s \in Slots |-> IF s \in due THEN Sent(mine[s]) ELSE mine[s]]
  OBVIOUS
<1>7. PICK x : x = [session EXCEPT !.pc = "sent", !.mine = written]
  OBVIOUS
<1>8. /\ batch' = [batch EXCEPT ![b] = [session EXCEPT
              !.pc = "sent", !.mine = [s \in Slots |-> IF s \in due THEN Sent(session.mine[s])
                                                      ELSE session.mine[s]]]]
      /\ sentToday' = [s \in Slots |-> IF s \in {d \in due : MaySend(session.mine[d])}
                                       THEN sentToday[s] + 1 ELSE sentToday[s]]
      /\ sentEver' = [s \in Slots |-> IF s \in {d \in due : MaySend(session.mine[d])}
                                      THEN sentEver[s] + 1 ELSE sentEver[s]]
  BY <1>1, <1>2 DEF Send
<1>9. session.mine = mine
  BY <1>5
<1>10. /\ x \in [pc : {"sent"}, loaded : {old.loaded \cup due}, seen : {seen}, mine : {written},
                  fresh : {old.fresh}, wanted : {old.wanted}, alone : {old.alone}]
       /\ x.pc = "sent" /\ x.loaded = old.loaded \cup due /\ x.seen = seen /\ x.mine = written
       /\ x.fresh = old.fresh /\ x.wanted = old.wanted /\ x.alone = old.alone
  BY <1>5, <1>7
<1>11. batch' = [batch EXCEPT ![b] = x] /\ batch'[b] = x
  BY <1>0, <1>6, <1>7, <1>8, <1>9
<1>12. due \subseteq Slots /\ \A s \in due : Active(db[s])
  BY <1>1
<1>13. IsImage(seen) /\ IsImage(mine)
  BY <1>0, <1>2, <1>3 DEF IsImage, IsSession
<1>14. IsImage(written)
  <2>1. \A s \in Slots : IsRow(Sent(mine[s])) /\ IsRow(mine[s])
    BY <1>0, <1>13, SentRow DEF IsImage
  <2> QED BY <1>6, <2>1 DEF IsImage
<1>15. IsSession(x)
  BY <1>0, <1>2, <1>10, <1>12, <1>13, <1>14 DEF IsSession
<1>16. \A s \in Slots :
         /\ s \in due => mine[s] = Due(old, s)
         /\ s \notin due => mine[s] = old.mine[s]
  BY <1>3 DEF Due
<1>17. \A s \in Slots :
         /\ x.seen[s] = IF s \in due \ old.loaded THEN db[s] ELSE old.seen[s]
         /\ s \in due => x.mine[s] = Sent(Due(old, s))
         /\ s \notin due => x.mine[s] = old.mine[s]
  BY <1>3, <1>6, <1>10, <1>16
<1>18. /\ DOMAIN sentToday' = Slots /\ sentToday' = [s \in Slots |-> sentToday'[s]]
       /\ DOMAIN sentEver' = Slots /\ sentEver' = [s \in Slots |-> sentEver'[s]]
       /\ \A s \in Slots :
             /\ sentToday'[s] = IF s \in due /\ MaySend(mine[s]) THEN sentToday[s] + 1 ELSE sentToday[s]
             /\ sentEver'[s] = IF s \in due /\ MaySend(mine[s]) THEN sentEver[s] + 1 ELSE sentEver[s]
  BY <1>8, <1>9
<1>19. \A s \in Slots :
         /\ sentToday'[s] = IF s \in due /\ MaySend(Due(old, s)) THEN sentToday[s] + 1 ELSE sentToday[s]
         /\ sentEver'[s] = IF s \in due /\ MaySend(Due(old, s)) THEN sentEver[s] + 1 ELSE sentEver[s]
  BY <1>16, <1>18
<1>20. Sends(b, old, due, x)
  BY <1>0, <1>2, <1>10, <1>11, <1>12, <1>15, <1>17, <1>18, <1>19 DEF Sends
<1> QED BY <1>2, <1>20

LEMMA SendStep == ASSUME KInv, NEW b \in Batches, Send(b) PROVE KInv'
<1> PICK old : old = batch[b]
  OBVIOUS
<1>due. PICK due \in SUBSET Slots : \E x : Sends(b, old, due, x)
  BY SendFacts
<1>0. PICK x : Sends(b, old, due, x)
  BY <1>due
<1>1. /\ \A s \in due : Active(db[s])
      /\ batch' = [batch EXCEPT ![b] = x]
      /\ IsSession(x) /\ x.pc = "sent" /\ old.pc = "reconciled"
      /\ x.loaded = old.loaded \cup due /\ x.fresh = old.fresh
      /\ \A s \in Slots :
            /\ x.seen[s] = IF s \in due \ old.loaded THEN db[s] ELSE old.seen[s]
            /\ s \in due => x.mine[s] = Sent(Due(old, s))
            /\ s \notin due => x.mine[s] = old.mine[s]
            /\ sentToday'[s] = IF s \in due /\ MaySend(Due(old, s)) THEN sentToday[s] + 1 ELSE sentToday[s]
            /\ sentEver'[s] = IF s \in due /\ MaySend(Due(old, s)) THEN sentEver[s] + 1 ELSE sentEver[s]
      /\ DOMAIN sentToday' = Slots /\ sentToday' = [s \in Slots |-> sentToday'[s]]
      /\ DOMAIN sentEver' = Slots /\ sentEver' = [s \in Slots |-> sentEver'[s]]
  BY <1>0 DEF Sends
<1>2. /\ UNCHANGED <<today, db, overlaps, crashes>>
      /\ DOMAIN batch' = Batches /\ batch' = [c \in Batches |-> batch'[c]]
      /\ \A c \in Batches \ {b} : batch'[c] = batch[c]
      /\ batch'[b] = x
  <2>1. DOMAIN batch = Batches
    BY DEF KInv, CInv, Types
  <2>2. UNCHANGED <<today, db, overlaps, crashes>>
    BY DEF Send
  <2> QED BY <1>1, <2>1, <2>2
<1>3. /\ overlaps \in Nat /\ crashes \in Nat /\ today \in Nat /\ IsImage(db)
      /\ sentToday \in [Slots -> Nat] /\ sentEver \in [Slots -> Nat] /\ IsFiniteSet(Running)
      /\ IsSession(old) /\ \A c \in Batches : IsSession(batch[c])
  BY DEF KInv, CInv, Types
<1>4. Running' = Running
  BY <1>1, <1>2 DEF Running
<1>5. Types'
  <2>1. sentToday' \in [Slots -> Nat] /\ sentEver' \in [Slots -> Nat]
    BY <1>1, <1>3
  <2>2. \A c \in Batches : IsSession(batch'[c])
    BY <1>1, <1>2, <1>3
  <2> QED BY <1>2, <1>3, <1>4, <2>1, <2>2 DEF Types
<1>6. Limits'
  BY <1>2 DEF KInv, CInv, Limits, Unused
<1>7. ASSUME NEW s \in due
      PROVE  /\ IsRow(Due(old, s)) /\ x.mine[s].status # "none" /\ About(x.mine[s]) = About(Due(old, s))
             /\ x.mine[s].sends = IF MaySend(Due(old, s)) THEN Due(old, s).sends + 1 ELSE Due(old, s).sends
             /\ x.mine[s].last = IF MaySend(Due(old, s)) THEN today ELSE Due(old, s).last
  <2>1. s \in Slots
    BY <1>1
  <2>2. IsRow(Due(old, s))
    BY <1>3, <2>1 DEF IsImage, IsSession, Due
  <2> QED BY <1>1, <1>3, <2>1, <2>2, SentRow
<1>8. ASSUME NEW s \in old.loaded
      PROVE  /\ s \in Slots /\ Holds(old, s, db[s]) /\ About(old.mine[s]) = About(old.seen[s])
             /\ old.mine[s].sends = old.seen[s].sends /\ old.mine[s].last = old.seen[s].last
  BY <1>1, <1>3 DEF KInv, CInv, Apart, KeepsKeys, Holding, Holds, IsSession
<1>9. Holding(db)'
  <2> SUFFICES ASSUME NEW c \in Batches, NEW s \in batch'[c].loaded, batch'[c].pc # "idle"
               PROVE  Holds(batch[c], s, db[s])'
    BY DEF Holding
  <2>1. CASE c # b
    <3>1. Holds(batch[c], s, db[s])
      BY <1>2, <2>1 DEF KInv, CInv, Holding
    <3> QED BY <1>2, <2>1, <3>1 DEF Holds
  <2>2. ASSUME c = b, s \in due
        PROVE  Holds(batch[c], s, db[s])'
    <3>1. s \in Slots /\ db[s].status # "none"
      BY <1>1, <2>2 DEF Active, ActiveStatuses
    <3>2. /\ Due(old, s).sends = x.seen[s].sends /\ Due(old, s).last = x.seen[s].last
          /\ db[s].last # today => x.seen[s].sends = db[s].sends /\ x.seen[s].last = db[s].last
          /\ db[s].last = today =>
                x.seen[s].sends = IF x.seen[s].last = today THEN db[s].sends ELSE db[s].sends - 1
      <4>1. CASE s \in old.loaded
        BY <1>1, <1>8, <3>1, <4>1 DEF Holds, Due
      <4>2. CASE s \notin old.loaded
        BY <1>1, <2>2, <3>1, <4>2 DEF Due
      <4> QED BY <4>1, <4>2
    <3>3. /\ IsRow(Due(old, s)) /\ x.mine[s].status # "none"
          /\ x.mine[s].sends = IF MaySend(Due(old, s)) THEN Due(old, s).sends + 1 ELSE Due(old, s).sends
          /\ x.mine[s].last = IF MaySend(Due(old, s)) THEN today ELSE Due(old, s).last
      BY <1>7, <2>2
    <3>4. MaySend(Due(old, s)) => Due(old, s).last # today /\ Due(old, s).sends + 1 <= MaxSends
      BY <3>3, RemindersAssumption DEF MaySend, IsRow
    <3>5. \/ x.mine[s].sends = x.seen[s].sends /\ x.mine[s].last = x.seen[s].last
          \/ /\ x.seen[s].last # today /\ x.mine[s].last = today
             /\ x.mine[s].sends = x.seen[s].sends + 1 /\ x.mine[s].sends <= MaxSends
      BY <3>2, <3>3, <3>4
    <3> QED BY <1>1, <1>2, <2>2, <3>1, <3>2, <3>3, <3>5 DEF Holds
  <2>3. ASSUME c = b, s \notin due
        PROVE  Holds(batch[c], s, db[s])'
    <3>1. s \in old.loaded /\ s \in Slots
      BY <1>1, <1>8, <2>3
    <3>2. x.mine[s] = old.mine[s] /\ x.seen[s] = old.seen[s]
      BY <1>1, <2>3, <3>1
    <3> QED BY <1>1, <1>2, <1>8, <2>3, <3>1, <3>2 DEF Holds
  <2> QED BY <2>1, <2>2, <2>3
<1>10. Accounts'
  <2> SUFFICES ASSUME NEW s \in Slots PROVE Account(s)'
    BY DEF Accounts
  <2>1. /\ ~ MaySendYet(batch[b], s, db[s])'
        /\ \A c \in Batches \ {b} : /\ MaySendYet(batch[c], s, db[s])' <=> MaySendYet(batch[c], s, db[s])
                                    /\ HasSent(batch[c], s)' <=> HasSent(batch[c], s)
        /\ ~ HasSent(batch[b], s)
    BY <1>1, <1>2 DEF MaySendYet, HasSent
  <2>2. IsFiniteSet(Candidates(s))
    BY CandidatesFinite DEF KInv, CInv
  <2>3. PICK C, D : C = Candidates(s) /\ D = Candidates(s)'
    OBVIOUS
  <2>4. D \subseteq C \ {b} /\ (b \in C <=> MaySendYet(old, s, db[s]))
    BY <1>2, <2>1, <2>3 DEF Candidates
  <2>5. PICK n \in Nat, k \in Nat : n = Cardinality(C) /\ k = Cardinality(D)
                                   /\ k <= IF b \in C THEN n - 1 ELSE n
    BY <2>2, <2>3, <2>4, FewerWithout
  <2>6. PICK t \in Nat, e \in Nat, sends \in Nat :
          t = sentToday[s] /\ e = sentEver[s] /\ sends = db[s].sends
    BY <1>3 DEF IsImage, IsRow
  <2>7. PICK r \in {0, 1}, p \in {0, 1}, q \in {0, 1} :
          r = Recorded(s) /\ p = Pending(s) /\ q = Pending(s)'
    BY DEF Recorded, Pending
  <2>8. Recorded(s)' = r
    BY <1>2, <2>7 DEF Recorded
  <2>9. t + n <= overlaps + crashes + r + p /\ e + n <= overlaps + crashes + sends + p
    <3>1. Account(s)
      BY DEF KInv, CInv, Accounts
    <3> QED BY <2>3, <2>5, <2>6, <2>7, <3>1 DEF Account
  <2>10. ASSUME s \in due, MaySend(Due(old, s))
         PROVE  Account(s)'
    <3>1. Due(old, s).last # today
      BY <2>10 DEF MaySend
    <3>2. b \in C
      BY <1>1, <2>4, <3>1 DEF MaySendYet, Due
    <3>3. p <= q
      <4>1. ASSUME p = 1
            PROVE  q = 1
        <5>1. db[s].last # today
          BY <2>7, <4>1 DEF Pending
        <5>2. s \in x.loaded /\ x.mine[s].last = today
          BY <1>1, <1>7, <2>10
        <5>3. x.seen[s].last # today
          <6>1. CASE s \in old.loaded
            BY <1>1, <1>8, <3>1, <6>1 DEF Due
          <6>2. CASE s \notin old.loaded
            BY <1>1, <2>10, <5>1, <6>2
          <6> QED BY <6>1, <6>2
        <5>4. HasSent(batch[b], s)'
          BY <1>1, <1>2, <5>2, <5>3 DEF HasSent
        <5> QED BY <1>2, <2>7, <5>1, <5>4 DEF Pending
      <4> QED BY <4>1
    <3>4. sentToday'[s] = t + 1 /\ sentEver'[s] = e + 1
      BY <1>1, <2>6, <2>10
    <3>5. t + 1 + k <= overlaps + crashes + r + q /\ e + 1 + k <= overlaps + crashes + sends + q
      BY <1>3, <2>5, <2>9, <3>2, <3>3
    <3> QED BY <1>2, <2>3, <2>5, <2>6, <2>7, <2>8, <3>4, <3>5 DEF Account
  <2>11. ASSUME ~ (s \in due /\ MaySend(Due(old, s)))
         PROVE  Account(s)'
    <3>1. sentToday'[s] = t /\ sentEver'[s] = e
      BY <1>1, <2>6, <2>11
    <3>2. b \notin C => p <= q
      <4>1. ASSUME b \notin C, p = 1
            PROVE  q = 1
        <5>1. PICK c \in Batches : MaySendYet(batch[c], s, db[s]) \/ HasSent(batch[c], s)
          BY <2>7, <4>1 DEF Pending
        <5>2. c # b
          BY <2>1, <2>3, <4>1, <5>1 DEF Candidates
        <5>3. db[s].last # today
          BY <2>7, <4>1 DEF Pending
        <5> QED BY <1>2, <2>1, <2>7, <5>1, <5>2, <5>3 DEF Pending
      <4> QED BY <4>1
    <3>3. t + k <= overlaps + crashes + r + q /\ e + k <= overlaps + crashes + sends + q
      <4>1. CASE b \in C
        BY <1>3, <2>5, <2>9, <4>1
      <4>2. CASE b \notin C
        BY <1>3, <2>5, <2>9, <3>2, <4>2
      <4> QED BY <4>1, <4>2
    <3> QED BY <1>2, <2>3, <2>5, <2>6, <2>7, <2>8, <3>1, <3>3 DEF Account
  <2> QED BY <2>10, <2>11
<1>11. OneActivePerContext'
  BY <1>2 DEF KInv, OneActivePerContext, Automatic, Active
<1>12. Apart'
  <2>1. KeepsKeys(x)
    <3> SUFFICES ASSUME NEW s \in x.loaded PROVE About(x.mine[s]) = About(x.seen[s])
      BY DEF KeepsKeys
    <3>1. s \in Slots
      BY <1>1, <1>8
    <3>2. CASE s \notin due
      BY <1>1, <1>8, <3>1, <3>2
    <3>3. CASE s \in due
      <4>1. About(x.mine[s]) = About(Due(old, s))
        BY <1>7, <3>3
      <4> QED BY <1>1, <1>8, <3>1, <3>3, <4>1 DEF Due
    <3> QED BY <3>2, <3>3
  <2>2. \A c \in Batches : batch'[c].pc # "idle" => KeepsKeys(batch'[c])
    BY <1>2, <2>1 DEF KInv, Apart
  <2>3. ASSUME overlaps = 0
        PROVE  /\ \A c, d \in Running : c = d
               /\ \A c \in Running : News(batch'[c], db)
    <3>1. /\ \A c, d \in Running : c = d
          /\ \A c \in Running : News(batch[c], db)
      BY <2>3 DEF KInv, Apart
    <3>2. b \in Running
      BY <1>1 DEF Running
    <3>3. News(old, db)
      BY <3>1, <3>2
    <3>4. News(x, db)
      BY <1>1, <3>3 DEF News
    <3> QED BY <1>2, <3>1, <3>2, <3>4
  <2> QED BY <1>2, <1>4, <2>2, <2>3 DEF Apart
<1> QED BY <1>5, <1>6, <1>9, <1>10, <1>11, <1>12 DEF KInv, CInv

-----------------------------------------------------------------------------
(* Commit and Crash.                                                       *)

LEMMA NoBatchType == IsSession(NoBatch) /\ NoBatch.pc = "idle" /\ NoBatch.loaded = {}
  BY NothingThere DEF NoBatch, IsSession

\* What a batch leaves in row s: a new reminder, what it has changed, or what
\* was there.
LeavesNew(c, s) ==
    /\ Unused(s) /\ SameContext(c, db'[s])
    /\ db'[s].sends = 0 /\ db'[s].last = Never /\ db'[s].status # "none"

LeavesChanged(x, s) == s \in x.loaded /\ db'[s] = Written(db[s], x.seen[s], x.mine[s])

Leaves(x, slot) ==
    /\ \A c, d \in x.fresh : c # d => slot[c] # slot[d]
    /\ \A s \in Slots : \/ \E c \in x.fresh : slot[c] = s /\ LeavesNew(c, s)
                        \/ LeavesChanged(x, s)
                        \/ s \notin x.loaded /\ db'[s] = db[s]

LEMMA CommitFacts ==
    ASSUME KInv, NEW b \in Batches, Commit(b)
    PROVE  IsImage(db') /\ \E slot : Leaves(batch[b], slot)
<1> PICK x : x = batch[b]
  OBVIOUS
<1>0. IsImage(db) /\ IsSession(x)
  BY DEF KInv, CInv, Types
<1>1. PICK slot \in [x.fresh -> {s \in Slots : Unused(s)}] :
        /\ \A c, d \in x.fresh : c # d => slot[c] # slot[d]
        /\ db' = [s \in Slots |->
                    IF \E c \in x.fresh : slot[c] = s
                      THEN LET c == CHOOSE c \in x.fresh : slot[c] = s
                           IN  Reminder(c, StatusOn("open", c.due))
                    ELSE IF s \in x.loaded THEN Written(db[s], x.seen[s], x.mine[s])
                    ELSE db[s]]
  BY DEF Commit
<1>2. ASSUME NEW s \in Slots
      PROVE  /\ IsRow(db'[s])
             /\ \/ \E c \in x.fresh : slot[c] = s /\ LeavesNew(c, s)
                \/ LeavesChanged(x, s)
                \/ s \notin x.loaded /\ db'[s] = db[s]
  <2>1. CASE \E c \in x.fresh : slot[c] = s
    <3>1. PICK c : c = CHOOSE d \in x.fresh : slot[d] = s
      OBVIOUS
    <3>2. c \in x.fresh /\ slot[c] = s
      BY <2>1, <3>1
    <3>3. PICK status : status = StatusOn("open", c.due)
      OBVIOUS
    <3>4. status # "none"
      BY <3>3 DEF StatusOn
    <3>5. db'[s] = Reminder(c, status)
      BY <1>1, <2>1, <3>1, <3>3
    <3>6. IsRow(db'[s]) /\ LeavesNew(c, s)
      <4>1. Unused(s)
        BY <1>1, <3>2
      <4> QED BY <3>4, <3>5, <4>1, NewRow DEF LeavesNew, SameContext
    <3> QED BY <3>2, <3>6
  <2>2. CASE ~ (\E c \in x.fresh : slot[c] = s) /\ s \in x.loaded
    <3>1. db'[s] = Written(db[s], x.seen[s], x.mine[s])
      BY <1>1, <2>2
    <3>2. IsRow(db[s]) /\ IsRow(x.seen[s]) /\ IsRow(x.mine[s])
      BY <1>0 DEF IsImage, IsSession
    <3> QED BY <2>2, <3>1, <3>2, WrittenRow DEF LeavesChanged
  <2>3. CASE ~ (\E c \in x.fresh : slot[c] = s) /\ s \notin x.loaded
    <3>1. db'[s] = db[s]
      BY <1>1, <2>3
    <3> QED BY <1>0, <2>3, <3>1 DEF IsImage
  <2> QED BY <2>1, <2>2, <2>3
<1>3. IsImage(db')
  <2>1. DOMAIN db' = Slots /\ db' = [s \in Slots |-> db'[s]]
    BY <1>1
  <2> QED BY <1>2, <2>1 DEF IsImage
<1>4. Leaves(x, slot)
  BY <1>1, <1>2 DEF Leaves
<1> QED BY <1>3, <1>4

\* Of the sends: nothing changes, or the batch records that it has sent, on top
\* of what it has read.
LEMMA CommittedSends ==
    ASSUME KInv, NEW b \in Batches, Commit(b), NEW s \in Slots
    PROVE  /\ db'[s] = db[s] \/ db'[s].status # "none"
           /\ \/ /\ db'[s].sends = db[s].sends /\ db'[s].last = db[s].last
                 /\ ~ HasSent(batch[b], s)
              \/ /\ db'[s].last = today /\ db'[s].sends <= MaxSends
                 /\ db'[s].sends = IF db[s].last = today THEN db[s].sends ELSE db[s].sends + 1
<1> PICK x : x = batch[b]
  OBVIOUS
<1>0. /\ IsImage(db) /\ IsSession(x) /\ x.pc = "sent"
      /\ s \in x.loaded => Holds(x, s, db[s])
      /\ Unused(s) => db[s].sends = 0 /\ db[s].last = Never
  BY DEF KInv, CInv, Types, Holding, Limits, Commit
<1>1. PICK slot : Leaves(x, slot)
  BY CommitFacts
<1>2. CASE \E c \in x.fresh : slot[c] = s /\ LeavesNew(c, s)
  <2>1. PICK c : LeavesNew(c, s)
    BY <1>2
  <2>2. s \notin x.loaded
    BY <1>0, <2>1 DEF LeavesNew, Unused, Holds
  <2> QED BY <1>0, <2>1, <2>2 DEF LeavesNew, HasSent
<1>3. CASE LeavesChanged(x, s)
  <2>1. IsRow(db[s]) /\ IsRow(x.seen[s]) /\ IsRow(x.mine[s])
    BY <1>0 DEF IsImage, IsSession
  <2>2. PICK row : row = db'[s]
    OBVIOUS
  <2>3. /\ row.sends = IF x.mine[s].sends = x.seen[s].sends THEN db[s].sends ELSE x.mine[s].sends
        /\ row.last = IF x.mine[s].last = x.seen[s].last THEN db[s].last ELSE x.mine[s].last
        /\ row.status # "none"
    <3>1. x.mine[s].status # "none" /\ db[s].status # "none"
      BY <1>0, <1>3 DEF LeavesChanged, Holds
    <3> QED BY <1>3, <2>1, <2>2, <3>1, WrittenRow DEF LeavesChanged
  <2>4. Holds(x, s, db[s])
    BY <1>0, <1>3 DEF LeavesChanged
  <2>5. CASE x.mine[s].sends = x.seen[s].sends /\ x.mine[s].last = x.seen[s].last
    BY <2>2, <2>3, <2>5 DEF HasSent
  <2>6. CASE /\ x.seen[s].last # today /\ x.mine[s].last = today
             /\ x.mine[s].sends = x.seen[s].sends + 1 /\ x.mine[s].sends <= MaxSends
    <3>1. row.last = today /\ row.sends = x.seen[s].sends + 1 /\ row.sends <= MaxSends
      BY <2>1, <2>3, <2>6 DEF IsRow
    <3>2. x.seen[s].sends = IF db[s].last = today THEN db[s].sends - 1 ELSE db[s].sends
      BY <2>4, <2>6 DEF Holds
    <3> QED BY <2>1, <2>2, <2>3, <3>1, <3>2 DEF IsRow
  <2> QED BY <2>4, <2>5, <2>6 DEF Holds
<1>4. CASE s \notin x.loaded /\ db'[s] = db[s]
  BY <1>4 DEF HasSent
<1> QED BY <1>1, <1>2, <1>3, <1>4 DEF Leaves

\* Without overlap, automatic reminders are old ones, still about the same, or
\* new ones for contexts that had none.
LEMMA CommitKeepsOneActive ==
    ASSUME KInv, NEW b \in Batches, Commit(b)
    PROVE  OneActivePerContext'
<1> PICK x : x = batch[b]
  OBVIOUS
<1>0. IsImage(db) /\ IsSession(x) /\ KeepsKeys(x) /\ x.pc = "sent" /\ overlaps' = overlaps
  BY DEF KInv, CInv, Types, Apart, Commit, history
<1>1. PICK slot : Leaves(x, slot)
  BY CommitFacts
<1> SUFFICES ASSUME overlaps = 0, NEW s \in Slots, NEW r \in Slots,
                    Automatic(db'[s]), Automatic(db'[r]), SameContext(db'[s], db'[r])
             PROVE  s = r
  BY <1>0 DEF OneActivePerContext
<1>2. News(x, db)
  <2>1. b \in Running
    BY <1>0 DEF Running
  <2> QED BY <2>1 DEF KInv, Apart
<1>3. ASSUME NEW o \in Slots, Automatic(db'[o]), ~ \E c \in x.fresh : slot[c] = o /\ LeavesNew(c, o)
      PROVE  Automatic(db[o]) /\ About(db[o]) = About(db'[o])
  <2>1. CASE o \notin x.loaded /\ db'[o] = db[o]
    BY <1>3, <2>1
  <2>2. CASE LeavesChanged(x, o)
    <3>1. IsRow(db[o]) /\ IsRow(x.seen[o]) /\ IsRow(x.mine[o])
      BY <1>0 DEF IsImage, IsSession
    <3>2. About(x.mine[o]) = About(x.seen[o])
      BY <1>0, <2>2 DEF LeavesChanged, KeepsKeys
    <3>3. About(db'[o]) = About(db[o])
      BY <2>2, <3>1, <3>2, WrittenRow DEF LeavesChanged
    <3>4. db[o].rule # NoRule
      BY <1>3, <3>3 DEF Automatic, About
    <3>5. Active(db[o])
      BY <1>2, <2>2, <3>4 DEF News, LeavesChanged
    <3> QED BY <3>3, <3>4, <3>5 DEF Automatic
  <2> QED BY <1>1, <1>3, <2>1, <2>2 DEF Leaves
<1>4. ASSUME NEW n \in Slots, NEW o \in Slots,
             \E c \in x.fresh : slot[c] = n /\ LeavesNew(c, n),
             Automatic(db'[o]), SameContext(db'[n], db'[o])
      PROVE  n = o
  <2>1. PICK c \in x.fresh : slot[c] = n /\ SameContext(c, db'[n])
    BY <1>4 DEF LeavesNew
  <2>2. SameContext(c, db'[o])
    BY <1>4, <2>1 DEF SameContext
  <2>3. CASE \E d \in x.fresh : slot[d] = o /\ LeavesNew(d, o)
    <3>1. PICK d \in x.fresh : slot[d] = o /\ SameContext(d, db'[o])
      BY <2>3 DEF LeavesNew
    <3>2. SameContext(c, d)
      BY <2>2, <3>1 DEF SameContext
    <3>3. c = d
      BY <1>2, <3>2 DEF News
    <3> QED BY <2>1, <3>1, <3>3
  <2>4. CASE ~ \E d \in x.fresh : slot[d] = o /\ LeavesNew(d, o)
    <3>1. Automatic(db[o]) /\ About(db[o]) = About(db'[o])
      BY <1>3, <1>4, <2>4
    <3>2. SameContext(c, db[o])
      BY <2>2, <3>1 DEF SameContext, About
    <3> QED BY <1>2, <3>1, <3>2 DEF News
  <2> QED BY <2>3, <2>4
<1>5. CASE \E c \in x.fresh : slot[c] = s /\ LeavesNew(c, s)
  BY <1>4, <1>5
<1>6. CASE \E c \in x.fresh : slot[c] = r /\ LeavesNew(c, r)
  <2>1. SameContext(db'[r], db'[s])
    BY DEF SameContext
  <2> QED BY <1>4, <1>6, <2>1
<1>7. CASE /\ ~ \E c \in x.fresh : slot[c] = s /\ LeavesNew(c, s)
           /\ ~ \E c \in x.fresh : slot[c] = r /\ LeavesNew(c, r)
  <2>1. Automatic(db[s]) /\ About(db[s]) = About(db'[s])
    BY <1>3, <1>7
  <2>2. Automatic(db[r]) /\ About(db[r]) = About(db'[r])
    BY <1>3, <1>7
  <2>3. SameContext(db[s], db[r])
    BY <2>1, <2>2 DEF SameContext, About
  <2> QED BY <2>1, <2>2, <2>3 DEF KInv, OneActivePerContext
<1> QED BY <1>5, <1>6, <1>7

LEMMA CommitStep == ASSUME KInv, NEW b \in Batches, Commit(b) PROVE KInv'
<1>1. /\ UNCHANGED <<today, sentToday, sentEver, overlaps, crashes>>
      /\ DOMAIN batch' = Batches /\ batch' = [c \in Batches |-> batch'[c]]
      /\ \A c \in Batches \ {b} : batch'[c] = batch[c]
      /\ batch'[b] = NoBatch /\ batch[b].pc = "sent"
      /\ IsImage(db')
  <2>1. DOMAIN batch = Batches
    BY DEF KInv, CInv, Types
  <2>2. batch' = [batch EXCEPT ![b] = NoBatch]
    BY DEF Commit
  <2> QED BY <2>1, <2>2, CommitFacts DEF Commit, history
<1>2. /\ overlaps \in Nat /\ crashes \in Nat /\ today \in Nat /\ IsImage(db)
      /\ sentToday \in [Slots -> Nat] /\ sentEver \in [Slots -> Nat] /\ IsFiniteSet(Running)
      /\ \A c \in Batches : IsSession(batch[c])
  BY DEF KInv, CInv, Types
<1>3. Running' = Running \ {b}
  BY <1>1, NoBatchType DEF Running
<1>4. Types'
  <2>1. IsFiniteSet(Running')
    BY <1>2, <1>3, FS_RemoveElement
  <2>2. \A c \in Batches : IsSession(batch'[c])
    BY <1>1, <1>2, NoBatchType
  <2> QED BY <1>1, <1>2, <2>1, <2>2 DEF Types
<1>5. Limits'
  <2> SUFFICES ASSUME NEW s \in Slots
               PROVE  /\ db'[s].last <= today /\ db'[s].sends <= MaxSends
                      /\ db'[s].status = "none" => db'[s].sends = 0 /\ db'[s].last = Never
    BY <1>1 DEF Limits, Unused
  <2>1. /\ db[s].last <= today /\ db[s].sends <= MaxSends
        /\ db[s].status = "none" => db[s].sends = 0 /\ db[s].last = Never
    BY DEF KInv, CInv, Limits, Unused
  <2> QED BY <1>2, <2>1, CommittedSends
<1>6. Holding(db)'
  <2> SUFFICES ASSUME NEW c \in Batches, NEW s \in batch'[c].loaded, batch'[c].pc # "idle"
               PROVE  Holds(batch[c], s, db[s])'
    BY DEF Holding
  <2>1. c # b /\ batch'[c] = batch[c]
    BY <1>1, NoBatchType
  <2>2. Holds(batch[c], s, db[s]) /\ s \in Slots
    BY <1>2, <2>1 DEF KInv, CInv, Holding, IsSession
  <2>3. IsRow(db[s]) /\ IsRow(db'[s])
    BY <1>1, <1>2, <2>2 DEF IsImage
  <2>4. db'[s].status # "none"
    BY <2>2, CommittedSends DEF Holds
  <2>5. CASE db'[s].sends = db[s].sends /\ db'[s].last = db[s].last
    BY <1>1, <2>1, <2>2, <2>4, <2>5 DEF Holds
  <2>6. CASE /\ db'[s].last = today
             /\ db'[s].sends = IF db[s].last = today THEN db[s].sends ELSE db[s].sends + 1
    <3>1. batch[c].seen[s].sends =
            IF batch[c].seen[s].last = today THEN db'[s].sends ELSE db'[s].sends - 1
      BY <2>2, <2>3, <2>6 DEF Holds, IsRow
    <3> QED BY <1>1, <2>1, <2>2, <2>4, <2>6, <3>1 DEF Holds
  <2> QED BY <2>2, <2>5, <2>6, CommittedSends
<1>7. Accounts'
  <2> SUFFICES ASSUME NEW s \in Slots PROVE Account(s)'
    BY DEF Accounts
  <2>1. IsRow(db[s]) /\ IsRow(db'[s])
    BY <1>1, <1>2 DEF IsImage
  <2>2. PICK C, D : C = Candidates(s) /\ D = Candidates(s)'
    OBVIOUS
  <2>3. \A c \in Batches : MaySendYet(batch[c], s, db[s])' => c # b /\ MaySendYet(batch[c], s, db[s])
    <3>1. db'[s].last = db[s].last \/ db'[s].last = today
      BY CommittedSends
    <3> QED BY <1>1, <3>1, NoBatchType DEF MaySendYet
  <2>4. D \subseteq C \ {b}
    BY <2>2, <2>3 DEF Candidates
  <2>5. PICK n \in Nat, k \in Nat : n = Cardinality(C) /\ k = Cardinality(D) /\ k <= n
    <3>1. IsFiniteSet(C)
      BY <2>2, CandidatesFinite DEF KInv, CInv
    <3>2. /\ Cardinality(C) \in Nat /\ Cardinality(D) \in Nat
          /\ Cardinality(D) <= IF b \in C THEN Cardinality(C) - 1 ELSE Cardinality(C)
      BY <2>4, <3>1, FewerWithout
    <3> QED BY <3>2
  <2>6. PICK t \in Nat, e \in Nat, sends \in Nat, after \in Nat :
          t = sentToday[s] /\ e = sentEver[s] /\ sends = db[s].sends /\ after = db'[s].sends
    BY <1>2, <2>1 DEF IsRow
  <2>7. PICK r \in {0, 1}, p \in {0, 1}, u \in {0, 1}, q \in {0, 1} :
          r = Recorded(s) /\ p = Pending(s) /\ u = Recorded(s)' /\ q = Pending(s)'
    BY DEF Recorded, Pending
  <2>8. t + n <= overlaps + crashes + r + p /\ e + n <= overlaps + crashes + sends + p
    <3>1. Account(s)
      BY DEF KInv, CInv, Accounts
    <3> QED BY <2>2, <2>5, <2>6, <2>7, <3>1 DEF Account
  <2>9. CASE db'[s].sends = db[s].sends /\ db'[s].last = db[s].last /\ ~ HasSent(batch[b], s)
    <3>1. u = r
      BY <1>1, <2>7, <2>9 DEF Recorded
    <3>2. p <= q
      <4>1. ASSUME p = 1
            PROVE  q = 1
        <5>1. PICK c \in Batches : /\ db[s].last # today
                                   /\ MaySendYet(batch[c], s, db[s]) \/ HasSent(batch[c], s)
          BY <2>7, <4>1 DEF Pending
        <5>2. c # b
          BY <1>1, <2>9, <5>1 DEF MaySendYet
        <5>3. MaySendYet(batch[c], s, db[s])' \/ HasSent(batch[c], s)'
          BY <1>1, <2>9, <5>1, <5>2 DEF MaySendYet, HasSent
        <5> QED BY <1>1, <2>7, <2>9, <5>1, <5>3 DEF Pending
      <4> QED BY <4>1
    <3> QED BY <1>1, <1>2, <2>2, <2>5, <2>6, <2>7, <2>8, <2>9, <3>1, <3>2 DEF Account
  <2>10. CASE /\ db'[s].last = today
              /\ db'[s].sends = IF db[s].last = today THEN db[s].sends ELSE db[s].sends + 1
    <3>1. u = 1 /\ q = 0
      BY <1>1, <2>7, <2>10 DEF Recorded, Pending
    <3>2. r + p <= 1 /\ (db[s].last = today => p = 0)
      BY <2>7 DEF Recorded, Pending
    <3>3. t + k <= overlaps + crashes + u + q /\ e + k <= overlaps + crashes + after + q
      BY <1>2, <2>5, <2>6, <2>8, <2>10, <3>1, <3>2
    <3> QED BY <1>1, <2>2, <2>5, <2>6, <2>7, <3>3 DEF Account
  <2> QED BY <2>9, <2>10, CommittedSends
<1>8. Apart'
  <2>1. overlaps = 0 => Running' = {}
    <3>1. b \in Running
      BY <1>1 DEF Running
    <3> QED BY <1>3, <3>1 DEF KInv, Apart
  <2>2. \A c \in Batches : batch'[c].pc # "idle" => KeepsKeys(batch'[c])
    BY <1>1, NoBatchType DEF KInv, Apart
  <2> QED BY <1>1, <2>1, <2>2 DEF Apart
<1> QED BY <1>4, <1>5, <1>6, <1>7, <1>8, CommitKeepsOneActive DEF KInv, CInv

\* A batch that dies takes its claim to a send with it, and counts for one.
LEMMA CrashStep == ASSUME KInv, NEW b \in Batches, Crash(b) PROVE KInv'
<1>1. /\ UNCHANGED <<today, db, sentToday, sentEver, overlaps>> /\ crashes' = crashes + 1
      /\ DOMAIN batch' = Batches /\ batch' = [c \in Batches |-> batch'[c]]
      /\ \A c \in Batches \ {b} : batch'[c] = batch[c]
      /\ batch'[b] = NoBatch
  <2>1. DOMAIN batch = Batches
    BY DEF KInv, CInv, Types
  <2>2. batch' = [batch EXCEPT ![b] = NoBatch]
    BY DEF Crash
  <2> QED BY <2>1, <2>2 DEF Crash
<1>2. /\ overlaps \in Nat /\ crashes \in Nat /\ today \in Nat /\ IsImage(db)
      /\ sentToday \in [Slots -> Nat] /\ sentEver \in [Slots -> Nat] /\ IsFiniteSet(Running)
      /\ \A c \in Batches : IsSession(batch[c])
  BY DEF KInv, CInv, Types
<1>3. Running' = Running \ {b}
  BY <1>1, NoBatchType DEF Running
<1>4. Types'
  <2>1. IsFiniteSet(Running')
    BY <1>2, <1>3, FS_RemoveElement
  <2>2. \A c \in Batches : IsSession(batch'[c])
    BY <1>1, <1>2, NoBatchType
  <2> QED BY <1>1, <1>2, <2>1, <2>2 DEF Types
<1>5. Limits' /\ OneActivePerContext'
  BY <1>1 DEF KInv, CInv, Limits, Unused, OneActivePerContext, Automatic, Active
<1>6. Holding(db)'
  <2> SUFFICES ASSUME NEW c \in Batches, NEW s \in batch'[c].loaded, batch'[c].pc # "idle"
               PROVE  Holds(batch[c], s, db[s])'
    BY DEF Holding
  <2>1. c # b /\ batch'[c] = batch[c]
    BY <1>1, NoBatchType
  <2>2. Holds(batch[c], s, db[s])
    BY <2>1 DEF KInv, CInv, Holding
  <2> QED BY <1>1, <2>1, <2>2 DEF Holds
<1>7. Accounts'
  <2> SUFFICES ASSUME NEW s \in Slots PROVE Account(s)'
    BY DEF Accounts
  <2>1. PICK C, D : C = Candidates(s) /\ D = Candidates(s)'
    OBVIOUS
  <2>2. D \subseteq C \ {b}
    BY <1>1, <2>1, NoBatchType DEF Candidates, MaySendYet
  <2>3. PICK n \in Nat, k \in Nat : n = Cardinality(C) /\ k = Cardinality(D) /\ k <= n
    <3>1. IsFiniteSet(C)
      BY <2>1, CandidatesFinite DEF KInv, CInv
    <3>2. /\ Cardinality(C) \in Nat /\ Cardinality(D) \in Nat
          /\ Cardinality(D) <= IF b \in C THEN Cardinality(C) - 1 ELSE Cardinality(C)
      BY <2>2, <3>1, FewerWithout
    <3> QED BY <3>2
  <2>4. PICK t \in Nat, e \in Nat, sends \in Nat :
          t = sentToday[s] /\ e = sentEver[s] /\ sends = db[s].sends
    BY <1>2 DEF IsImage, IsRow
  <2>5. PICK r \in {0, 1}, p \in {0, 1}, q \in {0, 1} :
          r = Recorded(s) /\ p = Pending(s) /\ q = Pending(s)'
    BY DEF Recorded, Pending
  <2>6. Recorded(s)' = r
    BY <1>1, <2>5 DEF Recorded
  <2>7. t + n <= overlaps + crashes + r + p /\ e + n <= overlaps + crashes + sends + p
    <3>1. Account(s)
      BY DEF KInv, CInv, Accounts
    <3> QED BY <2>1, <2>3, <2>4, <2>5, <3>1 DEF Account
  <2>8. /\ t + k <= overlaps + (crashes + 1) + r + q
        /\ e + k <= overlaps + (crashes + 1) + sends + q
    BY <1>2, <2>3, <2>7
  <2> QED BY <1>1, <2>1, <2>3, <2>4, <2>5, <2>6, <2>8 DEF Account
<1>8. Apart'
  <2>1. \A c \in Batches : batch'[c].pc # "idle" => batch'[c] = batch[c]
    BY <1>1, NoBatchType
  <2>2. Running' \subseteq Running /\ Running \subseteq Batches
    BY <1>3 DEF Running
  <2>3. \A c \in Running' : batch'[c] = batch[c]
    BY <2>1 DEF Running
  <2> QED BY <1>1, <2>1, <2>2, <2>3 DEF KInv, Apart
<1> QED BY <1>4, <1>5, <1>6, <1>7, <1>8 DEF KInv, CInv

-----------------------------------------------------------------------------
(* The invariant and what it implies.                                      *)

LEMMA StutterStep == ASSUME KInv, UNCHANGED vars PROVE KInv'
<1>1. IsImage(db)
  BY DEF KInv, CInv, Types
<1> QED BY <1>1, QuietStep DEF vars, history

LEMMA NextStep == ASSUME KInv, [Next]_vars PROVE KInv'
<1>1. CASE UNCHANGED vars
  BY <1>1, StutterStep
<1>2. CASE Next
  <2>1. CASE \/ \E s \in Slots : Resolve(s) \/ \E f \in Rfqs : CreateManual(s, f)
             \/ \E f \in Rfqs : ChangeRfq(f)
             \/ \E r \in Rules : ToggleRule(r)
    BY <2>1, UserStep
  <2>2. CASE NextDay
    BY <2>2, NextDayStep
  <2>3. CASE \E b \in Batches : Reconcile(b) \/ Send(b) \/ Commit(b) \/ Crash(b)
    BY <2>3, ReconcileStep, SendStep, CommitStep, CrashStep
  <2> QED BY <1>2, <2>1, <2>2, <2>3 DEF Next
<1> QED BY <1>1, <1>2

LEMMA Invariance == Spec => []KInv
<1>1. Init => KInv
  BY KInvInit
<1>2. KInv /\ [Next]_vars => KInv'
  BY NextStep
<1> QED BY <1>1, <1>2, PTL DEF Spec

\* The daily cadence block holds but for one sending more for each batch begun
\* while another was running and for each that died
\* (NotificationService.process_due_reminders).
THEOREM SentOncePerDay == Spec => []OncePerDay
<1>1. KInv => OncePerDay
  BY AccountBounds DEF KInv, OncePerDay
<1> QED BY <1>1, Invariance, PTL

\* A reminder is sent max_sends times in all, but for the same exceptions.
THEOREM SentWithinLimit == Spec => []NeverOverLimit
<1>1. KInv => NeverOverLimit
  BY AccountBounds DEF KInv, NeverOverLimit
<1> QED BY <1>1, Invariance, PTL

\* Without overlapping batches no context has two active reminders of a rule,
\* whatever users do meanwhile and wherever batches die
\* (NotificationService._reconcile_automatic_reminders).
THEOREM NoDuplicates == Spec => []OneActivePerContext
<1>1. KInv => OneActivePerContext
  BY DEF KInv
<1> QED BY <1>1, Invariance, PTL

-----------------------------------------------------------------------------
(* A batch that no other overlaps.                                         *)

SupportedRules == {r \in Rules : Scope[r] \in Supported}

(***************************************************************************)
(* What holds whether or not batches overlap: generated reminders, of any  *)
(* status, belong to rules with a supported scope, and a context has       *)
(* finitely many, as a commit adds at most one.                            *)
(***************************************************************************)
Siblings(s) == {r \in Slots : SameContext(db[r], db[s])}

Generated ==
    \A s \in Slots :
        db[s].rule # NoRule =>
            ~ Unused(s) /\ db[s].rule \in SupportedRules /\ IsFiniteSet(Siblings(s))

IsWanted(C) ==
    /\ \A c \in C : /\ c.rule \in SupportedRules
                    /\ c = Context(c.rule, c.rfq, c.stage, c.due)
    /\ \A c, d \in C : SameContext(c, d) => c = d

(***************************************************************************)
(* What a batch x that is alone knows of the reminders: it has read every  *)
(* automatic one, none has changed since, and it holds one with the right  *)
(* date, or a new one, for each context in need of it; where there is none *)
(* in need and it leaves one active, it resolves another.                  *)
(***************************************************************************)
Knows(x) ==
    /\ \A s \in Slots : Automatic(db[s]) => s \in x.loaded
    /\ \A s \in x.loaded : db[s].rule # NoRule => Automatic(db[s]) /\ x.seen[s] = db[s]
    /\ \A s \in x.loaded :
          Automatic(db[s]) => x.mine[s].status = "resolved" \/ Active(x.mine[s])
    /\ \A c \in x.fresh, s \in Slots : Automatic(db[s]) => ~ SameContext(c, db[s])
    /\ \A c \in x.wanted \ x.fresh :
          \E k \in x.loaded : Automatic(db[k]) /\ ContextOf(x.mine[k]) = c /\ Active(x.mine[k])
    /\ \A s \in x.loaded :
          Automatic(db[s]) /\ Active(x.mine[s]) /\ (\A c \in x.wanted : ~ SameContext(c, db[s]))
            => \E k \in x.loaded : /\ Automatic(db[k]) /\ SameContext(db[k], db[s])
                                   /\ x.mine[k].status = "resolved"

Lone ==
    \A b \in Running :
        /\ IsWanted(batch[b].wanted) /\ batch[b].fresh \subseteq batch[b].wanted
        /\ batch[b].alone => Running = {b} /\ Knows(batch[b])

LInv == Generated /\ Lone

\* At first there is nothing.
LEMMA LoneInit == ASSUME Init PROVE LInv
<1>1. \A s \in Slots : db[s].rule = NoRule
  BY DEF Init, Nothing, NoReminder, Reminder, Context
<1>2. Running = {}
  BY DEF Init, Running, NoBatch
<1> QED BY <1>1, <1>2 DEF LInv, Generated, Lone

\* What users do to their own reminders concerns no batch.
LEMMA UserRowsLone ==
    ASSUME KInv, LInv, UNCHANGED batch,
           \A s \in Slots : db'[s] = db[s] \/ (db[s].rule = NoRule /\ db'[s].rule = NoRule)
    PROVE  LInv'
<1>1. \A s \in Slots : db'[s].rule # NoRule \/ db[s].rule # NoRule => db'[s] = db[s]
  OBVIOUS
<1>2. \A s \in Slots : Automatic(db'[s]) \/ Automatic(db[s]) => db'[s] = db[s]
  BY <1>1 DEF Automatic
<1>3. Generated'
  <2> SUFFICES ASSUME NEW s \in Slots, db'[s].rule # NoRule
               PROVE  /\ db'[s].status # "none" /\ db'[s].rule \in SupportedRules
                      /\ IsFiniteSet({r \in Slots : SameContext(db'[r], db'[s])})
    BY DEF Generated, Siblings, Unused, SupportedRules, SameContext
  <2>1. db'[s] = db[s]
    BY <1>1
  <2>2. {r \in Slots : SameContext(db'[r], db'[s])} = Siblings(s)
    BY <1>1, <2>1 DEF Siblings, SameContext
  <2> QED BY <2>1, <2>2 DEF LInv, Generated, Unused
<1>4. ASSUME NEW b \in Running, batch[b].alone
      PROVE  Knows(batch[b])'
  <2>1. PICK x : x = batch[b] /\ x = batch'[b]
    OBVIOUS
  <2>2. x.loaded \subseteq Slots
    BY <2>1 DEF Running, KInv, CInv, Types, IsSession
  <2>3. Knows(x)
    BY <1>4, <2>1 DEF LInv, Lone
  <2>4. \A s \in Slots : Automatic(db'[s]) <=> Automatic(db[s])
    BY <1>2
  <2>5. /\ \A s \in Slots : Automatic(db'[s]) => s \in x.loaded
        /\ \A s \in x.loaded : db'[s].rule # NoRule => Automatic(db'[s]) /\ x.seen[s] = db'[s]
        /\ \A s \in x.loaded :
              Automatic(db'[s]) => x.mine[s].status = "resolved" \/ Active(x.mine[s])
        /\ \A c \in x.fresh, s \in Slots : Automatic(db'[s]) => ~ SameContext(c, db'[s])
    BY <1>1, <1>2, <2>2, <2>3, <2>4 DEF Knows
  <2>6. \A c \in x.wanted \ x.fresh :
          \E k \in x.loaded : Automatic(db'[k]) /\ ContextOf(x.mine[k]) = c /\ Active(x.mine[k])
    BY <2>2, <2>3, <2>4 DEF Knows
  <2>7. ASSUME NEW s \in x.loaded, Automatic(db'[s]), Active(x.mine[s]),
               \A c \in x.wanted : ~ SameContext(c, db'[s])
        PROVE  \E k \in x.loaded : /\ Automatic(db'[k]) /\ SameContext(db'[k], db'[s])
                                   /\ x.mine[k].status = "resolved"
    <3>1. db'[s] = db[s] /\ Automatic(db[s])
      BY <1>2, <2>2, <2>7
    <3>2. PICK k \in x.loaded : /\ Automatic(db[k]) /\ SameContext(db[k], db[s])
                                /\ x.mine[k].status = "resolved"
      BY <2>3, <2>7, <3>1 DEF Knows
    <3>3. db'[k] = db[k]
      BY <1>2, <2>2, <3>2
    <3> QED BY <3>1, <3>2, <3>3
  <2> QED BY <2>1, <2>5, <2>6, <2>7 DEF Knows
<1>5. Running' = Running
  BY DEF Running
<1>6. \A b \in Running :
        /\ IsWanted(batch[b].wanted) /\ batch[b].fresh \subseteq batch[b].wanted
        /\ batch[b].alone => Running = {b}
  BY DEF LInv, Lone
<1>7. Lone'
  <2>1. \A b \in Running : IsWanted(batch[b].wanted)' <=> IsWanted(batch[b].wanted)
    BY DEF IsWanted, SupportedRules, SameContext, Context
  <2> QED BY <1>4, <1>5, <1>6, <2>1 DEF Lone
<1> QED BY <1>3, <1>7 DEF LInv

\* Users and time do no more than that.
LEMMA UserStepLone ==
    ASSUME KInv, LInv,
           \/ \E s \in Slots : Resolve(s) \/ \E f \in Rfqs : CreateManual(s, f)
           \/ \E f \in Rfqs : ChangeRfq(f)
           \/ \E r \in Rules : ToggleRule(r)
           \/ NextDay \/ UNCHANGED vars
    PROVE  LInv'
<1>1. IsImage(db)
  BY DEF KInv, CInv, Types
<1>2. ASSUME NEW s \in Slots, Resolve(s)
      PROVE  LInv'
  <2>1. db' = [db EXCEPT ![s] = [db[s] EXCEPT !.status = "resolved"]] /\ db[s].rule = NoRule
    BY <1>2 DEF Resolve
  <2>2. PICK row : row = [db[s] EXCEPT !.status = "resolved"]
    OBVIOUS
  <2>3. row.rule = NoRule
    BY <1>1, <2>1, <2>2 DEF IsImage, IsRow
  <2>4. db' = [db EXCEPT ![s] = row]
    BY <2>1, <2>2
  <2> QED BY <1>1, <1>2, <2>1, <2>3, <2>4, UserRowsLone DEF Resolve, IsImage
<1>3. ASSUME NEW s \in Slots, NEW f \in Rfqs, CreateManual(s, f)
      PROVE  LInv'
  <2>1. PICK due : db' = [db EXCEPT ![s] = Reminder(Context(NoRule, f, NoStage, due), "open")]
    BY <1>3 DEF CreateManual
  <2>2. PICK row : row = Reminder(Context(NoRule, f, NoStage, due), "open")
    OBVIOUS
  <2>3. row.rule = NoRule
    BY <2>2, NewRow DEF Context
  <2>4. db[s].rule = NoRule
    BY <1>3 DEF CreateManual, LInv, Generated
  <2>5. db' = [db EXCEPT ![s] = row]
    BY <2>1, <2>2
  <2> QED BY <1>1, <1>3, <2>3, <2>4, <2>5, UserRowsLone DEF CreateManual, IsImage
<1>4. ASSUME \/ \E f \in Rfqs : ChangeRfq(f)
             \/ \E r \in Rules : ToggleRule(r)
             \/ NextDay \/ UNCHANGED vars
      PROVE  LInv'
  <2>1. UNCHANGED <<batch, db>>
    BY <1>4 DEF ChangeRfq, ToggleRule, NextDay, vars
  <2> QED BY <2>1, UserRowsLone
<1> QED BY <1>2, <1>3, <1>4

\* The contexts in need of a reminder are of rules with a supported scope, one
\* for each rule and RFQ.
LEMMA WantedContexts == IsWanted(Wanted)
<1>1. ASSUME NEW c \in Wanted
      PROVE  \E r \in Rules, f \in Rfqs : c = ContextFor(r, f) /\ Scope[r] \in Supported
  BY DEF Wanted, Selects, Supported
<1>2. \A r \in Rules, f \in Rfqs :
        LET c == ContextFor(r, f) IN
        c.rule = r /\ c.rfq = f /\ c = Context(c.rule, c.rfq, c.stage, c.due)
  BY DEF ContextFor, Context
<1> QED BY <1>1, <1>2 DEF IsWanted, SupportedRules, SameContext

\* What reconciling makes of a row.
LEMMA ReconciledValue ==
    ASSUME NEW r, IsRow(r)
    PROVE  LET row == Reconciled(r) IN
           /\ (\A c \in Wanted : ~ SameContext(c, r)) => row.status = "resolved"
           /\ \A c \in Wanted : SameContext(c, r) => ContextOf(row) = c /\ Active(row)
<1>1. PICK found : found = {c \in Wanted : SameContext(c, r)}
  OBVIOUS
<1>2. CASE found = {}
  <2>1. Reconciled(r) = [r EXCEPT !.status = "resolved"]
    BY <1>1, <1>2 DEF Reconciled
  <2>2. Reconciled(r).status = "resolved"
    BY <2>1 DEF IsRow
  <2> QED BY <1>1, <1>2, <2>2
<1>3. ASSUME NEW c \in Wanted, SameContext(c, r)
      PROVE  ContextOf(Reconciled(r)) = c /\ Active(Reconciled(r))
  <2>1. found = {c}
    BY <1>1, <1>3, WantedContexts DEF IsWanted, SameContext
  <2>2. (CHOOSE d \in found : TRUE).due = c.due
    BY <2>1
  <2>3. PICK due, status : due = c.due /\ status = StatusOn("open", due)
    OBVIOUS
  <2>4. Reconciled(r) = [r EXCEPT !.due = due, !.status = status]
    <3>1. Reconciled(r) = IF found = {} THEN [r EXCEPT !.status = "resolved"]
                          ELSE [r EXCEPT !.due = (CHOOSE d \in found : TRUE).due,
                                         !.status = StatusOn("open", (CHOOSE d \in found : TRUE).due)]
      BY <1>1 DEF Reconciled
    <3> QED BY <2>1, <2>2, <2>3, <3>1
  <2>5. PICK row : row = Reconciled(r)
    OBVIOUS
  <2>6. row.rule = r.rule /\ row.rfq = r.rfq /\ row.stage = r.stage /\ row.due = due /\ row.status = status
    BY <2>4, <2>5 DEF IsRow
  <2>7. status \in ActiveStatuses
    BY <2>3 DEF StatusOn, ActiveStatuses
  <2>8. c = Context(c.rule, c.rfq, c.stage, c.due)
    BY WantedContexts DEF IsWanted
  <2>9. ContextOf(row) = Context(r.rule, r.rfq, r.stage, due)
    BY <2>6 DEF ContextOf
  <2>10. c.rule = r.rule /\ c.rfq = r.rfq /\ c.stage = r.stage
    BY <1>3 DEF SameContext
  <2> QED BY <2>3, <2>5, <2>6, <2>7, <2>8, <2>9, <2>10 DEF Active
<1> QED BY <1>1, <1>2, <1>3

\* A batch begins by reading every automatic reminder; of those it leaves out,
\* it keeps another with the same context.
LEMMA ReconcileKnows ==
    ASSUME KInv, LInv, NEW b \in Batches, Reconcile(b)
    PROVE  /\ batch'[b].wanted = Wanted /\ batch'[b].fresh \subseteq Wanted
           /\ batch'[b].alone = (Running = {})
           /\ Knows(batch'[b])
<1>0. /\ IsImage(db) /\ DOMAIN batch = Batches
  BY DEF KInv, CInv, Types
<1>1. PICK auto : auto = UNION {Found(r) : r \in Rules}
  OBVIOUS
<1>2. auto \subseteq Slots /\ \A s \in Slots : s \in auto <=> Automatic(db[s])
  BY <1>1 DEF Found, LInv, Generated, SupportedRules, Automatic
<1>3. PICK old : old = [s \in Slots |-> IF s \in auto THEN db[s] ELSE Nothing[s]]
  OBVIOUS
<1>4. Select(NoBatch, auto) = [NoBatch EXCEPT !.loaded = auto, !.seen = old, !.mine = old]
  <2>1. auto \ {} = auto /\ {} \cup auto = auto
    OBVIOUS
  <2>2. NoBatch.loaded = {} /\ NoBatch.seen = Nothing /\ NoBatch.mine = Nothing
    BY DEF NoBatch
  <2> QED BY <1>3, <2>1, <2>2 DEF Select
<1>5. PICK kept \in Existing :
        batch' = [c \in Batches |->
            IF c = b
              THEN [pc     |-> "reconciled",
                    loaded |-> Select(NoBatch, auto).loaded,
                    seen   |-> Select(NoBatch, auto).seen,
                    mine   |-> [s \in Slots |-> IF s \in kept THEN Reconciled(Select(NoBatch, auto).mine[s])
                                                             ELSE Select(NoBatch, auto).mine[s]],
                    wanted |-> Wanted,
                    fresh  |-> {c2 \in Wanted : \A s \in kept : ~ SameContext(c2, db[s])},
                    alone  |-> (Running = {})]
            ELSE IF c \in Running THEN [batch[c] EXCEPT !.alone = FALSE] ELSE batch[c]]
  BY <1>1 DEF Reconcile
<1>6. PICK new, alone, wanted : /\ new = {c \in Wanted : \A s \in kept : ~ SameContext(c, db[s])}
                                /\ alone = (Running = {}) /\ wanted = Wanted
  OBVIOUS
<1>7. PICK mine : mine = [s \in Slots |-> IF s \in kept THEN Reconciled(old[s]) ELSE old[s]]
  OBVIOUS
<1>8. batch'[b] = [pc |-> "reconciled", loaded |-> auto, seen |-> old, mine |-> mine,
                   wanted |-> wanted, fresh |-> new, alone |-> alone]
  <2>1. Select(NoBatch, auto).loaded = auto /\ Select(NoBatch, auto).seen = old
        /\ Select(NoBatch, auto).mine = old
    BY <1>4 DEF NoBatch
  <2> QED BY <1>5, <1>6, <1>7, <2>1
<1>9. \A s \in kept : s \in auto /\ old[s] = db[s] /\ mine[s] = Reconciled(db[s])
  <2>1. kept \subseteq UNION {Found(r) : r \in Rules}
    BY DEF Existing
  <2> QED BY <1>1, <1>2, <1>3, <1>7, <2>1
<1>10. \A s \in auto : s \notin kept => mine[s] = db[s]
  BY <1>2, <1>3, <1>7
<1>11. ASSUME NEW s \in auto
       PROVE  \E k \in kept : SameContext(db[k], db[s])
  <2>1. db[s].rule \in Rules /\ Scope[db[s].rule] \in Supported /\ s \in Found(db[s].rule)
    BY <1>2, <1>11 DEF Found, LInv, Generated, SupportedRules, Automatic
  <2>2. CASE ruleActive[db[s].rule]
    <3>1. Cardinality({k \in kept : SameContext(db[k], db[s])}) = 1
      BY <2>1, <2>2 DEF Existing
    <3>2. {k \in kept : SameContext(db[k], db[s])} # {}
      BY <3>1, FS_EmptySet
    <3> QED BY <3>2
  <2>3. CASE ~ ruleActive[db[s].rule]
    <3>1. s \in kept
      BY <2>1, <2>3 DEF Existing
    <3> QED BY <3>1 DEF SameContext
  <2> QED BY <2>2, <2>3
<1>12. \A s \in kept : IsRow(db[s])
  BY <1>0, <1>2, <1>9 DEF IsImage
<1>13. \A s \in auto : Automatic(db[s]) => mine[s].status = "resolved" \/ Active(mine[s])
  <2>1. \A s \in kept : mine[s].status = "resolved" \/ Active(mine[s])
    BY <1>9, <1>12, ReconciledValue
  <2> QED BY <1>10, <2>1 DEF Automatic
<1>14. \A c \in new, s \in Slots : Automatic(db[s]) => ~ SameContext(c, db[s])
  <2> SUFFICES ASSUME NEW c \in new, NEW s \in Slots, Automatic(db[s]), SameContext(c, db[s])
               PROVE  FALSE
    OBVIOUS
  <2>1. PICK k \in kept : SameContext(db[k], db[s])
    BY <1>2, <1>11
  <2>2. SameContext(c, db[k])
    BY <2>1 DEF SameContext
  <2> QED BY <1>6, <2>2
<1>15. \A c \in wanted \ new :
          \E k \in auto : Automatic(db[k]) /\ ContextOf(mine[k]) = c /\ Active(mine[k])
  <2> SUFFICES ASSUME NEW c \in Wanted, c \notin new
               PROVE  \E k \in auto : Automatic(db[k]) /\ ContextOf(mine[k]) = c /\ Active(mine[k])
    BY <1>6
  <2>1. PICK k \in kept : SameContext(c, db[k])
    BY <1>6
  <2>2. k \in auto /\ mine[k] = Reconciled(db[k]) /\ Automatic(db[k])
    BY <1>2, <1>9
  <2>3. ContextOf(Reconciled(db[k])) = c /\ Active(Reconciled(db[k]))
    BY <1>12, <2>1, ReconciledValue
  <2> QED BY <2>2, <2>3
<1>16. \A s \in auto :
          Automatic(db[s]) /\ Active(mine[s]) /\ (\A c \in wanted : ~ SameContext(c, db[s]))
            => \E k \in auto : /\ Automatic(db[k]) /\ SameContext(db[k], db[s])
                               /\ mine[k].status = "resolved"
  <2> SUFFICES ASSUME NEW s \in auto, \A c \in Wanted : ~ SameContext(c, db[s])
               PROVE  \E k \in auto : /\ Automatic(db[k]) /\ SameContext(db[k], db[s])
                                      /\ mine[k].status = "resolved"
    BY <1>6
  <2>1. PICK k \in kept : SameContext(db[k], db[s])
    BY <1>11
  <2>2. \A c \in Wanted : ~ SameContext(c, db[k])
    BY <2>1 DEF SameContext
  <2>3. Reconciled(db[k]).status = "resolved"
    BY <1>12, <2>2, ReconciledValue
  <2>4. k \in auto /\ mine[k] = Reconciled(db[k]) /\ Automatic(db[k])
    BY <1>2, <1>9
  <2> QED BY <2>1, <2>3, <2>4
<1>17. \A s \in auto : db[s].rule # NoRule => Automatic(db[s]) /\ old[s] = db[s]
  BY <1>2, <1>3
<1>18. \A s \in Slots : Automatic(db[s]) => s \in auto
  BY <1>2
<1>19. PICK x : x = batch'[b]
  OBVIOUS
<1>20. x.loaded = auto /\ x.seen = old /\ x.mine = mine /\ x.wanted = wanted /\ x.fresh = new
       /\ x.alone = alone
  BY <1>8, <1>19
<1>21. Knows(x)
  BY <1>13, <1>14, <1>15, <1>16, <1>17, <1>18, <1>20 DEF Knows
<1>22. new \subseteq Wanted
  BY <1>6
<1> QED BY <1>6, <1>19, <1>20, <1>21, <1>22

\* A batch that begins ends the solitude of those that run.
LEMMA ReconcileLone == ASSUME KInv, LInv, NEW b \in Batches, Reconcile(b) PROVE LInv'
<1>1. /\ DOMAIN batch' = Batches
      /\ \A c \in Batches \ {b} :
            \/ batch'[c] = batch[c]
            \/ batch'[c] = [batch[c] EXCEPT !.alone = FALSE]
      /\ batch'[b].pc = "reconciled" /\ batch[b].pc = "idle" /\ UNCHANGED db
  BY ReconcileFacts DEF Reconcile
<1>2. \A c \in Batches \ {b} :
        /\ batch'[c].pc = batch[c].pc /\ batch'[c].wanted = batch[c].wanted
        /\ batch'[c].fresh = batch[c].fresh
  <2> SUFFICES ASSUME NEW c \in Batches \ {b}
               PROVE  /\ batch'[c].pc = batch[c].pc /\ batch'[c].wanted = batch[c].wanted
                      /\ batch'[c].fresh = batch[c].fresh
    OBVIOUS
  <2>1. IsSession(batch[c])
    BY DEF KInv, CInv, Types
  <2> QED BY <1>1, <2>1 DEF IsSession
<1>3. \A c \in Running : c # b /\ c \in Batches /\ ~ batch'[c].alone
  <2> SUFFICES ASSUME NEW c \in Running
               PROVE  c # b /\ c \in Batches /\ ~ batch'[c].alone
    OBVIOUS
  <2>1. c # b /\ c \in Batches
    BY <1>1 DEF Running
  <2>2. PICK kept : batch'[c] = [batch[c] EXCEPT !.alone = FALSE]
    BY <2>1 DEF Reconcile
  <2>3. IsSession(batch[c])
    BY <2>1 DEF KInv, CInv, Types
  <2> QED BY <2>1, <2>2, <2>3 DEF IsSession
<1>4. Running' = Running \cup {b}
  BY <1>1, <1>2 DEF Running
<1>5. Generated'
  BY <1>1 DEF LInv, Generated, Siblings, Unused, SupportedRules, SameContext
<1>6. PICK x : x = batch'[b]
  OBVIOUS
<1>7. /\ IsWanted(x.wanted) /\ x.fresh \subseteq x.wanted
      /\ x.alone = (Running = {}) /\ Knows(x)
  BY <1>6, ReconcileKnows, WantedContexts
<1>8. x.alone => Running' = {b} /\ Knows(batch[b])'
  <2>1. Knows(batch[b])'
    BY <1>1, <1>6, <1>7 DEF Knows, Automatic, Active, SameContext, ContextOf, Context
  <2> QED BY <1>4, <1>7, <2>1
<1>9. \A c \in Running : IsWanted(batch[c].wanted) /\ batch[c].fresh \subseteq batch[c].wanted
  BY DEF LInv, Lone
<1>10. Lone'
  <2> SUFFICES ASSUME NEW c \in Running'
               PROVE  /\ IsWanted(batch'[c].wanted) /\ batch'[c].fresh \subseteq batch'[c].wanted
                      /\ batch'[c].alone => Running' = {c} /\ Knows(batch[c])'
    BY DEF Lone, IsWanted, SupportedRules, SameContext, Context
  <2>1. CASE c = b
    BY <1>6, <1>7, <1>8, <2>1
  <2>2. CASE c # b
    <3>1. c \in Running
      BY <1>4, <2>2
    <3> QED BY <1>2, <1>3, <1>9, <3>1
  <2> QED BY <2>1, <2>2
<1> QED BY <1>5, <1>10 DEF LInv

\* Sending leaves a reminder about what it was and active if it was.
LEMMA SentValue ==
    ASSUME NEW r, IsRow(r), today \in Nat
    PROVE  LET row == Sent(r) IN
           /\ ContextOf(row) = ContextOf(r)
           /\ r.status = "resolved" => row.status = "resolved"
           /\ Active(r) => Active(row)
           /\ r.status = "resolved" <=> row.status = "resolved"
<1>1. PICK status : status = StatusOn(r.status, r.due)
  OBVIOUS
<1>2. /\ r.status = "resolved" => status = "resolved"
      /\ r.status # "resolved" => status \in {"open", "overdue"}
  BY <1>1 DEF StatusOn
<1>3. PICK current : current = [r EXCEPT !.status = status]
  OBVIOUS
<1>4. /\ IsRow(current) /\ current.status = status /\ current.due = r.due
      /\ current.rule = r.rule /\ current.rfq = r.rfq /\ current.stage = r.stage
  BY <1>3 DEF IsRow
<1>5. Sent(r) = IF MaySend(r) THEN [current EXCEPT !.sends = current.sends + 1, !.last = today]
                ELSE current
  BY <1>1, <1>3 DEF Sent
<1>6. PICK row : row = Sent(r)
  OBVIOUS
<1>7. row.status = status /\ row.due = r.due /\ row.rule = r.rule /\ row.rfq = r.rfq
      /\ row.stage = r.stage
  <2>1. CASE MaySend(r)
    <3>1. PICK n : n = current.sends + 1
      OBVIOUS
    <3>2. row = [current EXCEPT !.sends = n, !.last = today]
      BY <1>5, <1>6, <2>1, <3>1
    <3> QED BY <1>4, <3>2 DEF IsRow
  <2>2. CASE ~ MaySend(r)
    BY <1>4, <1>5, <1>6, <2>2
  <2> QED BY <2>1, <2>2
<1>8. ContextOf(row) = ContextOf(r)
  BY <1>7 DEF ContextOf
<1>9. Active(r) => Active(row)
  BY <1>2, <1>7 DEF Active, ActiveStatuses
<1> QED BY <1>2, <1>6, <1>7, <1>8, <1>9

\* Sending changes nothing of what a lone batch knows.
LEMMA SendLone == ASSUME KInv, LInv, NEW b \in Batches, Send(b) PROVE LInv'
<1>0. UNCHANGED db /\ IsSession(batch[b]) /\ today \in Nat
  BY DEF Send, KInv, CInv, Types
<1>1. PICK old : old = batch[b]
  OBVIOUS
<1>2. PICK due \in SUBSET Slots : \E x : Sends(b, old, due, x)
  BY <1>1, SendFacts
<1>3. PICK x : Sends(b, old, due, x)
  BY <1>2
<1>4. /\ \A c \in Batches \ {b} : batch'[c] = batch[c]
      /\ batch'[b] = x /\ x.pc = "sent" /\ old.pc = "reconciled"
      /\ x.fresh = old.fresh /\ x.wanted = old.wanted /\ x.alone = old.alone
      /\ x.loaded = old.loaded \cup due
  BY <1>3 DEF Sends, KInv, CInv, Types
<1>5. Running' = Running /\ b \in Running
  BY <1>1, <1>4 DEF Running
<1>6. Generated'
  BY <1>0 DEF LInv, Generated, Siblings, Unused, SupportedRules, SameContext
<1>7. \A c \in Running :
        /\ IsWanted(batch[c].wanted) /\ batch[c].fresh \subseteq batch[c].wanted
        /\ batch[c].alone => Running = {c} /\ Knows(batch[c])
  BY DEF LInv, Lone
<1>8. ASSUME old.alone PROVE Knows(x)
  <2>1. Knows(old)
    BY <1>1, <1>5, <1>7, <1>8
  <2>2. \A s \in old.loaded : s \in Slots /\ IsRow(old.mine[s])
    BY <1>0, <1>1 DEF IsSession, IsImage
  <2>3. \A s \in due : Active(db[s])
    BY <1>3 DEF Sends
  <2>4. ASSUME NEW s \in x.loaded, db[s].rule # NoRule
        PROVE  /\ s \in old.loaded /\ Automatic(db[s]) /\ x.seen[s] = db[s]
               /\ x.mine[s] = old.mine[s] \/ x.mine[s] = Sent(old.mine[s])
    <3>1. s \in Slots
      BY <1>4, <2>2, <2>4
    <3>2. s \in old.loaded
      BY <1>4, <2>1, <2>3, <2>4, <3>1 DEF Knows, Automatic
    <3>3. x.seen[s] = old.seen[s] /\ (s \in due => x.mine[s] = Sent(old.mine[s]))
          /\ (s \notin due => x.mine[s] = old.mine[s])
      BY <1>3, <3>1, <3>2 DEF Sends, Due
    <3> QED BY <2>1, <2>4, <3>2, <3>3 DEF Knows
  <2>5. ASSUME NEW s \in x.loaded, Automatic(db[s])
        PROVE  /\ ContextOf(x.mine[s]) = ContextOf(old.mine[s])
               /\ x.mine[s].status = "resolved" <=> old.mine[s].status = "resolved"
               /\ Active(old.mine[s]) => Active(x.mine[s])
               /\ x.mine[s].status = "resolved" \/ Active(x.mine[s])
               /\ Active(x.mine[s]) => Active(old.mine[s])
    <3>1. db[s].rule # NoRule
      BY <2>5 DEF Automatic
    <3>2. s \in old.loaded /\ IsRow(old.mine[s])
          /\ (x.mine[s] = old.mine[s] \/ x.mine[s] = Sent(old.mine[s]))
      BY <2>2, <2>4, <3>1
    <3>3. old.mine[s].status = "resolved" \/ Active(old.mine[s])
      BY <2>1, <2>5, <3>2 DEF Knows
    <3>4. \A r : Active(r) => r.status # "resolved"
      BY DEF Active, ActiveStatuses
    <3>5. /\ ContextOf(x.mine[s]) = ContextOf(old.mine[s])
          /\ x.mine[s].status = "resolved" <=> old.mine[s].status = "resolved"
          /\ Active(old.mine[s]) => Active(x.mine[s])
      BY <1>0, <3>2, SentValue
    <3> QED BY <3>3, <3>4, <3>5
  <2>6. \A s \in Slots : Automatic(db[s]) => s \in x.loaded
    BY <1>4, <2>1 DEF Knows
  <2>7. \A s \in x.loaded : db[s].rule # NoRule => Automatic(db[s]) /\ x.seen[s] = db[s]
    BY <2>4
  <2>8. \A c \in x.fresh, s \in Slots : Automatic(db[s]) => ~ SameContext(c, db[s])
    BY <1>4, <2>1 DEF Knows
  <2>9. \A c \in x.wanted \ x.fresh :
          \E k \in x.loaded : Automatic(db[k]) /\ ContextOf(x.mine[k]) = c /\ Active(x.mine[k])
    <3> SUFFICES ASSUME NEW c \in old.wanted \ old.fresh
                 PROVE  \E k \in x.loaded : Automatic(db[k]) /\ ContextOf(x.mine[k]) = c /\ Active(x.mine[k])
      BY <1>4
    <3>1. PICK k \in old.loaded : Automatic(db[k]) /\ ContextOf(old.mine[k]) = c /\ Active(old.mine[k])
      BY <2>1 DEF Knows
    <3>2. k \in x.loaded
      BY <1>4
    <3> QED BY <2>5, <3>1, <3>2
  <2>10. \A s \in x.loaded :
          Automatic(db[s]) /\ Active(x.mine[s]) /\ (\A c \in x.wanted : ~ SameContext(c, db[s]))
            => \E k \in x.loaded : /\ Automatic(db[k]) /\ SameContext(db[k], db[s])
                                   /\ x.mine[k].status = "resolved"
    <3> SUFFICES ASSUME NEW s \in x.loaded, Automatic(db[s]), Active(x.mine[s]),
                        \A c \in x.wanted : ~ SameContext(c, db[s])
                 PROVE  \E k \in x.loaded : /\ Automatic(db[k]) /\ SameContext(db[k], db[s])
                                            /\ x.mine[k].status = "resolved"
      OBVIOUS
    <3>1. s \in old.loaded /\ Active(old.mine[s])
      BY <2>4, <2>5 DEF Automatic
    <3>2. PICK k \in old.loaded : /\ Automatic(db[k]) /\ SameContext(db[k], db[s])
                                  /\ old.mine[k].status = "resolved"
      BY <1>4, <2>1, <3>1 DEF Knows
    <3>3. k \in x.loaded
      BY <1>4
    <3> QED BY <2>5, <3>2, <3>3
  <2>11. \A s \in x.loaded : Automatic(db[s]) => x.mine[s].status = "resolved" \/ Active(x.mine[s])
    BY <2>5
  <2> QED BY <2>6, <2>7, <2>8, <2>9, <2>10, <2>11 DEF Knows
<1>9. Lone'
  <2> SUFFICES ASSUME NEW c \in Running
               PROVE  /\ IsWanted(batch'[c].wanted) /\ batch'[c].fresh \subseteq batch'[c].wanted
                      /\ batch'[c].alone => Running' = {c} /\ Knows(batch[c])'
    BY <1>5 DEF Lone, IsWanted, SupportedRules, SameContext, Context
  <2>1. CASE c = b
    <3>1. x.alone => Knows(batch[b])'
      BY <1>0, <1>4, <1>8 DEF Knows, Automatic, Active, SameContext, ContextOf, Context
    <3> QED BY <1>1, <1>4, <1>5, <1>7, <2>1, <3>1
  <2>2. CASE c # b
    <3>1. batch'[c] = batch[c] /\ (batch[c].alone => Running = {c})
      BY <1>4, <1>7, <2>2 DEF Running
    <3>2. ~ batch[c].alone
      BY <1>5, <2>2, <3>1
    <3> QED BY <1>7, <3>1, <3>2
  <2> QED BY <2>1, <2>2
<1> QED BY <1>6, <1>9 DEF LInv

\* The columns that a session has changed, on top of what it has read, are its
\* own row.
LEMMA WrittenAsSeen ==
    ASSUME NEW stored, NEW mine, IsRow(stored), IsRow(mine)
    PROVE  Written(stored, stored, mine) = mine
<1>1. DOMAIN stored = DOMAIN mine /\ mine = [c \in DOMAIN mine |-> mine[c]]
  BY DEF IsRow
<1>2. Written(stored, stored, mine) = [c \in DOMAIN mine |-> mine[c]]
  BY <1>1 DEF Written
<1> QED BY <1>1, <1>2

\* The rows after a commit: new ones, and old ones about what they were.
Adds(x, slot) ==
    /\ \A c, d \in x.fresh : c # d => slot[c] # slot[d]
    /\ \A c \in x.fresh :
          /\ slot[c] \in Slots /\ Unused(slot[c])
          /\ ContextOf(db'[slot[c]]) = c /\ Active(db'[slot[c]])
    /\ \A s \in Slots :
          (\A c \in x.fresh : slot[c] # s) =>
             /\ About(db'[s]) = About(db[s])
             /\ ~ Unused(s) => db'[s].status # "none"
             /\ s \notin x.loaded => db'[s] = db[s]
             /\ s \in x.loaded /\ x.seen[s] = db[s] => db'[s] = x.mine[s]

\* Every commit leaves rows of that kind.
LEMMA CommitAdds ==
    ASSUME KInv, LInv, NEW b \in Batches, Commit(b)
    PROVE  \E slot : Adds(batch[b], slot)
<1> PICK x : x = batch[b]
  OBVIOUS
<1>0. IsImage(db) /\ IsSession(x) /\ x.pc = "sent" /\ KeepsKeys(x)
  BY DEF KInv, CInv, Types, Apart, Commit
<1>1. PICK slot \in [x.fresh -> {s \in Slots : Unused(s)}] :
        /\ \A c, d \in x.fresh : c # d => slot[c] # slot[d]
        /\ db' = [s \in Slots |->
                    IF \E c \in x.fresh : slot[c] = s
                      THEN LET c == CHOOSE c \in x.fresh : slot[c] = s
                           IN  Reminder(c, StatusOn("open", c.due))
                    ELSE IF s \in x.loaded THEN Written(db[s], x.seen[s], x.mine[s])
                    ELSE db[s]]
  BY DEF Commit
<1>2. IsWanted(x.wanted) /\ x.fresh \subseteq x.wanted
  <2>1. b \in Running
    BY <1>0 DEF Running
  <2> QED BY <2>1 DEF LInv, Lone
<1>3. ASSUME NEW c \in x.fresh
      PROVE  /\ slot[c] \in Slots /\ Unused(slot[c])
             /\ ContextOf(db'[slot[c]]) = c /\ Active(db'[slot[c]])
  <2>1. PICK s : s = slot[c]
    OBVIOUS
  <2>2. s \in Slots /\ Unused(s)
    BY <1>1, <2>1
  <2>3. (CHOOSE d \in x.fresh : slot[d] = s) = c
    BY <1>1, <2>1
  <2>4. PICK status : status = StatusOn("open", c.due)
    OBVIOUS
  <2>5. db'[s] = Reminder(c, status)
    BY <1>1, <2>1, <2>2, <2>3, <2>4
  <2>6. status \in ActiveStatuses
    BY <2>4 DEF StatusOn, ActiveStatuses
  <2>7. c = Context(c.rule, c.rfq, c.stage, c.due)
    BY <1>2 DEF IsWanted
  <2>8. /\ db'[s].rule = c.rule /\ db'[s].rfq = c.rfq /\ db'[s].stage = c.stage
        /\ db'[s].due = c.due /\ db'[s].status = status
    BY <2>5 DEF Reminder
  <2>9. ContextOf(db'[s]) = c /\ Active(db'[s])
    BY <2>6, <2>7, <2>8 DEF ContextOf, Active
  <2> QED BY <2>1, <2>2, <2>9
<1>4. ASSUME NEW s \in Slots, \A c \in x.fresh : slot[c] # s
      PROVE  /\ About(db'[s]) = About(db[s])
             /\ ~ Unused(s) => db'[s].status # "none"
             /\ s \notin x.loaded => db'[s] = db[s]
             /\ s \in x.loaded /\ x.seen[s] = db[s] => db'[s] = x.mine[s]
  <2>1. IsRow(db[s]) /\ IsRow(x.seen[s]) /\ IsRow(x.mine[s])
    BY <1>0 DEF IsImage, IsSession
  <2>2. CASE s \notin x.loaded
    BY <1>1, <1>4, <2>2 DEF Unused
  <2>3. CASE s \in x.loaded
    <3>1. db'[s] = Written(db[s], x.seen[s], x.mine[s])
      BY <1>1, <1>4, <2>3
    <3>2. About(x.mine[s]) = About(x.seen[s])
      BY <1>0, <2>3 DEF KeepsKeys
    <3>3. About(db'[s]) = About(db[s])
      BY <2>1, <3>1, <3>2, WrittenRow
    <3>4. x.seen[s] = db[s] => db'[s] = x.mine[s]
      BY <2>1, <3>1, WrittenAsSeen
    <3>5. ~ Unused(s) => db'[s].status # "none"
      BY CommittedSends DEF Unused
    <3> QED BY <2>3, <3>3, <3>4, <3>5
  <2> QED BY <2>2, <2>3
<1>5. Adds(x, slot)
  BY <1>1, <1>3, <1>4 DEF Adds
<1> QED BY <1>5

\* A commit adds at most one reminder to those of a context.
LEMMA CommitGenerates ==
    ASSUME KInv, LInv, NEW b \in Batches, Commit(b)
    PROVE  Generated'
<1> PICK x : x = batch[b]
  OBVIOUS
<1>1. PICK slot : Adds(x, slot)
  BY CommitAdds
<1>2. IsWanted(x.wanted) /\ x.fresh \subseteq x.wanted
  <2>1. b \in Running
    BY DEF Running, Commit
  <2> QED BY <2>1 DEF LInv, Lone
<1>3. \A c \in x.fresh :
         LET row == db'[slot[c]] IN
         /\ row.rule = c.rule /\ row.rfq = c.rfq /\ row.stage = c.stage
         /\ row.rule \in SupportedRules /\ row.status # "none"
  <2> SUFFICES ASSUME NEW c \in x.fresh
               PROVE  LET row == db'[slot[c]] IN
                      /\ row.rule = c.rule /\ row.rfq = c.rfq /\ row.stage = c.stage
                      /\ row.rule \in SupportedRules /\ row.status # "none"
    OBVIOUS
  <2>1. ContextOf(db'[slot[c]]) = c /\ Active(db'[slot[c]])
    BY <1>1 DEF Adds
  <2>2. c.rule \in SupportedRules
    BY <1>2 DEF IsWanted
  <2> QED BY <2>1, <2>2 DEF ContextOf, Context, Active, ActiveStatuses
<1>4. ASSUME NEW s \in Slots, db'[s].rule # NoRule
      PROVE  /\ db'[s].status # "none" /\ db'[s].rule \in SupportedRules
             /\ IsFiniteSet({r \in Slots : SameContext(db'[r], db'[s])})
  <2> DEFINE after == {r \in Slots : SameContext(db'[r], db'[s])}
             before == {r \in Slots : SameContext(db[r], db'[s])}
             added == {r \in after : \E c \in x.fresh : slot[c] = r}
  <2>1. db'[s].status # "none" /\ db'[s].rule \in SupportedRules
    <3>1. CASE \E c \in x.fresh : slot[c] = s
      BY <1>3, <3>1
    <3>2. CASE \A c \in x.fresh : slot[c] # s
      <4>1. db'[s].rule = db[s].rule /\ (~ Unused(s) => db'[s].status # "none")
        BY <1>1, <3>2 DEF Adds, About
      <4> QED BY <1>4, <4>1 DEF LInv, Generated
    <3> QED BY <3>1, <3>2
  <2>2. \A q, r \in added : q = r
    <3> SUFFICES ASSUME NEW q \in added, NEW r \in added PROVE q = r
      OBVIOUS
    <3>1. PICK c \in x.fresh, d \in x.fresh : slot[c] = q /\ slot[d] = r
      OBVIOUS
    <3>2. SameContext(c, d)
      BY <1>3, <3>1 DEF SameContext
    <3>3. c = d
      BY <1>2, <3>2 DEF IsWanted
    <3> QED BY <3>1, <3>3
  <2>3. IsFiniteSet(added)
    <3>1. CASE added = {}
      BY <3>1, FS_EmptySet
    <3>2. CASE added # {}
      <4>1. PICK q : added = {q}
        BY <2>2, <3>2
      <4> QED BY <4>1, FS_Singleton
    <3> QED BY <3>1, <3>2
  <2>4. IsFiniteSet(before)
    <3>1. CASE before = {}
      BY <3>1, FS_EmptySet
    <3>2. ASSUME NEW r \in before
          PROVE  IsFiniteSet(before)
      <4>1. before = Siblings(r)
        BY DEF Siblings, SameContext
      <4>2. db[r].rule # NoRule
        BY <1>4 DEF SameContext
      <4>3. IsFiniteSet(Siblings(r))
        BY <4>2 DEF LInv, Generated
      <4> QED BY <4>1, <4>3
    <3> QED BY <3>1, <3>2
  <2>5. after \subseteq before \cup added
    <3> SUFFICES ASSUME NEW r \in after, \A c \in x.fresh : slot[c] # r
                 PROVE  r \in before
      OBVIOUS
    <3>1. About(db'[r]) = About(db[r])
      BY <1>1 DEF Adds
    <3> QED BY <3>1 DEF SameContext, About
  <2> HIDE DEF after, before, added
  <2>6. IsFiniteSet(after)
    BY <2>3, <2>4, <2>5, FS_Union, FS_Subset
  <2> QED BY <2>1, <2>6 DEF after
<1> QED BY <1>4 DEF Generated, Siblings, Unused, SupportedRules, SameContext

\* A batch that ends, or dies, leaves none that was alone.
LEMMA EndLone ==
    ASSUME KInv, LInv, NEW b \in Batches, batch[b].pc # "idle", batch' = [batch EXCEPT ![b] = NoBatch]
    PROVE  Lone'
<1>1. b \in Running /\ batch'[b] = NoBatch /\ DOMAIN batch = Batches
      /\ \A c \in Batches \ {b} : batch'[c] = batch[c]
  BY DEF Running, KInv, CInv, Types
<1>2. \A c \in Running' : c \in Running /\ c # b /\ batch'[c] = batch[c]
  BY <1>1, NoBatchType DEF Running
<1>3. \A c \in Running : /\ IsWanted(batch[c].wanted) /\ batch[c].fresh \subseteq batch[c].wanted
                         /\ batch[c].alone => Running = {c}
  BY DEF LInv, Lone
<1>4. \A c \in Running' : ~ batch'[c].alone
  BY <1>1, <1>2, <1>3
<1> QED BY <1>2, <1>3, <1>4 DEF Lone, IsWanted, SupportedRules, SameContext, Context

\* Every step keeps it.
LEMMA LoneStep == ASSUME KInv, LInv, [Next]_vars PROVE LInv'
<1>1. CASE \/ \E s \in Slots : Resolve(s) \/ \E f \in Rfqs : CreateManual(s, f)
           \/ \E f \in Rfqs : ChangeRfq(f)
           \/ \E r \in Rules : ToggleRule(r)
           \/ NextDay \/ UNCHANGED vars
  BY <1>1, UserStepLone
<1>2. ASSUME NEW b \in Batches, Reconcile(b) \/ Send(b)
      PROVE  LInv'
  BY <1>2, ReconcileLone, SendLone
<1>3. ASSUME NEW b \in Batches, Commit(b)
      PROVE  LInv'
  BY <1>3, CommitGenerates, EndLone DEF Commit, LInv
<1>4. ASSUME NEW b \in Batches, Crash(b)
      PROVE  LInv'
  <2>1. Generated'
    BY <1>4 DEF Crash, LInv, Generated, Siblings, Unused, SupportedRules, SameContext
  <2> QED BY <1>4, <2>1, EndLone DEF Crash, LInv
<1> QED BY <1>1, <1>2, <1>3, <1>4 DEF Next

\* What a batch that was alone leaves when it commits.
LEMMA LoneCommit ==
    ASSUME KInv, LInv, NEW b \in Batches, Commit(b), batch[b].alone
    PROVE  /\ batch[b].wanted \subseteq {ContextOf(db'[s]) : s \in {r \in Slots : Automatic(db'[r])}}
           /\ \A s \in Slots : Automatic(db'[s]) =>
                LET before == Cardinality(Reminding(db, db'[s]))
                    after  == Cardinality(Reminding(db', db'[s]))
                IN  IF \E c \in batch[b].wanted : SameContext(c, db'[s])
                      THEN after <= before \/ after = 1
                      ELSE after < before
<1> PICK x : x = batch[b]
  OBVIOUS
<1>1. PICK slot : Adds(x, slot)
  BY CommitAdds
<1>2. /\ IsWanted(x.wanted) /\ x.fresh \subseteq x.wanted /\ Knows(x)
      /\ x.loaded \subseteq Slots
  <2>1. b \in Running
    BY DEF Running, Commit
  <2> QED BY <2>1 DEF LInv, Lone, KInv, CInv, Types, IsSession
<1>3. NoRule \notin SupportedRules
  BY RemindersAssumption DEF SupportedRules
\* A reminder that is not new.
<1>4. ASSUME NEW s \in Slots, \A c \in x.fresh : slot[c] # s
      PROVE  /\ Automatic(db[s]) => s \in x.loaded /\ db'[s] = x.mine[s] /\ About(db'[s]) = About(db[s])
             /\ Automatic(db'[s]) => Automatic(db[s])
  <2>1. /\ About(db'[s]) = About(db[s])
        /\ s \notin x.loaded => db'[s] = db[s]
        /\ s \in x.loaded /\ x.seen[s] = db[s] => db'[s] = x.mine[s]
    BY <1>1, <1>4 DEF Adds
  <2>2. db'[s].rule = db[s].rule
    BY <2>1 DEF About
  <2>3. Automatic(db[s]) => s \in x.loaded /\ x.seen[s] = db[s]
    BY <1>2 DEF Knows, Automatic
  <2>4. Automatic(db'[s]) => Automatic(db[s])
    BY <1>2, <2>1, <2>2 DEF Knows, Automatic
  <2> QED BY <2>1, <2>3, <2>4
\* A new reminder.
<1>5. ASSUME NEW c \in x.fresh
      PROVE  /\ slot[c] \in Slots /\ ~ Automatic(db[slot[c]])
             /\ ContextOf(db'[slot[c]]) = c /\ SameContext(db'[slot[c]], c) /\ Automatic(db'[slot[c]])
  <2>1. /\ slot[c] \in Slots /\ Unused(slot[c])
        /\ ContextOf(db'[slot[c]]) = c /\ Active(db'[slot[c]])
    BY <1>1 DEF Adds
  <2>2. c.rule \in SupportedRules
    BY <1>2 DEF IsWanted
  <2>3. SameContext(db'[slot[c]], c)
    BY <2>1 DEF ContextOf, Context, SameContext
  <2>4. ~ Automatic(db[slot[c]])
    BY <2>1 DEF Unused, Automatic, Active, ActiveStatuses
  <2> QED BY <1>3, <2>1, <2>2, <2>3, <2>4 DEF Automatic, SameContext
\* An old reminder keeps its slot.
<1>6. \A s \in Slots : Automatic(db[s]) => \A c \in x.fresh : slot[c] # s
  BY <1>5
<1>7. ASSUME NEW c \in x.wanted
      PROVE  \E s \in Slots : Automatic(db'[s]) /\ ContextOf(db'[s]) = c
  <2>1. CASE c \in x.fresh
    BY <1>5, <2>1
  <2>2. CASE c \notin x.fresh
    <3>1. PICK k \in x.loaded : Automatic(db[k]) /\ ContextOf(x.mine[k]) = c /\ Active(x.mine[k])
      BY <1>2, <2>2 DEF Knows
    <3>2. k \in Slots /\ db'[k] = x.mine[k] /\ About(db'[k]) = About(db[k])
      BY <1>2, <1>4, <1>6, <3>1
    <3>3. db'[k].rule # NoRule
      BY <3>1, <3>2 DEF About, Automatic
    <3> QED BY <3>1, <3>2, <3>3 DEF Automatic
  <2> QED BY <2>1, <2>2
<1>8. ASSUME NEW s \in Slots, Automatic(db'[s])
      PROVE  LET before == Cardinality(Reminding(db, db'[s]))
                 after  == Cardinality(Reminding(db', db'[s]))
             IN  IF \E c \in x.wanted : SameContext(c, db'[s])
                   THEN after <= before \/ after = 1
                   ELSE after < before
  <2> DEFINE Before == Reminding(db, db'[s])
             After == Reminding(db', db'[s])
  <2>1. IsFiniteSet(Before)
    <3>1. CASE Before = {}
      BY <3>1, FS_EmptySet
    <3>2. ASSUME NEW r \in Before
          PROVE  IsFiniteSet(Before)
      <4>1. r \in Slots /\ db[r].rule # NoRule
        BY DEF Reminding, Automatic
      <4>2. Before \subseteq Siblings(r)
        BY DEF Siblings, Reminding, SameContext
      <4>3. IsFiniteSet(Siblings(r))
        BY <4>1 DEF LInv, Generated
      <4> QED BY <4>2, <4>3, FS_Subset
    <3> QED BY <3>1, <3>2
  <2>2. ASSUME NEW r \in After, \A c \in x.fresh : slot[c] # r
        PROVE  r \in Before /\ r \in x.loaded /\ db'[r] = x.mine[r]
    <3>1. r \in Slots /\ Automatic(db'[r]) /\ SameContext(db'[r], db'[s])
      BY DEF Reminding
    <3>2. Automatic(db[r]) /\ r \in x.loaded /\ db'[r] = x.mine[r] /\ About(db'[r]) = About(db[r])
      BY <1>4, <2>2, <3>1
    <3> QED BY <3>1, <3>2 DEF Reminding, SameContext, About
  <2>3. CASE \E c \in x.fresh : SameContext(c, db'[s])
    <3>1. PICK c \in x.fresh : SameContext(c, db'[s])
      BY <2>3
    <3>2. slot[c] \in After
      BY <1>5, <3>1 DEF Reminding, SameContext
    <3>3. ASSUME NEW r \in After PROVE r = slot[c]
      <4>1. CASE \E d \in x.fresh : slot[d] = r
        <5>1. PICK d \in x.fresh : slot[d] = r
          BY <4>1
        <5>2. SameContext(db'[r], db'[s]) /\ SameContext(db'[r], d)
          BY <1>5, <5>1 DEF Reminding
        <5>3. SameContext(c, d)
          BY <3>1, <5>2 DEF SameContext
        <5> QED BY <1>2, <5>1, <5>3 DEF IsWanted
      <4>2. CASE \A d \in x.fresh : slot[d] # r
        <5>1. r \in Before
          BY <2>2, <4>2
        <5>2. Automatic(db[r]) /\ SameContext(c, db[r]) /\ r \in Slots
          BY <3>1, <5>1 DEF Reminding, SameContext
        <5> QED BY <1>2, <5>2 DEF Knows
      <4> QED BY <4>1, <4>2
    <3>4. After = {slot[c]}
      BY <3>2, <3>3
    <3>5. Cardinality(After) = 1
      BY <3>4, FS_Singleton
    <3>6. \E d \in x.wanted : SameContext(d, db'[s])
      BY <1>2, <3>1
    <3> QED BY <3>5, <3>6
  <2>4. CASE ~ \E c \in x.fresh : SameContext(c, db'[s])
    <3>1. \A r \in After : \A c \in x.fresh : slot[c] # r
      <4> SUFFICES ASSUME NEW r \in After, NEW c \in x.fresh, slot[c] = r PROVE FALSE
        OBVIOUS
      <4>1. SameContext(db'[r], db'[s]) /\ SameContext(db'[r], c)
        BY <1>5 DEF Reminding
      <4> QED BY <2>4, <4>1 DEF SameContext
    <3>2. After \subseteq Before
      BY <2>2, <3>1
    <3>3. /\ Cardinality(After) <= Cardinality(Before)
          /\ Cardinality(Before) \in Nat /\ Cardinality(After) \in Nat
      BY <2>1, <3>2, FS_Subset, FS_CardinalityType
    <3>4. CASE \E c \in x.wanted : SameContext(c, db'[s])
      BY <3>3, <3>4
    <3>5. CASE ~ \E c \in x.wanted : SameContext(c, db'[s])
      <4>1. s \in After
        BY <1>8 DEF Reminding, SameContext
      <4>2. s \in x.loaded /\ db'[s] = x.mine[s] /\ s \in Before
        BY <2>2, <3>1, <4>1
      <4>3. Automatic(db[s]) /\ SameContext(db[s], db'[s])
        BY <4>2 DEF Reminding
      <4>4. Active(x.mine[s]) /\ \A c \in x.wanted : ~ SameContext(c, db[s])
        BY <1>8, <3>5, <4>2, <4>3 DEF Automatic, SameContext
      <4>5. PICK k \in x.loaded : /\ Automatic(db[k]) /\ SameContext(db[k], db[s])
                                  /\ x.mine[k].status = "resolved"
        BY <1>2, <4>2, <4>3, <4>4 DEF Knows
      <4>6. k \in Slots /\ db'[k] = x.mine[k]
        BY <1>2, <1>4, <1>6, <4>5
      <4>7. k \in Before
        BY <4>3, <4>5, <4>6 DEF Reminding, SameContext
      <4>8. k \notin After
        BY <4>5, <4>6 DEF Reminding, Automatic, Active, ActiveStatuses
      <4>9. Cardinality(After) < Cardinality(Before)
        <5>1. Cardinality(After) # Cardinality(Before)
          BY <2>1, <3>2, <4>7, <4>8, FS_Subset
        <5> QED BY <3>3, <5>1
      <4> QED BY <3>5, <4>9
    <3> QED BY <3>4, <3>5
  <2> QED BY <2>3, <2>4
<1> QED BY <1>7, <1>8

\* A batch that no other overlaps sets the automatic reminders right and leaves
\* fewer of what is no longer due (NotificationService), for any number of RFQs
\* and rules, from whatever overlapping batches and crashes have left before.
THEOREM LoneBatchRepairs == Spec => LoneBatchReconciles
<1>1. Init => LInv
  BY LoneInit
<1>2. KInv /\ LInv /\ [Next]_vars => LInv'
  BY LoneStep
<1>3. KInv /\ LInv /\ [Next]_vars =>
        [\A b \in Batches : Commit(b) /\ batch[b].alone =>
          /\ batch[b].wanted \subseteq {ContextOf(db'[s]) : s \in {r \in Slots : Automatic(db'[r])}}
          /\ \A s \in Slots : Automatic(db'[s]) =>
                LET before == Cardinality(Reminding(db, db'[s]))
                    after  == Cardinality(Reminding(db', db'[s]))
                IN  IF \E c \in batch[b].wanted : SameContext(c, db'[s])
                      THEN after <= before \/ after = 1
                      ELSE after < before]_vars
  BY LoneCommit
<1> QED BY <1>1, <1>2, <1>3, Invariance, PTL DEF Spec, LoneBatchReconciles
=============================================================================
