------------------------- MODULE RfqConcurrentProofs -------------------------
(***************************************************************************)
(* Proofs about RfqConcurrent, for any number of stages and of requests    *)
(* of any kind that overlap in any way, die, or deadlock.                  *)
(***************************************************************************)
EXTENDS RfqConcurrent, FiniteSetTheorems, TLAPS

USE SizeAssumption, KindsAssumption, NobodyAssumption

RfqRow == [status : RfqStatuses, current : 0..Size, progress : Int]
StageRec == [status : StageStatuses, started : BOOLEAN, ended : BOOLEAN, blocked : BOOLEAN]

\* The rows of the RFQ, as committed or as a session sees them.
Images == {m \in [Row -> RfqRow \cup StageRec] : m[Rfq] \in RfqRow /\ \A i \in Stages : m[i] \in StageRec}

Points == {"idle", "stage", "rfq", "next", "completed", "started", "freeze", "commit", "announce", "done"}

Sessions == [pc : Points, ask : [op : Ops, stage : Stages], was : RfqStatuses, loaded : SUBSET Row,
             seen : Images, mine : Images, todo : SUBSET Row]

-----------------------------------------------------------------------------
(* Rows.                                                                   *)

LEMMA RowFacts == /\ Rfq \in Row /\ Rfq \notin Stages /\ Stages \subseteq Row
                  /\ \A r \in Row : r = Rfq \/ r \in Stages
BY DEF Row, Rfq, Stages

\* An UPDATE of the RFQ takes each column from the session if the session has
\* changed it, and otherwise leaves it as it is stored.
LEMMA WrittenRfq ==
    ASSUME NEW stored \in RfqRow, NEW seen \in RfqRow, NEW mine \in RfqRow
    PROVE  LET row == Written(stored, seen, mine) IN
           /\ row \in RfqRow
           /\ row.status = IF mine.status = seen.status THEN stored.status ELSE mine.status
           /\ row.current = IF mine.current = seen.current THEN stored.current ELSE mine.current
           /\ row.progress = IF mine.progress = seen.progress THEN stored.progress ELSE mine.progress
<1> DEFINE row == Written(stored, seen, mine)
<1>1. DOMAIN stored = {"status", "current", "progress"}
  BY DEF RfqRow
<1>2. row = [c \in {"status", "current", "progress"} |-> IF mine[c] = seen[c] THEN stored[c] ELSE mine[c]]
  BY <1>1 DEF Written
<1>3. row = [status |-> IF mine.status = seen.status THEN stored.status ELSE mine.status,
             current |-> IF mine.current = seen.current THEN stored.current ELSE mine.current,
             progress |-> IF mine.progress = seen.progress THEN stored.progress ELSE mine.progress]
  BY <1>2
<1> QED BY <1>3 DEF RfqRow

LEMMA WrittenStage ==
    ASSUME NEW stored \in StageRec, NEW seen \in StageRec, NEW mine \in StageRec
    PROVE  LET row == Written(stored, seen, mine) IN
           /\ row \in StageRec
           /\ row.ended = IF mine.ended = seen.ended THEN stored.ended ELSE mine.ended
<1> DEFINE row == Written(stored, seen, mine)
<1>1. DOMAIN stored = {"status", "started", "ended", "blocked"}
  BY DEF StageRec
<1>2. row = [c \in {"status", "started", "ended", "blocked"} |-> IF mine[c] = seen[c] THEN stored[c] ELSE mine[c]]
  BY <1>1 DEF Written
<1>3. row = [status |-> IF mine.status = seen.status THEN stored.status ELSE mine.status,
             started |-> IF mine.started = seen.started THEN stored.started ELSE mine.started,
             ended |-> IF mine.ended = seen.ended THEN stored.ended ELSE mine.ended,
             blocked |-> IF mine.blocked = seen.blocked THEN stored.blocked ELSE mine.blocked]
  BY <1>2
<1> QED BY <1>3 DEF StageRec

\* A count of stages among which one is under way is below 100 per cent, and
\* any count is a number.
LEMMA CountBelowHundred ==
    ASSUME NEW rows, DOMAIN rows = Stages, NEW i \in Stages, rows[i].status = "InProgress",
           NEW status \in RfqStatuses
    PROVE  /\ LifecycleProgress(rows, status) \in Int
           /\ status = "InPreparation" => LifecycleProgress(rows, status) < 100
<1> DEFINE E == EffectiveStages(rows)
           C == CompletedStages(rows)
<1>1. IsFiniteSet(E) /\ C \subseteq E /\ i \in E /\ i \notin C
  <2>1. IsFiniteSet(1..Size)
    BY FS_Interval
  <2>2. E \subseteq 1..Size
    BY DEF EffectiveStages, Stages
  <2> QED BY <2>1, <2>2, FS_Subset DEF EffectiveStages, CompletedStages
<1>2. IsFiniteSet(C) /\ Cardinality(C) \in Nat /\ Cardinality(E) \in Nat /\ Cardinality(C) < Cardinality(E)
  <2>1. IsFiniteSet(C) /\ Cardinality(C) <= Cardinality(E)
    BY <1>1, FS_Subset
  <2>2. Cardinality(C) # Cardinality(E)
    BY <1>1, FS_Subset
  <2> QED BY <1>1, <2>1, <2>2, FS_CardinalityType
<1>3. \A c, e \in Nat : c < e => (c * 100) \div e \in 0..99
  OBVIOUS
<1>4. (Cardinality(C) * 100) \div Cardinality(E) \in 0..99
  BY <1>2, <1>3
<1>5. LifecycleProgress(rows, status) =
         IF status \in TerminalStatuses THEN 100 ELSE (Cardinality(C) * 100) \div Cardinality(E)
  BY <1>1 DEF LifecycleProgress
<1> QED BY <1>4, <1>5 DEF TerminalStatuses

-----------------------------------------------------------------------------
(* The invariant.  A session works on copies that may be stale; what is     *)
(* true of them all the same is what no overlap can undo: an end date that  *)
(* was read stays, and so does a decision.                                  *)

Found(p, r) == IF holder[r] = p THEN version[r] ELSE db[r]

Decided(row) == row.status \in TerminalStatuses

LooksOpen(row) == row.status = "InPreparation" => row.current # NoStage /\ row.progress < 100

\* Every stage before c has been completed, or is the one that s completes.
Reaches(s, c) ==
    \A i \in Stages : i < c => db[i].ended \/ (s.ask.op = "advance" /\ i = s.ask.stage)

Decides(ask) == ask.op \in {"cancel", "no_go"} \/ (ask.op = "advance" /\ ask.stage = Size)

\* What the copies of session s of request p have to do with the rows.
Facts(p, s) ==
    /\ \A r \in Row : holder[r] = p => r \in s.loaded
    /\ \A i \in Stages : i \in s.loaded /\ s.seen[i].ended => s.mine[i].ended /\ Found(p, i).ended
    /\ Rfq \in s.loaded =>
          /\ Decided(s.seen[Rfq]) => Decided(Found(p, Rfq))
          /\ Decided(s.mine[Rfq]) \/ s.mine[Rfq].status = s.seen[Rfq].status
          /\ LooksOpen(s.mine[Rfq])
          /\ Reaches(s, s.mine[Rfq].current)

Flushed(s) == /\ s.todo \subseteq s.loaded
              /\ \A r \in s.loaded \ s.todo : s.mine[r] = s.seen[r]

\* What s has done so far, by the point it has reached.
Purpose(s) ==
    LET k == s.ask.stage IN
    /\ s.pc \in {"idle", "stage", "announce", "done"} => s.loaded = {}
    /\ s.pc = "rfq" /\ s.ask.op # "cancel" => k \in s.loaded
    /\ s.pc = "next" => s.ask.op = "advance" /\ k \in s.loaded /\ Rfq \in s.loaded /\ s.mine[Rfq].current = k
    /\ s.pc = "completed" => /\ s.ask.op = "advance" /\ k < Size
                             /\ k \in s.loaded /\ k + 1 \in s.loaded /\ Rfq \in s.loaded
                             /\ s.mine[Rfq].current = k /\ s.mine[k].ended
    /\ s.pc = "started" => /\ s.ask.op = "advance" /\ k < Size
                           /\ k \in s.loaded /\ k + 1 \in s.loaded /\ Rfq \in s.loaded
                           /\ s.mine[k].ended /\ s.mine[k + 1].status = "InProgress"
    /\ s.pc = "freeze" => s.ask.op # "advance" /\ Rfq \in s.loaded
    /\ s.pc = "commit" => /\ s.ask.op = "advance" => k \in s.loaded /\ s.mine[k].ended
                          /\ Decides(s.ask) => Rfq \in s.loaded /\ Decided(s.mine[Rfq])
    /\ s.pc = "announce" => /\ s.ask.op = "advance" => db[k].ended
                            /\ Decides(s.ask) => Decided(db[Rfq])
                            /\ s.ask.op # "block"

\* What p has written and not committed.
Locks(p, s) ==
    /\ holder[Rfq] = p => /\ LooksOpen(version[Rfq])
                          /\ Reaches(s, version[Rfq].current)
                          /\ Decided(db[Rfq]) => Decided(version[Rfq])
    /\ \A i \in Stages : holder[i] = p /\ db[i].ended => version[i].ended

Session(p, s) == Facts(p, s) /\ Flushed(s) /\ Purpose(s) /\ Locks(p, s)

Heard == [type : {"rfq.status_changed"}, from : RfqStatuses, to : RfqStatuses]
            \cup [type : {"stage.advanced"}, stage : Stages]

Types == /\ db \in Images /\ version \in Images
         /\ holder \in [Row -> Requests \cup {Nobody}]
         /\ tx \in [Requests -> Sessions]
         /\ events \in Seq(Heard)

IInv == /\ Types
        /\ \A p \in Requests : Session(p, tx[p])
        /\ OpenRfqLooksOpen
        /\ NothingSkipped
        /\ AnnouncedOnlyCommitted

\* Time only adds end dates and decisions.
Forward == /\ \A i \in Stages : db[i].ended => db'[i].ended
           /\ Decided(db[Rfq]) => Decided(db'[Rfq])

LEMMA InitialTypes == InitialRows \in Images /\ NoSession \in Sessions /\ Done \in Sessions
<1>1. InitialRow(Rfq) \in RfqRow
  BY DEF InitialRow, Rfq, RfqRow, RfqStatuses
<1>2. \A i \in Stages : InitialRow(i) \in StageRec
  BY RowFacts DEF InitialRow, StageRec, NewStage, StageStatuses
<1>3. InitialRows \in Images
  BY <1>1, <1>2, RowFacts DEF InitialRows, Images
<1>4. NoSession \in Sessions
  BY <1>3 DEF NoSession, Sessions, Points, Ops, Stages, RfqStatuses
<1>5. Done \in Sessions
  BY <1>4 DEF Done, Sessions, Points
<1> QED BY <1>3, <1>4, <1>5

LEMMA IInvInit == ASSUME Init PROVE IInv
<1>1. Types
  BY InitialTypes DEF Init, Types
<1>2. \A p \in Requests : tx[p] = NoSession /\ NoSession.pc = "idle" /\ NoSession.loaded = {} /\ NoSession.todo = {}
  BY DEF Init, NoSession
<1>3. \A p \in Requests, r \in Row : holder[r] # p
  BY DEF Init
<1>4. \A p \in Requests : Session(p, tx[p])
  BY <1>2, <1>3, RowFacts DEF Session, Facts, Flushed, Purpose, Locks
<1>5. db[Rfq].status = "InPreparation" /\ db[Rfq].current = 1 /\ db[Rfq].progress = 0
  BY RowFacts DEF Init, InitialRows, InitialRow
<1>6. OpenRfqLooksOpen /\ NothingSkipped
  BY <1>5 DEF OpenRfqLooksOpen, NothingSkipped, NoStage, Stages
<1>7. AnnouncedOnlyCommitted
  BY DEF Init, AnnouncedOnlyCommitted
<1> QED BY <1>1, <1>4, <1>6, <1>7 DEF IInv

\* What a session has in hand survives the steps of the others: they neither
\* take nor release its rows, and they only go forward.
LEMMA OthersKeep ==
    ASSUME IInv, NEW p \in Requests, NEW q \in Requests, q # p, tx'[q] = tx[q], Forward,
           \A r \in Row : holder'[r] = q <=> holder[r] = q,
           \A r \in Row : holder[r] = q => version'[r] = version[r] /\ db'[r] = db[r]
    PROVE  Session(q, tx[q])'
<1> PICK s : s = tx[q]
  OBVIOUS
<1>1. Session(q, s)
  BY DEF IInv
<1>2. \A c : Reaches(s, c) => Reaches(s, c)'
  BY DEF Reaches, Forward
<1>3. /\ \A i \in Stages : Found(q, i).ended => Found(q, i)'.ended
      /\ Decided(Found(q, Rfq)) => Decided(Found(q, Rfq)')
  BY RowFacts DEF Found, Forward
<1>4. Facts(q, s)'
  BY <1>1, <1>2, <1>3 DEF Session, Facts, Decided, LooksOpen
<1>5. Flushed(s)'
  BY <1>1 DEF Session, Flushed
<1>6. Purpose(s)'
  <2>1. s.ask.stage \in Stages
    BY DEF IInv, Types, Sessions
  <2> QED BY <1>1, <2>1 DEF Session, Purpose, Forward, Decided
<1>7. Locks(q, s)'
  BY <1>1, <1>2, RowFacts DEF Session, Locks, Decided, LooksOpen
<1> QED BY <1>4, <1>5, <1>6, <1>7 DEF Session

-----------------------------------------------------------------------------
(* The session alone: reading, changing copies, and ordering a flush.       *)

LEMMA SelectKeeps ==
    ASSUME IInv, NEW p \in Requests, NEW s \in Sessions, Facts(p, s), Flushed(s),
           NEW rows \in SUBSET Row
    PROVE  LET u == Select(s, rows) IN
           /\ u \in Sessions /\ Facts(p, u) /\ Flushed(u)
           /\ u.pc = s.pc /\ u.ask = s.ask /\ u.was = s.was /\ u.todo = s.todo
           /\ u.loaded = s.loaded \cup rows
           /\ \A r \in s.loaded : u.mine[r] = s.mine[r]
<1> PICK u : u = Select(s, rows)
  OBVIOUS
<1> DEFINE fresh == rows \ s.loaded
           seen == [r \in Row |-> IF r \in fresh THEN db[r] ELSE s.seen[r]]
           mine == [r \in Row |-> IF r \in fresh THEN db[r] ELSE s.mine[r]]
<1>1. u = [s EXCEPT !.loaded = s.loaded \cup rows, !.seen = seen, !.mine = mine]
  BY DEF Select
<1>2. seen \in Images /\ mine \in Images
  <2>1. db \in Images /\ s.seen \in Images /\ s.mine \in Images
    BY DEF IInv, Types, Sessions
  <2>2. ASSUME NEW a \in Images
        PROVE  [r \in Row |-> IF r \in fresh THEN db[r] ELSE a[r]] \in Images
    BY <2>1, RowFacts DEF Images
  <2> QED BY <2>1, <2>2
<1> HIDE DEF seen, mine
<1>3. /\ u \in Sessions
      /\ u.pc = s.pc /\ u.ask = s.ask /\ u.was = s.was /\ u.todo = s.todo
      /\ u.loaded = s.loaded \cup rows /\ u.seen = seen /\ u.mine = mine
  BY <1>1, <1>2 DEF Sessions
<1>4. /\ \A r \in s.loaded : mine[r] = s.mine[r] /\ seen[r] = s.seen[r]
      /\ \A r \in u.loaded \ s.loaded : mine[r] = db[r] /\ seen[r] = db[r] /\ Found(p, r) = db[r]
  <2>1. s.loaded \subseteq Row
    BY DEF Sessions
  <2> QED BY <1>3, <2>1 DEF mine, seen, Facts, Found
<1>5. Flushed(u)
  BY <1>3, <1>4 DEF Flushed
<1>6. \A r \in Row : holder[r] = p => r \in u.loaded
  BY <1>3 DEF Facts
<1>7. \A i \in Stages : i \in u.loaded /\ u.seen[i].ended => u.mine[i].ended /\ Found(p, i).ended
  BY <1>3, <1>4 DEF Facts
<1>8. Rfq \in u.loaded =>
          /\ Decided(u.seen[Rfq]) => Decided(Found(p, Rfq))
          /\ Decided(u.mine[Rfq]) \/ u.mine[Rfq].status = u.seen[Rfq].status
          /\ LooksOpen(u.mine[Rfq])
          /\ Reaches(u, u.mine[Rfq].current)
  <2>1. \A c : Reaches(s, c) => Reaches(u, c)
    BY <1>3 DEF Reaches
  <2>2. LooksOpen(db[Rfq]) /\ Reaches(u, db[Rfq].current)
    BY DEF IInv, OpenRfqLooksOpen, LooksOpen, NothingSkipped, Reaches
  <2> QED BY <1>3, <1>4, <2>1, <2>2 DEF Facts
<1> QED BY <1>3, <1>4, <1>5, <1>6, <1>7, <1>8 DEF Facts

LEMMA ChangeKeeps ==
    ASSUME NEW p \in Requests, NEW s \in Sessions, Facts(p, s),
           NEW m \in Images, NEW next \in Points,
           \A i \in Stages : s.mine[i].ended => m[i].ended,
           Rfq \in s.loaded => /\ Decided(m[Rfq]) \/ m[Rfq].status = s.mine[Rfq].status
                               /\ LooksOpen(m[Rfq])
                               /\ Reaches(s, m[Rfq].current)
    PROVE  LET t == Flush([s EXCEPT !.mine = m], next) IN
           /\ t \in Sessions /\ Facts(p, t) /\ Flushed(t)
           /\ t.pc = next /\ t.ask = s.ask /\ t.was = s.was /\ t.loaded = s.loaded /\ t.mine = m
<1> PICK u : u = [s EXCEPT !.mine = m]
  OBVIOUS
<1> PICK t : t = Flush(u, next)
  OBVIOUS
<1>1. u \in Sessions /\ u.mine = m /\ u.seen = s.seen /\ u.loaded = s.loaded /\ u.ask = s.ask /\ u.was = s.was
  BY DEF Sessions
<1>2. PICK todo \in SUBSET Row : todo = {r \in u.loaded : u.mine[r] # u.seen[r]}
  <2>1. u.loaded \subseteq Row
    BY <1>1 DEF Sessions
  <2> QED BY <2>1
<1>3. t = [u EXCEPT !.todo = todo, !.pc = next]
  BY <1>2 DEF Flush
<1>4. /\ t \in Sessions /\ t.pc = next /\ t.ask = s.ask /\ t.was = s.was /\ t.loaded = s.loaded
      /\ t.mine = m /\ t.seen = s.seen /\ t.todo = todo
  BY <1>1, <1>3 DEF Sessions
<1>5. Flushed(t)
  BY <1>1, <1>2, <1>4 DEF Flushed
<1>6. \A c : Reaches(s, c) => Reaches(t, c)
  BY <1>4 DEF Reaches
<1>7. Facts(p, t)
  BY <1>4, <1>6 DEF Facts, Decided
<1> QED BY <1>4, <1>5, <1>7

\* A step in the session only.
LEMMA SessionStep ==
    ASSUME IInv, NEW p \in Requests, NEW t \in Sessions, tx' = [tx EXCEPT ![p] = t],
           UNCHANGED <<db, holder, version, events>>,
           t.ask = tx[p].ask \/ tx[p].loaded = {},
           Facts(p, t), Flushed(t), Purpose(t)
    PROVE  IInv'
<1>1. Types' /\ tx'[p] = t
  BY DEF IInv, Types
<1>2. \A q \in Requests \ {p} : Session(q, tx[q])'
  <2>1. \A q \in Requests \ {p} : tx'[q] = tx[q]
    BY DEF IInv, Types
  <2>2. Forward
    BY DEF Forward
  <2> QED BY <2>1, <2>2, OthersKeep
<1>3. Locks(p, t)
  <2>1. Locks(p, tx[p]) /\ Facts(p, tx[p])
    BY DEF IInv, Session
  <2>2. CASE t.ask = tx[p].ask
    BY <2>1, <2>2 DEF Locks, Reaches
  <2>3. CASE tx[p].loaded = {}
    BY <2>1, <2>3, RowFacts DEF Locks, Facts
  <2> QED BY <2>2, <2>3
<1>4. Session(p, t)'
  BY <1>3 DEF Session, Facts, Flushed, Purpose, Locks, Found, Reaches
<1>5. Session(p, tx[p])'
  <2>1. tx'[p] = t
    BY <1>1
  <2> QED BY <1>4, <2>1, SMTT(20) DEF Session, Facts, Flushed, Purpose, Locks, Found, Reaches
<1>6. (OpenRfqLooksOpen /\ NothingSkipped /\ AnnouncedOnlyCommitted)'
  BY DEF IInv, OpenRfqLooksOpen, NothingSkipped, AnnouncedOnlyCommitted
<1> QED BY <1>1, <1>2, <1>5, <1>6 DEF IInv

-----------------------------------------------------------------------------
(* One lemma for each step of a request.                                    *)

LEMMA RolledBackStep == ASSUME IInv, NEW p \in Requests, RolledBack(p) PROVE IInv'
<1>1. Done \in Sessions /\ Done.pc = "done" /\ Done.loaded = {} /\ Done.todo = {}
  BY InitialTypes DEF Done, NoSession
<1>2. /\ \A r \in Row : holder'[r] = IF holder[r] = p THEN Nobody ELSE holder[r]
      /\ \A r \in Row : version'[r] = IF holder[r] = p THEN InitialRow(r) ELSE version[r]
  BY DEF RolledBack, Released, Forgotten
<1>3. version' \in Images
  <2>1. version \in Images /\ \A r \in Row : InitialRow(r) = InitialRows[r]
    BY DEF IInv, Types, InitialRows
  <2> QED BY <1>2, <2>1, InitialTypes, RowFacts DEF RolledBack, Forgotten, Images
<1>4. Types' /\ tx'[p] = Done /\ UNCHANGED <<db, events>>
  BY <1>1, <1>3 DEF RolledBack, Released, IInv, Types
<1>5. \A q \in Requests \ {p} : Session(q, tx[q])'
  <2>1. \A q \in Requests \ {p} : tx'[q] = tx[q]
    BY DEF RolledBack, IInv, Types
  <2>2. Forward
    BY <1>4 DEF Forward
  <2> QED BY <1>2, <1>4, <2>1, <2>2, OthersKeep
<1>6. Session(p, tx[p])'
  BY <1>1, <1>2, <1>4, RowFacts DEF Session, Facts, Flushed, Purpose, Locks
<1>7. (OpenRfqLooksOpen /\ NothingSkipped /\ AnnouncedOnlyCommitted)'
  BY <1>4 DEF IInv, OpenRfqLooksOpen, NothingSkipped, AnnouncedOnlyCommitted
<1> QED BY <1>4, <1>5, <1>6, <1>7 DEF IInv

LEMMA StartStep == ASSUME IInv, NEW p \in Requests, Start(p) PROVE IInv'
<1>1. /\ tx[p] \in Sessions /\ tx[p].pc = "idle" /\ tx[p].todo = {}
      /\ Facts(p, tx[p]) /\ Flushed(tx[p]) /\ Purpose(tx[p])
  BY DEF Start, At, IInv, Types, Session
<1>2. PICK ask \in Kinds :
         Becomes(p, [tx[p] EXCEPT !.ask = ask, !.pc = IF ask.op = "cancel" THEN "rfq" ELSE "stage"])
  BY DEF Start
<1>3. ask \in [op : Ops, stage : Stages]
  OBVIOUS
<1>4. PICK t \in Sessions :
         t = [tx[p] EXCEPT !.ask = ask, !.pc = IF ask.op = "cancel" THEN "rfq" ELSE "stage"]
  BY <1>1, <1>3 DEF Sessions, Points
<1>5. /\ t.pc = (IF ask.op = "cancel" THEN "rfq" ELSE "stage") /\ t.ask = ask /\ t.loaded = tx[p].loaded
      /\ t.todo = tx[p].todo
  BY <1>1, <1>4 DEF Sessions
<1>6. tx[p].loaded = {}
  BY <1>1 DEF Purpose
<1>7. Facts(p, t) /\ Flushed(t) /\ Purpose(t)
  BY <1>1, <1>5, <1>6 DEF Facts, Flushed, Purpose
<1> QED BY <1>2, <1>4, <1>6, <1>7, SessionStep DEF Becomes

LEMMA SessionAt ==
    ASSUME IInv, NEW p \in Requests
    PROVE  /\ tx[p] \in Sessions /\ tx[p].ask \in [op : Ops, stage : Stages] /\ tx[p].ask.stage \in Stages
           /\ tx[p].mine \in Images
           /\ Facts(p, tx[p]) /\ Flushed(tx[p]) /\ Purpose(tx[p]) /\ Locks(p, tx[p])
BY DEF IInv, Types, Session, Sessions

LEMMA LoadStageStep == ASSUME IInv, NEW p \in Requests, LoadStage(p) PROVE IInv'
<1>0. PICK k \in Stages : k = tx[p].ask.stage
  BY SessionAt
<1>1. k \in Row /\ k # Rfq
  BY RowFacts
<1>2. PICK u : u = Select(tx[p], {k})
  OBVIOUS
<1>3. /\ u \in Sessions /\ Facts(p, u) /\ Flushed(u) /\ u.ask = tx[p].ask /\ u.loaded = {k} /\ u.todo = {}
      /\ u.mine \in Images
  <2>1. tx[p].loaded = {} /\ tx[p].todo = {}
    BY SessionAt DEF LoadStage, At, Purpose
  <2> QED BY <1>1, <1>2, <2>1, SessionAt, SelectKeeps DEF Sessions
<1>4. CASE u.ask.op = "block"
  <2>1. PICK m \in Images : m = [u.mine EXCEPT ![k].blocked = TRUE]
    BY <1>1, <1>3, RowFacts DEF Images, StageRec
  <2>2. PICK t : t = Flush([u EXCEPT !.mine = m], "commit")
    OBVIOUS
  <2>3. Becomes(p, t)
    BY <1>0, <1>2, <1>4, <2>1, <2>2 DEF LoadStage
  <2>4. \A i \in Stages : m[i].ended = u.mine[i].ended
    BY <1>1, <1>3, <2>1, RowFacts DEF Images, StageRec
  <2>5. /\ t \in Sessions /\ Facts(p, t) /\ Flushed(t) /\ t.pc = "commit" /\ t.ask = u.ask
    BY <1>1, <1>3, <2>2, <2>4, ChangeKeeps DEF Points
  <2>6. Purpose(t)
    BY <1>4, <2>5 DEF Purpose, Decides
  <2> QED BY <1>3, <2>3, <2>5, <2>6, SessionStep DEF Becomes
<1>5. CASE u.ask.op # "block"
  <2>1. PICK t \in Sessions : t = [u EXCEPT !.pc = "rfq"]
    BY <1>3 DEF Sessions, Points
  <2>2. Becomes(p, t)
    BY <1>0, <1>2, <1>5, <2>1 DEF LoadStage
  <2>3. /\ t.pc = "rfq" /\ t.ask = u.ask /\ t.loaded = u.loaded /\ t.todo = u.todo
        /\ t.seen = u.seen /\ t.mine = u.mine
    BY <1>3, <2>1 DEF Sessions
  <2>4. Facts(p, t) /\ Flushed(t) /\ Purpose(t)
    BY <1>0, <1>3, <2>3 DEF Facts, Flushed, Purpose, Reaches
  <2> QED BY <1>3, <2>2, <2>3, <2>4, SessionStep DEF Becomes
<1> QED BY <1>4, <1>5

LEMMA LoadRfqStep == ASSUME IInv, NEW p \in Requests, LoadRfq(p) PROVE IInv'
<1>1. PICK u : u = Select(tx[p], {Rfq})
  OBVIOUS
<1>2. /\ u \in Sessions /\ Facts(p, u) /\ Flushed(u) /\ u.ask = tx[p].ask /\ u.todo = {}
      /\ u.loaded = tx[p].loaded \cup {Rfq} /\ u.mine \in Images
  <2>1. tx[p].todo = {}
    BY DEF LoadRfq, At
  <2> QED BY <1>1, <2>1, SessionAt, SelectKeeps, RowFacts DEF Sessions
<1>3. CASE ~ MayProceed(u)
  <2>1. RolledBack(p)
    BY <1>1, <1>3 DEF LoadRfq
  <2> QED BY <2>1, RolledBackStep
<1>4. CASE MayProceed(u)
  <2>1. u.mine[Rfq].status \in RfqStatuses
    BY <1>2 DEF Images, RfqRow
  <2>2. PICK t \in Sessions : t = [u EXCEPT !.was = u.mine[Rfq].status,
                                            !.pc  = IF u.ask.op = "advance" THEN "next" ELSE "freeze"]
    BY <1>2, <2>1 DEF Sessions, Points
  <2>3. Becomes(p, t)
    BY <1>1, <1>4, <2>2 DEF LoadRfq
  <2>4. /\ t.pc = (IF u.ask.op = "advance" THEN "next" ELSE "freeze")
        /\ t.ask = u.ask /\ t.loaded = u.loaded /\ t.todo = u.todo
        /\ t.seen = u.seen /\ t.mine = u.mine
    BY <1>2, <2>2 DEF Sessions
  <2>5. Facts(p, t) /\ Flushed(t)
    BY <1>2, <2>4 DEF Facts, Flushed, Reaches
  <2>6. Purpose(t)
    <3>1. Purpose(tx[p]) /\ tx[p].pc = "rfq"
      BY SessionAt DEF LoadRfq, At
    <3>2. CASE u.ask.op = "advance"
      <4>1. u.mine[Rfq].current = u.ask.stage
        BY <1>4, <3>2 DEF MayProceed
      <4> QED BY <1>2, <2>4, <3>1, <3>2, <4>1 DEF Purpose
    <3>3. CASE u.ask.op # "advance"
      BY <1>2, <2>4, <3>3 DEF Purpose
    <3> QED BY <3>2, <3>3
  <2> QED BY <1>2, <2>3, <2>4, <2>5, <2>6, SessionStep DEF Becomes
<1> QED BY <1>3, <1>4

LEMMA CompleteStageStep == ASSUME IInv, NEW p \in Requests, CompleteStage(p) PROVE IInv'
<1>0. PICK k \in Stages : k = tx[p].ask.stage
  BY SessionAt
<1>1. k \in Row /\ k # Rfq /\ k < Size /\ k + 1 \in Row
  BY <1>0, RowFacts DEF CompleteStage, Stages
<1>2. PICK u : u = Select(tx[p], {k + 1})
  OBVIOUS
<1>3. /\ u \in Sessions /\ Facts(p, u) /\ Flushed(u) /\ u.ask = tx[p].ask
      /\ u.loaded = tx[p].loaded \cup {k + 1} /\ u.mine \in Images
      /\ \A r \in tx[p].loaded : u.mine[r] = tx[p].mine[r]
  BY <1>1, <1>2, SessionAt, SelectKeeps DEF Sessions
<1>4. /\ tx[p].ask.op = "advance" /\ k \in tx[p].loaded /\ Rfq \in tx[p].loaded
      /\ u.mine[Rfq].current = k
  BY <1>0, <1>3, SessionAt DEF CompleteStage, At, Purpose
<1>5. Completed(u.mine[k]) \in StageRec /\ Completed(u.mine[k]).ended
  BY <1>3 DEF Completed, Images, StageRec, StageStatuses
<1>6. PICK m \in Images : m = [u.mine EXCEPT ![k] = Completed(@)]
  BY <1>1, <1>3, <1>5, RowFacts DEF Images
<1>7. PICK t : t = Flush([u EXCEPT !.mine = m], "completed")
  OBVIOUS
<1>8. Becomes(p, t)
  BY <1>0, <1>2, <1>6, <1>7 DEF CompleteStage
<1>9. m[Rfq] = u.mine[Rfq] /\ m[k].ended /\ \A i \in Stages : u.mine[i].ended => m[i].ended
  BY <1>1, <1>3, <1>5, <1>6, RowFacts DEF Images
<1>10. /\ t \in Sessions /\ Facts(p, t) /\ Flushed(t) /\ t.pc = "completed" /\ t.ask = u.ask
       /\ t.loaded = u.loaded /\ t.mine = m
  <2>1. Rfq \in u.loaded => /\ Decided(m[Rfq]) \/ m[Rfq].status = u.mine[Rfq].status
                            /\ LooksOpen(m[Rfq]) /\ Reaches(u, m[Rfq].current)
    BY <1>3, <1>9 DEF Facts
  <2> QED BY <1>3, <1>7, <1>9, <2>1, ChangeKeeps DEF Points
<1>11. Purpose(t)
  BY <1>0, <1>1, <1>3, <1>4, <1>9, <1>10 DEF Purpose
<1> QED BY <1>3, <1>8, <1>10, <1>11, SessionStep DEF Becomes

LEMMA StartNextStep == ASSUME IInv, NEW p \in Requests, StartNext(p) PROVE IInv'
<1>0. PICK k \in Stages : k = tx[p].ask.stage
  BY SessionAt
<1>1. PICK u : u = tx[p]
  OBVIOUS
<1>2. /\ u \in Sessions /\ Facts(p, u) /\ Flushed(u) /\ u.mine \in Images /\ u.ask.op = "advance"
      /\ k < Size /\ k \in u.loaded /\ k + 1 \in u.loaded /\ Rfq \in u.loaded
      /\ u.mine[Rfq].current = k /\ u.mine[k].ended
  BY <1>0, <1>1, SessionAt DEF StartNext, At, Purpose
<1>3. k \in Row /\ k # Rfq /\ k + 1 \in Stages /\ k + 1 # Rfq
  BY <1>2, RowFacts DEF Stages
<1>4. /\ Started(u.mine[k + 1]) \in StageRec /\ Started(u.mine[k + 1]).status = "InProgress"
      /\ Started(u.mine[k + 1]).ended = u.mine[k + 1].ended
  <2>1. u.mine[k + 1] \in StageRec
    BY <1>2, <1>3 DEF Images
  <2>2. \A row \in StageRec : /\ Started(row) \in StageRec /\ Started(row).status = "InProgress"
                              /\ Started(row).ended = row.ended
    BY DEF Started, StageRec, StageStatuses
  <2> QED BY <2>1, <2>2
<1>5. PICK moved \in RfqRow : moved = [u.mine[Rfq] EXCEPT !.current = k + 1]
  <2>1. u.mine[Rfq] \in RfqRow /\ k + 1 \in 0..Size
    BY <1>2, <1>3 DEF Images, Stages
  <2>2. \A row \in RfqRow, c \in 0..Size : [row EXCEPT !.current = c] \in RfqRow
    BY DEF RfqRow
  <2> QED BY <2>1, <2>2
<1>6. moved.current = k + 1 /\ moved.status = u.mine[Rfq].status /\ moved.progress = u.mine[Rfq].progress
  BY <1>2, <1>5 DEF Images, RfqRow
<1>7. PICK m \in Images : m = [u.mine EXCEPT ![k + 1] = Started(@), ![Rfq].current = k + 1]
  <2>1. [u.mine EXCEPT ![k + 1] = Started(@), ![Rfq].current = k + 1]
           = [u.mine EXCEPT ![k + 1] = Started(u.mine[k + 1]), ![Rfq] = moved]
    BY <1>2, <1>3, <1>5, RowFacts DEF Images
  <2>2. [u.mine EXCEPT ![k + 1] = Started(u.mine[k + 1]), ![Rfq] = moved] \in Images
    BY <1>2, <1>3, <1>4, <1>5, RowFacts DEF Images
  <2> QED BY <2>1, <2>2
<1>8. /\ m[Rfq] = moved /\ m[k].ended /\ m[k + 1].status = "InProgress"
      /\ \A i \in Stages : u.mine[i].ended => m[i].ended
  BY <1>2, <1>3, <1>4, <1>5, <1>7, RowFacts DEF Images
<1>9. PICK t : t = Flush([u EXCEPT !.mine = m], "started")
  OBVIOUS
<1>10. Becomes(p, t)
  BY <1>0, <1>1, <1>7, <1>9 DEF StartNext
<1>11. Reaches(u, k + 1)
  BY <1>0, <1>1, <1>2 DEF Facts, Reaches, Stages
<1>12. LooksOpen(moved)
  BY <1>2, <1>3, <1>6 DEF Facts, LooksOpen, NoStage, Rfq
<1>13. /\ t \in Sessions /\ Facts(p, t) /\ Flushed(t) /\ t.pc = "started" /\ t.ask = u.ask
       /\ t.loaded = u.loaded /\ t.mine = m
  BY <1>2, <1>6, <1>8, <1>9, <1>11, <1>12, ChangeKeeps DEF Points
<1>14. Purpose(t)
  BY <1>0, <1>1, <1>2, <1>8, <1>13 DEF Purpose
<1> QED BY <1>1, <1>10, <1>13, <1>14, SessionStep DEF Becomes

LEMMA CountProgressStep == ASSUME IInv, NEW p \in Requests, CountProgress(p) PROVE IInv'
<1>0. PICK k \in Stages : k = tx[p].ask.stage
  BY SessionAt
<1>1. PICK u : u = Select(tx[p], Stages)
  OBVIOUS
<1>2. /\ u \in Sessions /\ Facts(p, u) /\ Flushed(u) /\ u.ask = tx[p].ask /\ u.mine \in Images
      /\ u.loaded = tx[p].loaded \cup Stages
      /\ \A r \in tx[p].loaded : u.mine[r] = tx[p].mine[r]
  <2> PICK s : s = tx[p]
    OBVIOUS
  <2>1. s \in Sessions /\ Facts(p, s) /\ Flushed(s)
    BY SessionAt
  <2>2. Stages \in SUBSET Row
    BY RowFacts
  <2>3. /\ u \in Sessions /\ Facts(p, u) /\ Flushed(u) /\ u.ask = s.ask
        /\ u.loaded = s.loaded \cup Stages
        /\ \A r \in s.loaded : u.mine[r] = s.mine[r]
    BY <1>1, <2>1, <2>2, SelectKeeps
  <2>4. u.mine \in Images
    BY <2>3 DEF Sessions
  <2>5. u.ask = tx[p].ask /\ u.loaded = tx[p].loaded \cup Stages
    BY <2>3
  <2>6. \A r \in tx[p].loaded : u.mine[r] = tx[p].mine[r]
    BY <2>3
  <2> QED BY <2>3, <2>4, <2>5, <2>6
<1>3. /\ u.ask.op = "advance" /\ k < Size /\ Rfq \in u.loaded /\ k + 1 \in Stages /\ u.mine[k].ended
      /\ u.mine[k + 1].status = "InProgress"
  <2>1. tx[p].pc = "started" /\ Purpose(tx[p])
    BY SessionAt DEF CountProgress, At
  <2>2. /\ tx[p].ask.op = "advance" /\ k < Size /\ Rfq \in tx[p].loaded
        /\ k \in tx[p].loaded /\ k + 1 \in tx[p].loaded
        /\ tx[p].mine[k].ended /\ tx[p].mine[k + 1].status = "InProgress"
    BY <1>0, <2>1 DEF Purpose
  <2>3. k + 1 \in Stages
    BY <2>2 DEF Stages
  <2> QED BY <1>2, <2>2, <2>3
<1>4. PICK percent : percent = LifecycleProgress(StageRows(u.mine), u.mine[Rfq].status)
  OBVIOUS
<1>5. percent \in Int /\ (u.mine[Rfq].status = "InPreparation" => percent < 100)
  <2>1. DOMAIN StageRows(u.mine) = Stages /\ StageRows(u.mine)[k + 1].status = "InProgress"
    BY <1>3 DEF StageRows
  <2>2. u.mine[Rfq].status \in RfqStatuses
    BY <1>2 DEF Images, RfqRow
  <2> QED BY <1>3, <1>4, <2>1, <2>2, CountBelowHundred
<1>6. PICK counted \in RfqRow : counted = [u.mine[Rfq] EXCEPT !.progress = percent]
  BY <1>2, <1>5 DEF Images, RfqRow
<1>7. counted.current = u.mine[Rfq].current /\ counted.status = u.mine[Rfq].status /\ counted.progress = percent
  BY <1>2, <1>6 DEF Images, RfqRow
<1>8. PICK m \in Images : m = [u.mine EXCEPT ![Rfq] = counted]
  BY <1>2, <1>6, RowFacts DEF Images
<1>9. m[Rfq] = counted /\ \A i \in Stages : m[i] = u.mine[i]
  BY <1>2, <1>8, RowFacts DEF Images
<1>10. PICK t : t = Flush([u EXCEPT !.mine = m], "commit")
  OBVIOUS
<1>11. Becomes(p, t)
  <2>1. [u EXCEPT !.mine[Rfq].progress = percent] = [u EXCEPT !.mine = m]
    BY <1>2, <1>6, <1>8, RowFacts DEF Sessions, Images
  <2> QED BY <1>1, <1>4, <1>10, <2>1 DEF CountProgress
<1>12. LooksOpen(counted) /\ Reaches(u, counted.current)
  BY <1>2, <1>3, <1>5, <1>7 DEF Facts, LooksOpen
<1>13. /\ t \in Sessions /\ Facts(p, t) /\ Flushed(t) /\ t.pc = "commit" /\ t.ask = u.ask
       /\ t.loaded = u.loaded /\ t.mine = m
  BY <1>2, <1>7, <1>9, <1>10, <1>12, ChangeKeeps DEF Points
<1>14. Purpose(t)
  BY <1>0, <1>2, <1>3, <1>9, <1>13 DEF Purpose, Decides
<1> QED BY <1>2, <1>11, <1>13, <1>14, SessionStep DEF Becomes

LEMMA DecideOutcomeStep == ASSUME IInv, NEW p \in Requests, DecideOutcome(p) PROVE IInv'
<1>1. PICK decision \in {"Awarded", "Lost"} :
         IF ValidTransition(tx[p].was, decision)
           THEN Becomes(p, Flush([tx[p] EXCEPT
                   !.mine[Size] = Completed(@),
                   !.mine[Rfq] = [status |-> decision, current |-> NoStage, progress |-> 100]], "commit"))
           ELSE RolledBack(p)
  BY DEF DecideOutcome
<1>2. CASE ~ ValidTransition(tx[p].was, decision)
  BY <1>1, <1>2, RolledBackStep
<1>3. CASE ValidTransition(tx[p].was, decision)
  <2>1. PICK u : u = tx[p]
    OBVIOUS
  <2>2. /\ u \in Sessions /\ Facts(p, u) /\ u.mine \in Images
        /\ u.ask.op = "advance" /\ u.ask.stage = Size /\ Size \in u.loaded /\ Rfq \in u.loaded
    <3>1. u \in Sessions /\ Facts(p, u) /\ Purpose(u) /\ u.mine \in Images
      BY <2>1, SessionAt
    <3>2. u.pc = "next" /\ u.ask.stage = Size
      BY <2>1 DEF DecideOutcome, At
    <3> QED BY <3>1, <3>2 DEF Purpose
  <2>3. Size \in Stages /\ Size \in Row /\ Size # Rfq
    <3>1. Size \in Stages
      BY DEF Stages
    <3> QED BY <3>1, RowFacts
  <2>4. PICK closed \in RfqRow : closed = [status |-> decision, current |-> NoStage, progress |-> 100]
    <3>1. decision \in RfqStatuses /\ NoStage \in 0..Size /\ 100 \in Int
      BY DEF RfqStatuses, TerminalStatuses, NoStage
    <3>2. [status |-> decision, current |-> NoStage, progress |-> 100] \in RfqRow
      BY <3>1 DEF RfqRow
    <3> QED BY <3>2
  <2>5. Completed(u.mine[Size]) \in StageRec /\ Completed(u.mine[Size]).ended
    <3>1. u.mine[Size] \in StageRec
      BY <2>2, <2>3 DEF Images
    <3> QED BY <3>1 DEF Completed, StageRec, StageStatuses
  <2>6. PICK m \in Images : m = [u.mine EXCEPT ![Size] = Completed(@), ![Rfq] = closed]
    <3>1. PICK half : half = [u.mine EXCEPT ![Size] = Completed(u.mine[Size])]
      OBVIOUS
    <3>2. /\ half \in [Row -> RfqRow \cup StageRec]
          /\ \A i \in Stages : half[i] \in StageRec
      BY <2>2, <2>3, <2>5, <3>1, RowFacts DEF Images
    <3>3. [half EXCEPT ![Rfq] = closed] \in Images
      BY <2>4, <3>2, RowFacts DEF Images
    <3> QED BY <3>1, <3>3
  <2>7. m[Rfq] = closed /\ m[Size].ended /\ \A i \in Stages : u.mine[i].ended => m[i].ended
    <3>1. m = [[u.mine EXCEPT ![Size] = Completed(u.mine[Size])] EXCEPT ![Rfq] = closed]
      BY <2>6
    <3>2. u.mine \in [Row -> RfqRow \cup StageRec]
      BY <2>2 DEF Images
    <3>3. m[Rfq] = closed /\ m[Size] = Completed(u.mine[Size])
      BY <2>3, <3>1, <3>2, RowFacts
    <3>4. \A i \in Stages \ {Size} : m[i] = u.mine[i]
      BY <2>3, <3>1, <3>2, RowFacts
    <3> QED BY <2>5, <3>3, <3>4
  <2>8. Decided(closed) /\ LooksOpen(closed) /\ Reaches(u, closed.current)
    <3>1. /\ closed.status \in TerminalStatuses /\ closed.status # "InPreparation"
          /\ closed.current = NoStage
      BY <2>4 DEF TerminalStatuses
    <3>2. Reaches(u, NoStage)
      BY DEF Reaches, NoStage, Stages
    <3> QED BY <3>1, <3>2 DEF Decided, LooksOpen
  <2>9. PICK t : t = Flush([u EXCEPT !.mine = m], "commit")
    OBVIOUS
  <2>10. Becomes(p, t)
    BY <1>1, <1>3, <2>1, <2>4, <2>6, <2>9
  <2>11. /\ t \in Sessions /\ Facts(p, t) /\ Flushed(t) /\ t.pc = "commit" /\ t.ask = u.ask
         /\ t.loaded = u.loaded /\ t.mine = m
    BY <2>2, <2>7, <2>8, <2>9, ChangeKeeps DEF Points
  <2>12. Purpose(t)
    BY <2>2, <2>7, <2>8, <2>11 DEF Purpose
  <2> QED BY <2>1, <2>10, <2>11, <2>12, SessionStep DEF Becomes
<1> QED BY <1>2, <1>3

LEMMA FreezeStep == ASSUME IInv, NEW p \in Requests, Freeze(p) PROVE IInv'
<1>1. PICK u : u = Select(tx[p], Stages)
  OBVIOUS
<1>2. /\ u \in Sessions /\ Facts(p, u) /\ Flushed(u) /\ u.ask = tx[p].ask /\ u.mine \in Images
      /\ u.loaded = tx[p].loaded \cup Stages
  BY <1>1, SessionAt, SelectKeeps, RowFacts DEF Sessions
<1>3. u.ask.op # "advance" /\ Rfq \in u.loaded
  BY <1>2, SessionAt DEF Freeze, At, Purpose
<1>4. PICK closed \in RfqRow : closed = [status |-> "Cancelled", current |-> NoStage, progress |-> 100]
  <2>1. "Cancelled" \in RfqStatuses /\ NoStage \in 0..Size /\ 100 \in Int
    BY DEF RfqStatuses, TerminalStatuses, NoStage
  <2>2. [status |-> "Cancelled", current |-> NoStage, progress |-> 100] \in RfqRow
    BY <2>1 DEF RfqRow
  <2> QED BY <2>2
<1>5. PICK frozen : frozen = FreezeStages(StageRows(u.mine), u.mine[Rfq].current)
  OBVIOUS
<1>6. \A i \in Stages : frozen[i] \in StageRec /\ (u.mine[i].ended => frozen[i].ended)
  <2>1. \A i \in Stages : frozen[i] = FrozenRow(u.mine[i], i, u.mine[Rfq].current)
    BY <1>5 DEF FreezeStages, StageRows
  <2>2. \A row \in StageRec : \A i, c : FrozenRow(row, i, c) \in StageRec /\ (row.ended => FrozenRow(row, i, c).ended)
    <3> SUFFICES ASSUME NEW row \in StageRec, NEW i, NEW c
                 PROVE  FrozenRow(row, i, c) \in StageRec /\ (row.ended => FrozenRow(row, i, c).ended)
      OBVIOUS
    <3>1. /\ [row EXCEPT !.status = "Skipped", !.ended = TRUE] \in StageRec
          /\ [row EXCEPT !.status = "Skipped", !.ended = TRUE].ended = TRUE
          /\ [row EXCEPT !.status = "Skipped"] \in StageRec
          /\ [row EXCEPT !.status = "Skipped"].ended = row.ended
      BY DEF StageRec, StageStatuses
    <3> QED BY <3>1 DEF FrozenRow
  <2>3. \A i \in Stages : u.mine[i] \in StageRec
    BY <1>2 DEF Images
  <2> QED BY <2>1, <2>2, <2>3
<1>7. PICK m \in Images : m = [r \in Row |-> IF r = Rfq THEN closed ELSE frozen[r]]
  BY <1>4, <1>6, RowFacts DEF Images
<1>8. m[Rfq] = closed /\ \A i \in Stages : u.mine[i].ended => m[i].ended
  BY <1>6, <1>7, RowFacts
<1>9. Decided(closed) /\ LooksOpen(closed) /\ Reaches(u, closed.current)
  BY <1>4 DEF Decided, LooksOpen, Reaches, TerminalStatuses, NoStage, Stages
<1>10. PICK t : t = Flush([u EXCEPT !.mine = m], "commit")
  OBVIOUS
<1>11. Becomes(p, t)
  BY <1>1, <1>4, <1>5, <1>7, <1>10 DEF Freeze
<1>12. /\ t \in Sessions /\ Facts(p, t) /\ Flushed(t) /\ t.pc = "commit" /\ t.ask = u.ask
       /\ t.loaded = u.loaded /\ t.mine = m
  BY <1>2, <1>8, <1>9, <1>10, ChangeKeeps DEF Points
<1>13. Purpose(t)
  BY <1>3, <1>8, <1>9, <1>12 DEF Purpose
<1> QED BY <1>2, <1>11, <1>12, <1>13, SessionStep DEF Becomes

\* An UPDATE leaves in the row what was stored or what the session has, column
\* by column, and neither takes back a decision nor an end date.
LEMMA UpdateStep == ASSUME IInv, NEW p \in Requests, NEW r \in Row, Update(p, r) PROVE IInv'
<1> PICK s : s = tx[p]
  OBVIOUS
<1>1. /\ s \in Sessions /\ Facts(p, s) /\ Flushed(s) /\ Purpose(s) /\ Locks(p, s)
      /\ s.mine \in Images /\ s.seen \in Images
      /\ r \in s.todo /\ r \in s.loaded /\ holder[r] \in {Nobody, p}
  BY SessionAt DEF Update, Flushed, Sessions
<1>2. PICK row : row = Written(Found(p, r), s.seen[r], s.mine[r])
  OBVIOUS
<1>3. /\ holder' = [holder EXCEPT ![r] = p] /\ version' = [version EXCEPT ![r] = row]
      /\ UNCHANGED <<db, events>>
  BY <1>2 DEF Update, Found
<1>4. PICK seen \in Images : seen = [s.seen EXCEPT ![r] = s.mine[r]]
  BY <1>1, RowFacts DEF Images
<1>5. PICK t \in Sessions : t = [s EXCEPT !.todo = @ \ {r}, !.seen = seen]
  BY <1>1, <1>4 DEF Sessions
<1>6. /\ t.todo = s.todo \ {r} /\ t.seen = seen /\ t.mine = s.mine /\ t.loaded = s.loaded
      /\ t.ask = s.ask /\ t.pc = s.pc
  BY <1>1, <1>5 DEF Sessions
<1>7. tx' = [tx EXCEPT ![p] = t]
  <2>1. [s EXCEPT !.todo = @ \ {r}, !.seen[r] = s.mine[r]] = t
    BY <1>4, <1>5
  <2> QED BY <2>1 DEF Update
<1>8. /\ r = Rfq => /\ row \in RfqRow
                    /\ row.status = IF s.mine[r].status = s.seen[r].status THEN Found(p, r).status
                                                                           ELSE s.mine[r].status
                    /\ row.current \in {Found(p, r).current, s.mine[r].current}
                    /\ row.progress \in {Found(p, r).progress, s.mine[r].progress}
      /\ r \in Stages => /\ row \in StageRec
                         /\ row.ended = IF s.mine[r].ended = s.seen[r].ended THEN Found(p, r).ended
                                                                             ELSE s.mine[r].ended
  <2>1. db \in Images /\ version \in Images
    BY DEF IInv, Types
  <2>2. CASE r = Rfq
    <3>1. Found(p, r) \in RfqRow /\ s.seen[r] \in RfqRow /\ s.mine[r] \in RfqRow
      BY <1>1, <2>1, <2>2 DEF Found, Images
    <3> QED BY <1>2, <2>2, <3>1, WrittenRfq, RowFacts
  <2>3. CASE r \in Stages
    <3>1. Found(p, r) \in StageRec /\ s.seen[r] \in StageRec /\ s.mine[r] \in StageRec
      BY <1>1, <2>1, <2>3 DEF Found, Images
    <3> QED BY <1>2, <2>3, <3>1, WrittenStage, RowFacts
  <2> QED BY <2>2, <2>3, RowFacts
<1>9. Types' /\ tx'[p] = t
  <2>1. version' \in Images
    BY <1>3, <1>8, RowFacts DEF IInv, Types, Images
  <2> QED BY <1>3, <1>7, <2>1 DEF IInv, Types
<1>10. /\ \A v \in Row \ {r} : holder'[v] = holder[v] /\ version'[v] = version[v]
       /\ holder'[r] = p /\ version'[r] = row
       /\ \A v \in Row \ {r} : seen[v] = s.seen[v]
       /\ seen[r] = s.mine[r]
  BY <1>1, <1>3, <1>4 DEF IInv, Types, Images
<1>11. \A q \in Requests \ {p} : Session(q, tx[q])'
  <2>1. \A q \in Requests \ {p} : tx'[q] = tx[q]
    BY <1>7 DEF IInv, Types
  <2>2. Forward
    BY <1>3 DEF Forward
  <2>3. ASSUME NEW q \in Requests \ {p}
        PROVE  /\ \A v \in Row : holder'[v] = q <=> holder[v] = q
               /\ \A v \in Row : holder[v] = q => version'[v] = version[v] /\ db'[v] = db[v]
    BY <1>1, <1>3, <1>10
  <2> QED BY <2>1, <2>2, <2>3, OthersKeep
<1>12. /\ Found(p, r)' = row
       /\ \A v \in Row \ {r} : Found(p, v)' = Found(p, v)
  BY <1>3, <1>10 DEF Found
<1>13. ASSUME r = Rfq PROVE Facts(p, t)' /\ Locks(p, t)'
  <2>1. /\ Decided(s.seen[Rfq]) => Decided(Found(p, Rfq))
        /\ Decided(s.mine[Rfq]) \/ s.mine[Rfq].status = s.seen[Rfq].status
        /\ LooksOpen(s.mine[Rfq]) /\ Reaches(s, s.mine[Rfq].current)
    BY <1>1, <1>13 DEF Facts
  <2>2. /\ LooksOpen(Found(p, Rfq)) /\ Reaches(s, Found(p, Rfq).current)
        /\ Decided(db[Rfq]) => Decided(Found(p, Rfq))
    BY <1>1 DEF Locks, Found, IInv, OpenRfqLooksOpen, LooksOpen, NothingSkipped, Reaches
  <2>3. /\ Decided(s.mine[Rfq]) => Decided(row)
        /\ Decided(Found(p, Rfq)) => Decided(row)
    BY <1>8, <1>13, <2>1 DEF Decided
  <2>4. LooksOpen(row)
    <3>1. s.mine[Rfq].status \in RfqStatuses
      BY <1>1 DEF Images, RfqRow
    <3>2. row.status = "InPreparation" => s.mine[Rfq].status = "InPreparation" /\ Found(p, Rfq).status = "InPreparation"
      BY <1>8, <1>13, <2>1, <3>1 DEF Decided, RfqStatuses, TerminalStatuses
    <3> QED BY <1>8, <1>13, <2>1, <2>2, <3>2 DEF LooksOpen
  <2>5. Reaches(s, row.current)
    BY <1>8, <1>13, <2>1, <2>2
  <2>6. \A c : Reaches(s, c) <=> Reaches(t, c)'
    BY <1>3, <1>6 DEF Reaches
  <2>7. (Facts(p, t))'
    BY <1>1, <1>3, <1>6, <1>10, <1>12, <1>13, <2>1, <2>3, <2>6, RowFacts
       DEF Facts, Decided, LooksOpen
  <2>8. (Locks(p, t))'
    BY <1>1, <1>3, <1>10, <1>13, <2>2, <2>3, <2>4, <2>5, <2>6, RowFacts DEF Locks, Decided, LooksOpen
  <2> QED BY <2>7, <2>8
<1>14. ASSUME r \in Stages PROVE Facts(p, t)' /\ Locks(p, t)'
  <2>1. s.seen[r].ended => s.mine[r].ended /\ Found(p, r).ended
    BY <1>1, <1>14 DEF Facts
  <2>2. /\ s.mine[r].ended => row.ended
        /\ db[r].ended => row.ended
    <3>1. s.mine[r].ended \in BOOLEAN /\ s.seen[r].ended \in BOOLEAN
      BY <1>1, <1>14 DEF Images, StageRec
    <3>2. db[r].ended => Found(p, r).ended
      BY <1>1, <1>14 DEF Locks, Found
    <3> QED BY <1>8, <1>14, <2>1, <3>1, <3>2
  <2>3. \A c : Reaches(s, c) <=> Reaches(t, c)'
    BY <1>3, <1>6 DEF Reaches
  <2>4. Facts(p, t)'
    <3>1. \A v \in Row : holder'[v] = p => v \in t.loaded
      BY <1>1, <1>6, <1>10 DEF Facts
    <3>2. \A i \in Stages : i \in t.loaded /\ t.seen[i].ended => t.mine[i].ended /\ Found(p, i)'.ended
      BY <1>1, <1>6, <1>10, <1>12, <1>14, <2>1, <2>2, RowFacts DEF Facts
    <3>3. r # Rfq /\ Rfq \in Row /\ t.seen[Rfq] = s.seen[Rfq] /\ Found(p, Rfq)' = Found(p, Rfq)
      BY <1>6, <1>10, <1>12, <1>14, RowFacts
    <3>4. Rfq \in t.loaded =>
              /\ Decided(t.seen[Rfq]) => Decided(Found(p, Rfq)')
              /\ Decided(t.mine[Rfq]) \/ t.mine[Rfq].status = t.seen[Rfq].status
              /\ LooksOpen(t.mine[Rfq])
              /\ Reaches(t, t.mine[Rfq].current)'
      BY <1>1, <1>6, <2>3, <3>3 DEF Facts
    <3> QED BY <3>1, <3>2, <3>4 DEF Facts, Decided
  <2>5. Locks(p, t)'
    BY <1>1, <1>3, <1>10, <1>14, <2>2, <2>3, RowFacts DEF Locks, Decided, LooksOpen
  <2> QED BY <2>4, <2>5
<1>15. Flushed(t)' /\ Purpose(t)'
  <2>1. t.todo \subseteq t.loaded
    BY <1>1, <1>6 DEF Flushed
  <2>2. \A v \in t.loaded \ t.todo : t.mine[v] = t.seen[v]
    BY <1>1, <1>6, <1>10 DEF Flushed, Sessions
  <2>3. Purpose(t)
    BY <1>1, <1>6 DEF Purpose
  <2> QED BY <1>3, <2>1, <2>2, <2>3 DEF Flushed, Purpose
<1>16. Session(p, tx[p])'
  <2>1. Session(p, t)'
    BY <1>13, <1>14, <1>15, RowFacts DEF Session
  <2> QED BY <1>9, <2>1 DEF Session, Facts, Flushed, Purpose, Locks, Found, Reaches
<1>17. (OpenRfqLooksOpen /\ NothingSkipped /\ AnnouncedOnlyCommitted)'
  BY <1>3 DEF IInv, OpenRfqLooksOpen, NothingSkipped, AnnouncedOnlyCommitted
<1> QED BY <1>9, <1>11, <1>16, <1>17 DEF IInv

\* What an event tells is so of the given rows.
True(e, rows) == /\ e.type = "rfq.status_changed" => e.to \in TerminalStatuses /\ Decided(rows[Rfq])
                 /\ e.type = "stage.advanced" => rows[e.stage].ended

LEMMA HeardKinds ==
    ASSUME NEW e \in Heard
    PROVE  e.type = "rfq.status_changed" \/ (e.type = "stage.advanced" /\ e.stage \in Stages)
BY DEF Heard

LEMMA TrueEvents ==
    ASSUME events \in Seq(Heard)
    PROVE  AnnouncedOnlyCommitted <=> \A k \in DOMAIN events : True(events[k], db)
<1>1. \A k \in DOMAIN events : events[k] \in Heard
  OBVIOUS
<1> QED BY <1>1, HeardKinds DEF AnnouncedOnlyCommitted, True, Decided

LEMMA TrueEventsNext ==
    ASSUME events' \in Seq(Heard), \A k \in DOMAIN events' : True(events'[k], db')
    PROVE  AnnouncedOnlyCommitted'
<1>1. \A k \in DOMAIN events' : events'[k] \in Heard
  OBVIOUS
<1> QED BY <1>1, HeardKinds DEF AnnouncedOnlyCommitted, True, Decided

LEMMA CommitStep ==
    ASSUME IInv, NEW p \in Requests, Commit(p)
    PROVE  IInv' /\ (Decided(db[Rfq]) => Decided(db'[Rfq]))
<1> PICK s : s = tx[p]
  OBVIOUS
<1>1. /\ s \in Sessions /\ Facts(p, s) /\ Flushed(s) /\ Purpose(s) /\ Locks(p, s)
      /\ s.pc = "commit" /\ s.todo = {}
  BY SessionAt DEF Commit, At
<1>2. /\ \A r \in Row : db'[r] = Found(p, r)
      /\ db' = [r \in Row |-> Found(p, r)]
      /\ \A r \in Row : holder'[r] = IF holder[r] = p THEN Nobody ELSE holder[r]
      /\ \A r \in Row : version'[r] = IF holder[r] = p THEN InitialRow(r) ELSE version[r]
      /\ events' = events
  BY DEF Commit, Released, Forgotten, Found
<1>3. PICK t \in Sessions :
         /\ t = IF s.ask.op = "block" THEN Done
                ELSE [NoSession EXCEPT !.pc = "announce", !.ask = s.ask, !.was = s.was]
         /\ t.loaded = {} /\ t.todo = {}
         /\ s.ask.op = "block" => t.pc = "done"
         /\ s.ask.op # "block" => t.pc = "announce" /\ t.ask = s.ask
  <2>1. CASE s.ask.op = "block"
    BY <2>1, InitialTypes DEF Done, NoSession
  <2>2. CASE s.ask.op # "block"
    <3>1. PICK u : u = [NoSession EXCEPT !.pc = "announce", !.ask = s.ask, !.was = s.was]
      OBVIOUS
    <3>2. /\ u \in Sessions /\ u.loaded = NoSession.loaded /\ u.todo = NoSession.todo
          /\ u.pc = "announce" /\ u.ask = s.ask
      BY <1>1, <3>1, InitialTypes DEF Sessions, Points
    <3>3. NoSession.loaded = {} /\ NoSession.todo = {}
      BY DEF NoSession
    <3> QED BY <2>2, <3>1, <3>2, <3>3
  <2> QED BY <2>1, <2>2
<1>4. tx' = [tx EXCEPT ![p] = t]
  BY <1>3 DEF Commit
<1>5. Types' /\ tx'[p] = t
  <2>1. db' \in Images
    BY <1>2, RowFacts DEF Found, IInv, Types, Images
  <2>2. version' \in Images
    <3>1. version \in Images /\ \A r \in Row : InitialRow(r) = InitialRows[r]
      BY DEF IInv, Types, InitialRows
    <3> QED BY <1>2, <3>1, InitialTypes, RowFacts DEF Commit, Forgotten, Images
  <2>3. holder' \in [Row -> Requests \cup {Nobody}]
    BY DEF Commit, Released, IInv, Types
  <2> QED BY <1>2, <1>4, <2>1, <2>2, <2>3 DEF IInv, Types
<1>6. Forward
  BY <1>1, <1>2, RowFacts DEF Forward, Locks, Found
<1>7. \A q \in Requests \ {p} : Session(q, tx[q])'
  <2>1. \A q \in Requests \ {p} : tx'[q] = tx[q]
    BY <1>4 DEF IInv, Types
  <2>2. ASSUME NEW q \in Requests \ {p}
        PROVE  /\ \A r \in Row : holder'[r] = q <=> holder[r] = q
               /\ \A r \in Row : holder[r] = q => version'[r] = version[r] /\ db'[r] = db[r]
    BY <1>2 DEF Found
  <2> QED BY <1>6, <2>1, <2>2, OthersKeep
<1>8. /\ s.ask.op = "advance" => Found(p, s.ask.stage).ended
      /\ Decides(s.ask) => Decided(Found(p, Rfq))
  <2>1. s.ask.stage \in Stages
    BY <1>1 DEF Sessions
  <2> QED BY <1>1, <2>1 DEF Purpose, Facts, Flushed, Decided
<1>9. Session(p, tx[p])'
  <2>1. s.ask.stage \in Stages
    BY <1>1 DEF Sessions
  <2>2. Purpose(t)'
    BY <1>2, <1>3, <1>8, <2>1, RowFacts DEF Purpose, Decided
  <2>3. Session(p, t)'
    BY <1>2, <1>3, <2>2, RowFacts DEF Session, Facts, Flushed, Locks
  <2> QED BY <1>5, <2>3 DEF Session, Facts, Flushed, Purpose, Locks, Found, Reaches
<1>10. OpenRfqLooksOpen'
  BY <1>1, <1>2, RowFacts DEF OpenRfqLooksOpen, IInv, Locks, Found, LooksOpen
<1>11. NothingSkipped'
  <2>1. Reaches(s, Found(p, Rfq).current)
    BY <1>1 DEF Locks, Found, IInv, NothingSkipped, Reaches
  <2> QED BY <1>2, <1>6, <1>8, <2>1, RowFacts DEF NothingSkipped, Reaches, Forward
<1>12. AnnouncedOnlyCommitted'
  <2>1. \A e \in Heard : True(e, db) => True(e, db')
    BY <1>6, HeardKinds DEF True, Forward
  <2>2. events \in Seq(Heard) /\ \A k \in DOMAIN events : events[k] \in Heard /\ True(events[k], db)
    BY TrueEvents DEF IInv, Types
  <2> QED BY <1>2, <2>1, <2>2, TrueEventsNext
<1> QED BY <1>5, <1>6, <1>7, <1>9, <1>10, <1>11, <1>12 DEF IInv, Forward

LEMMA AnnounceStep == ASSUME IInv, NEW p \in Requests, Announce(p) PROVE IInv'
<1> PICK s : s = tx[p]
  OBVIOUS
<1>1. /\ s \in Sessions /\ Facts(p, s) /\ Purpose(s) /\ s.pc = "announce" /\ s.loaded = {}
      /\ s.ask.stage \in Stages /\ s.was \in RfqStatuses /\ s.ask.op \in Ops
  BY SessionAt DEF Announce, At, Purpose, Sessions
<1>2. PICK reached \in Delivered(Publications(p)) : events' = events \o reached
  BY DEF Announce
<1>3. ASSUME Decides(s.ask)
      PROVE  LET e == StatusChanged(s.was, db[Rfq].status) IN e \in Heard /\ True(e, db)
  <2>1. db[Rfq].status \in RfqStatuses
    BY DEF IInv, Types, Images, RfqRow
  <2> QED BY <1>1, <1>3, <2>1 DEF Purpose, Decided, StatusChanged, Heard, True
<1>4. ASSUME s.ask.op = "advance"
      PROVE  LET e == StageAdvanced(s.ask.stage) IN e \in Heard /\ True(e, db)
  BY <1>1, <1>4 DEF Purpose, StageAdvanced, Heard, True
<1>5. Publications(p) \in Seq(Heard) /\ \A k \in 1..Len(Publications(p)) : True(Publications(p)[k], db)
  <2> PICK change : change = StatusChanged(s.was, db[Rfq].status)
    OBVIOUS
  <2> PICK advanced : advanced = StageAdvanced(s.ask.stage)
    OBVIOUS
  <2>1. s.ask.op \in {"cancel", "no_go", "advance"}
    BY <1>1 DEF Purpose, Ops
  <2>2. CASE s.ask.op # "advance"
    <3>1. Publications(p) \in {<<>>, <<change>>}
      BY <2>1, <2>2 DEF Publications
    <3>2. change \in Heard /\ True(change, db)
      BY <1>3, <2>1, <2>2 DEF Decides
    <3>3. CASE Publications(p) = <<>>
      BY <3>3
    <3>4. CASE Publications(p) = <<change>>
      BY <3>2, <3>4
    <3> QED BY <3>1, <3>3, <3>4
  <2>3. CASE s.ask.op = "advance"
    <3>1. Publications(p) = IF s.ask.stage = Size THEN <<change, advanced>> ELSE <<advanced>>
      BY <2>3 DEF Publications
    <3>2. advanced \in Heard /\ True(advanced, db)
      BY <1>4, <2>3
    <3>3. s.ask.stage = Size => change \in Heard /\ True(change, db)
      BY <1>3, <2>3 DEF Decides
    <3> QED BY <3>1, <3>2, <3>3
  <2> QED BY <2>2, <2>3
<1>6. reached \in Seq(Heard) /\ \A k \in 1..Len(reached) : True(reached[k], db)
  <2>1. CASE reached = <<>>
    BY <2>1
  <2>2. CASE reached = Publications(p)
    BY <1>5, <2>2
  <2>3. CASE \E k \in DOMAIN Publications(p) : reached = <<Publications(p)[k]>>
    <3>1. PICK k \in 1..Len(Publications(p)) : reached = <<Publications(p)[k]>>
      BY <1>5, <2>3
    <3>2. Publications(p)[k] \in Heard /\ True(Publications(p)[k], db)
      BY <1>5
    <3> QED BY <3>1, <3>2
  <2> QED BY <2>1, <2>2, <2>3 DEF Delivered
<1>7. UNCHANGED <<db, holder, version>> /\ tx' = [tx EXCEPT ![p] = Done]
  BY DEF Announce
<1>8. Types' /\ tx'[p] = Done
  <2>1. events' \in Seq(Heard)
    BY <1>2, <1>6 DEF IInv, Types
  <2> QED BY <1>7, <2>1, InitialTypes DEF IInv, Types
<1>9. \A q \in Requests \ {p} : Session(q, tx[q])'
  <2>1. \A q \in Requests \ {p} : tx'[q] = tx[q]
    BY <1>7 DEF IInv, Types
  <2>2. Forward
    BY <1>7 DEF Forward
  <2> QED BY <1>7, <2>1, <2>2, OthersKeep
<1>10. Session(p, tx[p])'
  <2>1. Done.pc = "done" /\ Done.loaded = {} /\ Done.todo = {}
    BY DEF Done, NoSession
  <2> QED BY <1>1, <1>7, <1>8, <2>1, RowFacts DEF Session, Facts, Flushed, Purpose, Locks
<1>11. AnnouncedOnlyCommitted'
  <2>1. events \in Seq(Heard) /\ \A k \in 1..Len(events) : True(events[k], db)
    BY TrueEvents DEF IInv, Types
  <2>2. events' \in Seq(Heard) /\ \A k \in DOMAIN events' : True(events'[k], db)
    BY <1>2, <1>6, <2>1
  <2> QED BY <1>7, <2>2, TrueEventsNext
<1>12. (OpenRfqLooksOpen /\ NothingSkipped)'
  BY <1>7 DEF IInv, OpenRfqLooksOpen, NothingSkipped
<1> QED BY <1>8, <1>9, <1>10, <1>11, <1>12 DEF IInv

LEMMA IInvStep == ASSUME IInv, [Next]_vars PROVE IInv'
<1>1. ASSUME NEW p \in Requests, Start(p) \/ Work(p) \/ Die(p) PROVE IInv'
  <2>1. CASE Start(p)
    BY <2>1, StartStep
  <2>2. CASE Work(p)
    BY <2>2, LoadStageStep, LoadRfqStep, CompleteStageStep, StartNextStep, CountProgressStep,
       DecideOutcomeStep, FreezeStep, UpdateStep, CommitStep, AnnounceStep, RolledBackStep
       DEF Work, DeadlockVictim
  <2>3. CASE Die(p)
    BY <2>3, RolledBackStep DEF Die
  <2> QED BY <1>1, <2>1, <2>2, <2>3
<1>2. CASE UNCHANGED vars
  <2>1. UNCHANGED <<db, holder, version, tx, events>>
    BY <1>2 DEF vars
  <2>2. Types' /\ Forward
    BY <2>1 DEF IInv, Types, Forward
  <2>3. ASSUME NEW q \in Requests PROVE Session(q, tx[q])'
    <3>1. Session(q, tx[q])
      BY DEF IInv
    <3> QED BY <2>1, <3>1 DEF Session, Facts, Flushed, Purpose, Locks, Found, Reaches
  <2>4. (OpenRfqLooksOpen /\ NothingSkipped /\ AnnouncedOnlyCommitted)'
    BY <2>1 DEF IInv, OpenRfqLooksOpen, NothingSkipped, AnnouncedOnlyCommitted
  <2> QED BY <2>2, <2>3, <2>4 DEF IInv
<1> QED BY <1>1, <1>2 DEF Next

LEMMA Invariance == Spec => []IInv
<1>1. IInv /\ [Next]_vars => IInv'
  BY IInvStep
<1> QED BY <1>1, IInvInit, PTL DEF Spec

\* An RFQ in preparation looks like one, however its requests overlap.
THEOREM LooksOpenAlways == Spec => []OpenRfqLooksOpen
<1>1. IInv => OpenRfqLooksOpen
  BY DEF IInv
<1> QED BY <1>1, Invariance, PTL

\* Every stage before the current one has been completed, however many stale
\* advances there are.
THEOREM NothingIsSkipped == Spec => []NothingSkipped
<1>1. IInv => NothingSkipped
  BY DEF IInv
<1> QED BY <1>1, Invariance, PTL

\* The bus hears of what has been committed and will not be undone.
THEOREM AnnouncedIsTrue == Spec => []AnnouncedOnlyCommitted
<1>1. IInv => AnnouncedOnlyCommitted
  BY DEF IInv
<1> QED BY <1>1, Invariance, PTL

\* No request, however stale what it read, reopens a decided RFQ.
THEOREM DecisionsLast == Spec => DecidedStaysDecided
<1>1. ASSUME IInv, Next PROVE Decided(db[Rfq]) => Decided(db'[Rfq])
  <2>1. PICK p \in Requests : Start(p) \/ Work(p) \/ Die(p)
    BY <1>1 DEF Next
  <2>2. CASE Commit(p)
    BY <1>1, <2>2, CommitStep
  <2>3. CASE ~ Commit(p)
    <3>1. UNCHANGED db
      <4>1. CASE Start(p) \/ LoadStage(p) \/ CompleteStage(p) \/ StartNext(p) \/ CountProgress(p) \/ Freeze(p)
        BY <4>1 DEF Start, LoadStage, CompleteStage, StartNext, CountProgress, Freeze, Becomes
      <4>2. CASE LoadRfq(p) \/ DecideOutcome(p) \/ DeadlockVictim(p) \/ Die(p) \/ Announce(p)
        BY <4>2 DEF LoadRfq, DecideOutcome, DeadlockVictim, Die, Announce, RolledBack, Becomes
      <4>3. CASE \E r \in Row : Update(p, r)
        BY <4>3 DEF Update
      <4> QED BY <2>1, <2>3, <4>1, <4>2, <4>3 DEF Work
    <3> QED BY <3>1
  <2> QED BY <2>2, <2>3
<1>2. IInv /\ [Next]_vars => [db[Rfq].status \in TerminalStatuses => db'[Rfq].status \in TerminalStatuses]_vars
  BY <1>1 DEF Decided
<1> QED BY <1>2, Invariance, PTL DEF Spec, DecidedStaysDecided

-----------------------------------------------------------------------------
(* Requests whose transactions do not overlap.  What the documentation says *)
(* of decided RFQs is broken by overlap only: no sequence of requests, each *)
(* begun after the transaction of the last has ended, changes one.          *)

InTransaction(s) == s.pc \notin {"idle", "announce", "done"}

OneAtATime ==
    \A p, q \in Requests : InTransaction(tx[p]) /\ InTransaction(tx[q]) => p = q

Closed(row) == Decided(row) => row.current = NoStage

\* A request that has the RFQ found it open, and what it has read is stored.
OnRfq(p, s) ==
    /\ ~ Decided(db[Rfq]) /\ Found(p, Rfq) = s.seen[Rfq]
    /\ Closed(s.seen[Rfq]) /\ Closed(s.mine[Rfq])
    /\ s.pc # "commit" => ~ Decided(s.mine[Rfq])

\* A PATCH leaves the statuses of stages alone.
OnStage(p, s) ==
    /\ s.pc \in {"stage", "commit"}
    /\ \A i \in Stages : i \in s.loaded =>
          s.mine[i].status = s.seen[i].status /\ Found(p, i).status = db[i].status

Serial(p, s) ==
    /\ s.pc \in {"stage", "rfq"} \/ s.ask.op = "block" => Rfq \notin s.loaded
    /\ s.pc \notin {"stage", "rfq"} /\ s.ask.op # "block" => Rfq \in s.loaded
    /\ Rfq \in s.loaded => OnRfq(p, s)
    /\ s.ask.op = "block" => OnStage(p, s)

SerialInv ==
    /\ Closed(db[Rfq])
    /\ \A p \in Requests : InTransaction(tx[p]) => Serial(p, tx[p])

LEMMA SerialInit == ASSUME Init PROVE SerialInv
<1>1. db[Rfq].status = "InPreparation"
  BY RowFacts DEF Init, InitialRows, InitialRow
<1>2. \A p \in Requests : tx[p].pc = "idle"
  BY DEF Init, NoSession
<1> QED BY <1>1, <1>2 DEF SerialInv, Closed, Decided, TerminalStatuses, InTransaction

LEMMA SelectRows ==
    ASSUME IInv, NEW s \in Sessions, NEW rows \in SUBSET Row
    PROVE  LET u == Select(s, rows) IN
           /\ u \in Sessions /\ u.pc = s.pc /\ u.ask = s.ask /\ u.loaded = s.loaded \cup rows
           /\ \A r \in s.loaded : u.mine[r] = s.mine[r] /\ u.seen[r] = s.seen[r]
           /\ \A r \in rows \ s.loaded : u.mine[r] = db[r] /\ u.seen[r] = db[r]
<1> PICK u : u = Select(s, rows)
  OBVIOUS
<1> DEFINE fresh == rows \ s.loaded
           seen == [r \in Row |-> IF r \in fresh THEN db[r] ELSE s.seen[r]]
           mine == [r \in Row |-> IF r \in fresh THEN db[r] ELSE s.mine[r]]
<1>1. u = [s EXCEPT !.loaded = s.loaded \cup rows, !.seen = seen, !.mine = mine]
  BY DEF Select
<1>2. seen \in Images /\ mine \in Images
  <2>1. db \in Images /\ s.seen \in Images /\ s.mine \in Images
    BY DEF IInv, Types, Sessions
  <2>2. ASSUME NEW a \in Images
        PROVE  [r \in Row |-> IF r \in fresh THEN db[r] ELSE a[r]] \in Images
    BY <2>1, RowFacts DEF Images
  <2> QED BY <2>1, <2>2
<1>3. \A r \in s.loaded : r \in Row
  BY DEF Sessions
<1>4. /\ \A r \in s.loaded : mine[r] = s.mine[r] /\ seen[r] = s.seen[r]
      /\ \A r \in fresh : mine[r] = db[r] /\ seen[r] = db[r]
  BY <1>3
<1> HIDE DEF seen, mine
<1>5. /\ u \in Sessions /\ u.pc = s.pc /\ u.ask = s.ask /\ u.loaded = s.loaded \cup rows
      /\ u.seen = seen /\ u.mine = mine
  BY <1>1, <1>2 DEF Sessions
<1> QED BY <1>4, <1>5

\* A step in the session of p.
LEMMA SerialSession ==
    ASSUME IInv, SerialInv, NEW p \in Requests, NEW t, tx' = [tx EXCEPT ![p] = t],
           UNCHANGED <<db, holder, version>>, InTransaction(t) => Serial(p, t)
    PROVE  SerialInv'
<1>1. tx'[p] = t /\ \A q \in Requests \ {p} : tx'[q] = tx[q]
  BY DEF IInv, Types
<1>2. Closed(db[Rfq])'
  BY DEF SerialInv, Closed, Decided
<1>3. \A q, s : Serial(q, s) => Serial(q, s)'
  BY DEF Serial, OnRfq, OnStage, Found, Closed, Decided
<1> QED BY <1>1, <1>2, <1>3 DEF SerialInv, InTransaction

LEMMA SerialRolledBack ==
    ASSUME IInv, SerialInv, NEW p \in Requests, RolledBack(p)
    PROVE  SerialInv'
<1>1. tx'[p] = Done /\ (\A q \in Requests \ {p} : tx'[q] = tx[q]) /\ db' = db
  BY DEF RolledBack, IInv, Types
<1>2. \A q \in Requests \ {p}, r \in Row : Found(q, r)' = Found(q, r)
  BY DEF RolledBack, Released, Forgotten, Found
<1>3. ASSUME NEW q \in Requests, InTransaction(tx'[q]) PROVE Serial(q, tx[q])'
  <2>1. q # p /\ tx'[q] = tx[q]
    BY <1>1, <1>3 DEF InTransaction, Done, NoSession
  <2>2. Serial(q, tx[q])
    BY <1>3, <2>1 DEF SerialInv
  <2> QED BY <1>1, <1>2, <2>1, <2>2, RowFacts DEF Serial, OnRfq, OnStage, Closed, Decided
<1>4. Closed(db[Rfq])'
  BY <1>1 DEF SerialInv, Closed, Decided
<1> QED BY <1>3, <1>4 DEF SerialInv, InTransaction

LEMMA SerialStart == ASSUME IInv, SerialInv, NEW p \in Requests, Start(p) PROVE SerialInv'
<1>1. PICK ask \in Kinds :
         Becomes(p, [tx[p] EXCEPT !.ask = ask, !.pc = IF ask.op = "cancel" THEN "rfq" ELSE "stage"])
  BY DEF Start
<1>2. PICK t : t = [tx[p] EXCEPT !.ask = ask, !.pc = IF ask.op = "cancel" THEN "rfq" ELSE "stage"]
  OBVIOUS
<1>3. tx[p].pc = "idle" /\ tx[p].loaded = {} /\ tx[p] \in Sessions
  BY SessionAt DEF Start, At, Purpose
<1>4. t.pc \in {"stage", "rfq"} /\ (ask.op # "cancel" => t.pc = "stage") /\ t.ask = ask /\ t.loaded = {}
  BY <1>2, <1>3 DEF Sessions
<1>5. Serial(p, t)
  BY <1>4 DEF Serial, OnStage
<1> QED BY <1>1, <1>2, <1>5, SerialSession DEF Becomes

LEMMA SerialLoadStage == ASSUME IInv, SerialInv, NEW p \in Requests, LoadStage(p) PROVE SerialInv'
<1> PICK k \in Stages : k = tx[p].ask.stage
  BY SessionAt
<1> PICK u : u = Select(tx[p], {k})
  OBVIOUS
<1>1. k \in Row /\ k # Rfq
  BY RowFacts
<1>2. tx[p].loaded = {} /\ \A r \in Row : holder[r] # p
  BY SessionAt DEF LoadStage, At, Purpose, Facts
<1>3. /\ u \in Sessions /\ u.ask = tx[p].ask /\ u.loaded = {k} /\ u.mine \in Images
      /\ u.mine[k] = db[k] /\ u.seen[k] = db[k]
  <2>1. {k} \in SUBSET Row
    BY <1>1
  <2>2. tx[p] \in Sessions
    BY SessionAt
  <2>3. u \in Sessions /\ u.ask = tx[p].ask /\ u.loaded = {k}
    BY <1>2, <2>1, <2>2, SelectRows
  <2>4. u.mine[k] = db[k] /\ u.seen[k] = db[k]
    <3>1. k \in {k} \ tx[p].loaded
      BY <1>2
    <3>2. \A r \in {k} \ tx[p].loaded : u.mine[r] = db[r] /\ u.seen[r] = db[r]
      BY <2>1, <2>2, SelectRows
    <3> QED BY <3>1, <3>2
  <2> QED BY <2>3, <2>4 DEF Sessions
<1>4. CASE u.ask.op = "block"
  <2>1. PICK m : m = [u.mine EXCEPT ![k].blocked = TRUE]
    OBVIOUS
  <2>2. m[k].status = u.mine[k].status
    <3>1. u.mine[k] \in StageRec
      BY <1>3 DEF Images
    <3>2. m[k] = [u.mine[k] EXCEPT !.blocked = TRUE]
      BY <1>1, <1>3, <2>1 DEF Images
    <3> QED BY <3>1, <3>2 DEF StageRec
  <2>3. PICK t : t = Flush([u EXCEPT !.mine = m], "commit")
    OBVIOUS
  <2>4. Becomes(p, t)
    BY <1>4, <2>1, <2>3 DEF LoadStage
  <2>5. t.pc = "commit" /\ t.ask = u.ask /\ t.loaded = {k} /\ t.mine = m /\ t.seen = u.seen
    BY <1>3, <2>3 DEF Flush, Sessions
  <2>6. Found(p, k) = db[k]
    BY <1>1, <1>2 DEF Found
  <2>7. Serial(p, t)
    BY <1>1, <1>3, <1>4, <2>2, <2>5, <2>6 DEF Serial, OnStage
  <2> QED BY <2>4, <2>7, SerialSession DEF Becomes
<1>5. CASE u.ask.op # "block"
  <2>1. PICK t : t = [u EXCEPT !.pc = "rfq"]
    OBVIOUS
  <2>2. Becomes(p, t)
    BY <1>5, <2>1 DEF LoadStage
  <2>3. t.pc = "rfq" /\ t.ask = u.ask /\ t.loaded = {k}
    BY <1>3, <2>1 DEF Sessions
  <2>4. Serial(p, t)
    BY <1>1, <1>5, <2>3 DEF Serial
  <2> QED BY <2>2, <2>4, SerialSession DEF Becomes
<1> QED BY <1>4, <1>5

\* The checks of cancel() and advance() turn a decided RFQ away, the latter
\* only because it has no current stage any more.
LEMMA OnlyOpenProceeds ==
    ASSUME NEW s \in Sessions, MayProceed(s), Closed(s.mine[Rfq])
    PROVE  ~ Decided(s.mine[Rfq])
<1>1. s.ask.stage \in Stages /\ s.mine[Rfq].status \in RfqStatuses
  BY RowFacts DEF Sessions, Images, RfqRow
<1>2. CASE s.ask.op = "cancel"
  BY <1>1, <1>2 DEF MayProceed, MayCancel, ValidTransition, ValidTransitions, RfqStatuses,
                    TerminalStatuses, Decided
<1>3. CASE s.ask.op # "cancel"
  BY <1>1, <1>3 DEF MayProceed, Closed, NoStage, Stages
<1> QED BY <1>2, <1>3

LEMMA SerialLoadRfq == ASSUME IInv, SerialInv, NEW p \in Requests, LoadRfq(p) PROVE SerialInv'
<1> PICK u : u = Select(tx[p], {Rfq})
  OBVIOUS
<1>1. Serial(p, tx[p]) /\ tx[p].pc = "rfq"
  BY DEF LoadRfq, At, SerialInv, InTransaction
<1>2. Rfq \notin tx[p].loaded /\ tx[p].ask.op # "block" /\ Found(p, Rfq) = db[Rfq]
  BY <1>1, SessionAt, RowFacts DEF Serial, OnStage, Facts, Found
<1>3. /\ u \in Sessions /\ u.ask = tx[p].ask /\ u.loaded = tx[p].loaded \cup {Rfq}
      /\ u.mine[Rfq] = db[Rfq] /\ u.seen[Rfq] = db[Rfq]
  BY <1>2, SessionAt, SelectRows, RowFacts
<1>4. CASE ~ MayProceed(u)
  BY <1>4, SerialRolledBack DEF LoadRfq
<1>5. CASE MayProceed(u)
  <2>1. PICK t : t = [u EXCEPT !.was = u.mine[Rfq].status,
                               !.pc  = IF u.ask.op = "advance" THEN "next" ELSE "freeze"]
    OBVIOUS
  <2>2. Becomes(p, t)
    BY <1>5, <2>1 DEF LoadRfq
  <2>3. /\ t.pc \in {"next", "freeze"} /\ t.ask = u.ask /\ t.loaded = u.loaded
        /\ t.mine = u.mine /\ t.seen = u.seen
    BY <1>3, <2>1 DEF Sessions
  <2>4. Closed(db[Rfq]) /\ ~ Decided(db[Rfq])
    BY <1>3, <1>5, OnlyOpenProceeds DEF SerialInv
  <2>5. Serial(p, t)
    BY <1>2, <1>3, <2>3, <2>4 DEF Serial, OnRfq
  <2> QED BY <2>2, <2>5, SerialSession DEF Becomes
<1> QED BY <1>4, <1>5

\* A step of a request that has the RFQ: it either leaves the RFQ open in its
\* copy, or closes it and is ready to commit.
LEMMA SerialWork ==
    ASSUME IInv, SerialInv, NEW p \in Requests, InTransaction(tx[p]), tx[p].ask.op # "block",
           NEW rows \in SUBSET Stages, NEW m, NEW next \in Points \ {"stage", "rfq"},
           Rfq \in tx[p].loaded,
           Becomes(p, Flush([Select(tx[p], rows) EXCEPT !.mine = m], next)),
           Closed(m[Rfq]), next # "commit" => ~ Decided(m[Rfq])
    PROVE  SerialInv'
<1> PICK u : u = Select(tx[p], rows)
  OBVIOUS
<1>1. /\ u \in Sessions /\ u.ask = tx[p].ask /\ Rfq \in u.loaded /\ u.seen[Rfq] = tx[p].seen[Rfq]
  <2>1. rows \subseteq Row
    BY RowFacts
  <2> QED BY <2>1, SessionAt, SelectRows
<1>2. PICK t : t = Flush([u EXCEPT !.mine = m], next)
  OBVIOUS
<1>3. t.pc = next /\ t.ask = u.ask /\ t.loaded = u.loaded /\ t.mine = m /\ t.seen = u.seen
  BY <1>1, <1>2 DEF Flush, Sessions
<1>4. OnRfq(p, tx[p])
  BY DEF SerialInv, Serial
<1>5. Serial(p, t)
  BY <1>1, <1>3, <1>4 DEF Serial, OnRfq
<1> QED BY <1>2, <1>5, SerialSession DEF Becomes

LEMMA SerialCompleteStage == ASSUME IInv, SerialInv, NEW p \in Requests, CompleteStage(p) PROVE SerialInv'
<1> PICK k \in Stages : k = tx[p].ask.stage
  BY SessionAt
<1>1. k \in Row /\ k # Rfq /\ {k + 1} \in SUBSET Stages
  BY RowFacts DEF CompleteStage, Stages
<1>2. tx[p].pc = "next" /\ InTransaction(tx[p]) /\ tx[p].ask.op = "advance" /\ Rfq \in tx[p].loaded
  BY SessionAt DEF CompleteStage, At, Purpose, InTransaction
<1>3. ~ Decided(tx[p].mine[Rfq]) /\ Closed(tx[p].mine[Rfq])
  BY <1>2 DEF SerialInv, Serial, OnRfq
<1>4. PICK u \in Sessions : u = Select(tx[p], {k + 1}) /\ u.mine[Rfq] = tx[p].mine[Rfq]
  <2>1. {k + 1} \subseteq Row
    BY <1>1, RowFacts
  <2> QED BY <1>2, <2>1, SessionAt, SelectRows
<1>5. PICK m : m = [u.mine EXCEPT ![k] = Completed(@)]
  OBVIOUS
<1>6. m[Rfq] = tx[p].mine[Rfq]
  BY <1>1, <1>4, <1>5, RowFacts DEF Sessions, Images
<1>7. Becomes(p, Flush([Select(tx[p], {k + 1}) EXCEPT !.mine = m], "completed"))
  BY <1>4, <1>5 DEF CompleteStage
<1> QED BY <1>1, <1>2, <1>3, <1>6, <1>7, SerialWork DEF Points

LEMMA SelectNothing ==
    ASSUME NEW s \in Sessions
    PROVE  Select(s, {}) = s
<1>1. /\ s.seen = [r \in Row |-> s.seen[r]] /\ s.mine = [r \in Row |-> s.mine[r]]
      /\ s.loaded = s.loaded \cup {}
  BY DEF Sessions, Images
<1>2. [s EXCEPT !.loaded = s.loaded, !.seen = s.seen, !.mine = s.mine] = s
  BY DEF Sessions
<1> QED BY <1>1, <1>2 DEF Select

LEMMA SerialStartNext == ASSUME IInv, SerialInv, NEW p \in Requests, StartNext(p) PROVE SerialInv'
<1> PICK u \in Sessions : u = tx[p] /\ Select(tx[p], {}) = u
  BY SessionAt, SelectNothing
<1> PICK k : k = u.ask.stage + 1
  OBVIOUS
<1>1. u.pc = "completed" /\ InTransaction(u) /\ u.ask.op = "advance" /\ Rfq \in u.loaded /\ k \in Row /\ k # Rfq
  <2>1. u.pc = "completed"
    BY DEF StartNext, At
  <2>2. u.ask.op = "advance" /\ u.ask.stage < Size /\ Rfq \in u.loaded
    BY <2>1, SessionAt DEF Purpose
  <2>3. u.ask.stage \in Stages
    BY SessionAt
  <2>4. k \in Stages
    BY <2>2, <2>3, SizeAssumption DEF Stages
  <2> QED BY <2>1, <2>2, <2>4, RowFacts DEF InTransaction
<1>2. ~ Decided(u.mine[Rfq])
  BY <1>1 DEF SerialInv, Serial, OnRfq
<1>3. PICK m : m = [u.mine EXCEPT ![k] = Started(@), ![Rfq].current = k]
  OBVIOUS
<1>4. m[Rfq] = [u.mine[Rfq] EXCEPT !.current = k]
  BY <1>1, <1>3, RowFacts DEF Sessions, Images
<1>5. m[Rfq].status = u.mine[Rfq].status
  BY <1>4, RowFacts DEF Sessions, Images, RfqRow
<1>6. Becomes(p, Flush([Select(tx[p], {}) EXCEPT !.mine = m], "started"))
  BY <1>3 DEF StartNext
<1> QED BY <1>1, <1>2, <1>5, <1>6, SerialWork DEF Points, Closed, Decided

LEMMA SerialCountProgress == ASSUME IInv, SerialInv, NEW p \in Requests, CountProgress(p) PROVE SerialInv'
<1>1. tx[p].pc = "started" /\ InTransaction(tx[p]) /\ tx[p].ask.op = "advance" /\ Rfq \in tx[p].loaded
  BY SessionAt DEF CountProgress, At, Purpose, InTransaction
<1>2. ~ Decided(tx[p].mine[Rfq])
  BY <1>1 DEF SerialInv, Serial, OnRfq
<1>3. PICK u \in Sessions : u = Select(tx[p], Stages) /\ u.mine[Rfq] = tx[p].mine[Rfq]
  BY <1>1, SessionAt, SelectRows, RowFacts
<1>4. PICK m : m = [u.mine EXCEPT ![Rfq].progress =
                      LifecycleProgress(StageRows(u.mine), u.mine[Rfq].status)]
  OBVIOUS
<1>5. m[Rfq].status = tx[p].mine[Rfq].status
  BY <1>3, <1>4, RowFacts DEF Sessions, Images, RfqRow
<1>6. Becomes(p, Flush([Select(tx[p], Stages) EXCEPT !.mine = m], "commit"))
  BY <1>3, <1>4 DEF CountProgress
<1> QED BY <1>1, <1>2, <1>5, <1>6, SerialWork DEF Points, Closed, Decided

LEMMA SerialDecideOutcome == ASSUME IInv, SerialInv, NEW p \in Requests, DecideOutcome(p) PROVE SerialInv'
<1> PICK u \in Sessions : u = tx[p] /\ Select(tx[p], {}) = u
  BY SessionAt, SelectNothing
<1>1. u.pc = "next" /\ InTransaction(u) /\ u.ask.op = "advance" /\ Rfq \in u.loaded
  BY SessionAt DEF DecideOutcome, At, Purpose, InTransaction
<1>2. CASE RolledBack(p)
  BY <1>2, SerialRolledBack
<1>3. CASE ~ RolledBack(p)
  <2>1. PICK decision \in {"Awarded", "Lost"} :
           Becomes(p, Flush([u EXCEPT !.mine[Size] = Completed(@),
                    !.mine[Rfq] = [status |-> decision, current |-> NoStage, progress |-> 100]], "commit"))
    BY <1>3 DEF DecideOutcome
  <2>2. PICK m : m = [u.mine EXCEPT ![Size] = Completed(@),
                        ![Rfq] = [status |-> decision, current |-> NoStage, progress |-> 100]]
    OBVIOUS
  <2>3. m[Rfq].current = NoStage
    BY <2>2, RowFacts DEF Sessions, Images
  <2>4. Becomes(p, Flush([Select(tx[p], {}) EXCEPT !.mine = m], "commit"))
    BY <2>1, <2>2
  <2> QED BY <1>1, <2>3, <2>4, SerialWork DEF Points, Closed
<1> QED BY <1>2, <1>3

LEMMA SerialFreeze == ASSUME IInv, SerialInv, NEW p \in Requests, Freeze(p) PROVE SerialInv'
<1>1. tx[p].pc = "freeze" /\ InTransaction(tx[p]) /\ Rfq \in tx[p].loaded
  BY SessionAt DEF Freeze, At, Purpose, InTransaction
<1>2. tx[p].ask.op # "block"
  BY <1>1 DEF SerialInv, Serial, OnStage
<1>3. PICK u : u = Select(tx[p], Stages)
  OBVIOUS
<1>4. PICK m : m = [r \in Row |-> IF r = Rfq THEN [status |-> "Cancelled", current |-> NoStage, progress |-> 100]
                                  ELSE FreezeStages(StageRows(u.mine), u.mine[Rfq].current)[r]]
  OBVIOUS
<1>5. m[Rfq].current = NoStage
  BY <1>4, RowFacts
<1>6. Becomes(p, Flush([Select(tx[p], Stages) EXCEPT !.mine = m], "commit"))
  BY <1>3, <1>4 DEF Freeze
<1> QED BY <1>1, <1>2, <1>5, <1>6, SerialWork DEF Points, Closed

\* The only transaction under way.
LEMMA OthersAreOut ==
    ASSUME OneAtATime, NEW p \in Requests, InTransaction(tx[p]), NEW q \in Requests, q # p
    PROVE  ~ InTransaction(tx[q])
BY DEF OneAtATime

LEMMA StatusWritten ==
    ASSUME NEW stored \in StageRec, NEW seen \in StageRec, NEW mine \in StageRec, mine.status = seen.status
    PROVE  Written(stored, seen, mine).status = stored.status
<1>1. DOMAIN stored = {"status", "started", "ended", "blocked"}
  BY DEF StageRec
<1> QED BY <1>1 DEF Written

\* Where the session holds what is stored, it is stored as the session has it.
LEMMA WholeWritten ==
    ASSUME NEW stored \in RfqRow, NEW mine \in RfqRow
    PROVE  Written(stored, stored, mine) = mine
<1>1. /\ Written(stored, stored, mine) \in RfqRow
      /\ Written(stored, stored, mine).status = mine.status
      /\ Written(stored, stored, mine).current = mine.current
      /\ Written(stored, stored, mine).progress = mine.progress
  BY WrittenRfq
<1> QED BY <1>1 DEF RfqRow

LEMMA SerialUpdate ==
    ASSUME IInv, SerialInv, OneAtATime, NEW p \in Requests, NEW r \in Row, Update(p, r)
    PROVE  SerialInv'
<1> PICK s : s = tx[p]
  OBVIOUS
<1>1. /\ s \in Sessions /\ s.mine \in Images /\ s.seen \in Images /\ r \in s.todo /\ r \in s.loaded
      /\ Purpose(s) /\ db \in Images /\ version \in Images
  BY SessionAt DEF Update, Flushed, Sessions, IInv, Types
<1>2. InTransaction(s) /\ s.pc # "stage" /\ Serial(p, s)
  BY <1>1 DEF Purpose, InTransaction, SerialInv
<1>3. PICK row : row = Written(Found(p, r), s.seen[r], s.mine[r])
  OBVIOUS
<1>4. /\ holder' = [holder EXCEPT ![r] = p] /\ version' = [version EXCEPT ![r] = row] /\ db' = db
  BY <1>3 DEF Update, Found
<1>5. Found(p, r)' = row /\ \A v \in Row \ {r} : Found(p, v)' = Found(p, v)
  BY <1>4 DEF Found, IInv, Types, Images
<1>6. PICK t : t = [s EXCEPT !.todo = @ \ {r}, !.seen[r] = s.mine[r]]
  OBVIOUS
<1>7. tx'[p] = t /\ \A q \in Requests \ {p} : tx'[q] = tx[q]
  BY <1>6 DEF Update, IInv, Types
<1>8. /\ t.pc = s.pc /\ t.ask = s.ask /\ t.loaded = s.loaded /\ t.mine = s.mine
      /\ t.seen[r] = s.mine[r] /\ \A v \in Row \ {r} : t.seen[v] = s.seen[v]
  BY <1>1, <1>6 DEF Sessions, Images
<1>9. Rfq \in t.loaded => OnRfq(p, t)'
  <2> SUFFICES ASSUME Rfq \in t.loaded PROVE OnRfq(p, t)'
    OBVIOUS
  <2>1. OnRfq(p, s)
    BY <1>2, <1>8 DEF Serial
  <2>2. CASE r = Rfq
    <3>1. Found(p, r) \in RfqRow /\ s.mine[r] \in RfqRow /\ s.seen[r] = Found(p, r)
      BY <1>1, <2>1, <2>2 DEF Images, OnRfq
    <3>2. row = s.mine[r]
      BY <1>3, <3>1, WholeWritten
    <3> QED BY <1>4, <1>5, <1>8, <2>1, <2>2, <3>2 DEF OnRfq, Closed, Decided
  <2>3. CASE r # Rfq
    BY <1>4, <1>5, <1>8, <2>1, <2>3, RowFacts DEF OnRfq, Closed, Decided
  <2> QED BY <2>2, <2>3
<1>10. t.ask.op = "block" => OnStage(p, t)'
  <2> SUFFICES ASSUME s.ask.op = "block" PROVE OnStage(p, t)'
    BY <1>8
  <2>1. OnStage(p, s) /\ Rfq \notin s.loaded
    BY <1>2 DEF Serial
  <2>2. r \in Stages /\ r # Rfq
    BY <1>1, <2>1, RowFacts
  <2>3. Found(p, r) \in StageRec /\ s.seen[r] \in StageRec /\ s.mine[r] \in StageRec
    BY <1>1, <2>2 DEF Found, Images
  <2>4. row.status = db[r].status
    BY <1>1, <1>3, <2>1, <2>2, <2>3, StatusWritten DEF OnStage
  <2>5. ASSUME NEW i \in Stages, i \in t.loaded
        PROVE  t.mine[i].status = t.seen[i].status /\ Found(p, i)'.status = db'[i].status
    <3>1. i \in Row /\ i \in s.loaded
      BY <1>8, <2>5, RowFacts
    <3>2. CASE i = r
      BY <1>4, <1>5, <1>8, <2>4, <3>2
    <3>3. CASE i # r
      BY <1>4, <1>5, <1>8, <2>1, <3>1, <3>3 DEF OnStage
    <3> QED BY <3>2, <3>3
  <2> QED BY <1>8, <2>1, <2>5 DEF OnStage
<1>11. Serial(p, t)'
  BY <1>2, <1>8, <1>9, <1>10 DEF Serial
<1>12. \A q \in Requests \ {p} : ~ InTransaction(tx[q])
  BY <1>2, OthersAreOut
<1>13. \A q \in Requests : InTransaction(tx[q])' => Serial(q, tx[q])'
  BY <1>7, <1>11, <1>12 DEF InTransaction
<1>14. Closed(db[Rfq])'
  BY <1>4 DEF SerialInv, Closed, Decided
<1> QED BY <1>13, <1>14 DEF SerialInv

\* A commit that finds the RFQ decided is one of a PATCH.
LEMMA SerialCommit ==
    ASSUME IInv, SerialInv, OneAtATime, NEW p \in Requests, Commit(p)
    PROVE  /\ SerialInv'
           /\ Decided(db[Rfq]) => db'[Rfq] = db[Rfq] /\ \A i \in Stages : db'[i].status = db[i].status
<1> PICK s : s = tx[p]
  OBVIOUS
<1>1. s \in Sessions /\ Facts(p, s) /\ s.pc = "commit" /\ InTransaction(s)
  BY SessionAt DEF Commit, At, InTransaction
<1>2. Serial(p, s)
  BY <1>1 DEF SerialInv
<1>3. \A r \in Row : db'[r] = Found(p, r) /\ (r \notin s.loaded => Found(p, r) = db[r])
  BY <1>1 DEF Commit, Found, Facts
<1>4. /\ \A q \in Requests \ {p} : tx'[q] = tx[q]
      /\ tx'[p].pc \in {"announce", "done"}
  BY DEF Commit, IInv, Types, Done, NoSession
<1>5. \A q \in Requests : ~ InTransaction(tx[q])'
  BY <1>1, <1>4, OthersAreOut DEF InTransaction
<1>6. CASE s.ask.op = "block"
  <2>1. db'[Rfq] = db[Rfq]
    BY <1>2, <1>3, <1>6, RowFacts DEF Serial
  <2>2. \A i \in Stages : db'[i].status = db[i].status
    BY <1>2, <1>3, <1>6, RowFacts DEF Serial, OnStage
  <2>3. Closed(db[Rfq])'
    BY <2>1 DEF SerialInv, Closed, Decided
  <2> QED BY <1>5, <2>1, <2>2, <2>3 DEF SerialInv
<1>7. CASE s.ask.op # "block"
  <2>1. OnRfq(p, s)
    BY <1>1, <1>2, <1>7 DEF Serial
  <2>2. Closed(db[Rfq])'
    BY <1>3, <2>1, RowFacts DEF OnRfq, Closed, Decided
  <2> QED BY <1>5, <2>1, <2>2 DEF SerialInv, OnRfq
<1> QED BY <1>6, <1>7

LEMMA SerialStep ==
    ASSUME IInv, SerialInv, OneAtATime, [Next]_vars
    PROVE  /\ SerialInv'
           /\ Decided(db[Rfq]) => db'[Rfq] = db[Rfq] /\ \A i \in Stages : db'[i].status = db[i].status
<1>1. CASE UNCHANGED vars
  BY <1>1 DEF vars, SerialInv, InTransaction, Serial, OnRfq, OnStage, Found, Closed, Decided
<1>2. CASE \E p \in Requests : Commit(p)
  BY <1>2, SerialCommit
<1>3. ASSUME NEW p \in Requests, Start(p) \/ Work(p) \/ Die(p), ~ Commit(p)
      PROVE  SerialInv' /\ db' = db
  <2>1. CASE Announce(p)
    <3>1. ~ InTransaction(Done)
      BY DEF InTransaction, Done, NoSession
    <3> QED BY <2>1, <3>1, SerialSession DEF Announce
  <2>2. CASE DeadlockVictim(p) \/ Die(p)
    BY <2>2, SerialRolledBack DEF DeadlockVictim, Die, RolledBack
  <2>3. CASE \E r \in Row : Update(p, r)
    BY <2>3, SerialUpdate DEF Update
  <2>4. CASE Start(p) \/ LoadStage(p) \/ CompleteStage(p) \/ StartNext(p) \/ CountProgress(p) \/ Freeze(p)
    BY <2>4, SerialStart, SerialLoadStage, SerialCompleteStage, SerialStartNext, SerialCountProgress,
       SerialFreeze DEF Start, LoadStage, CompleteStage, StartNext, CountProgress, Freeze, Becomes
  <2>5. CASE LoadRfq(p) \/ DecideOutcome(p)
    BY <2>5, SerialLoadRfq, SerialDecideOutcome DEF LoadRfq, DecideOutcome, Becomes, RolledBack
  <2> QED BY <1>3, <2>1, <2>2, <2>3, <2>4, <2>5 DEF Work
<1> QED BY <1>1, <1>2, <1>3 DEF Next

\* "Terminal RFQs are read-only": so they are where transactions do not overlap.
THEOREM ReadOnlyInTurn == Spec /\ []OneAtATime => DecidedIsReadOnly
<1>1. Init => SerialInv
  BY SerialInit
<1>2. IInv /\ SerialInv /\ OneAtATime /\ [Next]_vars => SerialInv'
  BY SerialStep
<1>3. IInv /\ SerialInv /\ OneAtATime /\ [Next]_vars =>
        [db[Rfq].status \in TerminalStatuses =>
            /\ db'[Rfq] = db[Rfq]
            /\ \A i \in Stages : db'[i].status = db[i].status]_vars
  BY SerialStep DEF Decided
<1> QED BY <1>1, <1>2, <1>3, Invariance, PTL DEF Spec, DecidedIsReadOnly
=============================================================================
