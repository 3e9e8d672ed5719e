------------------------- MODULE SubtaskRollupProofs -------------------------
(***************************************************************************)
(* Proofs about SubtaskRollup, for any number of subtasks and of requests  *)
(* that overlap in any way or die.                                         *)
(***************************************************************************)
EXTENDS SubtaskRollup, TLAPS

USE StepsAssumption, NobodyAssumption, StageAssumption

Rows == [exists : {"no", "yes", "deleted"}, progress : 0..100, status : {"Open", "InProgress", "Done"}]

Points == {"idle", "write", "rollup", "store", "commit"}

\* A session; nothing is said of the averages, which are sums over sets.
IsSession(s) ==
    /\ s \in [pc : Points, task : {s.task}, seen : Rows, mine : Rows,
              stage : {s.stage}, average : {s.average}, alone : BOOLEAN]
    /\ s.pc # "idle" => s.task \in Tasks

Types ==
    /\ task \in [Tasks -> Rows]
    /\ version \in [Tasks -> Rows]
    /\ holder \in [Tasks \cup {Stage} -> Requests \cup {Nobody}]
    /\ DOMAIN tx = Requests /\ tx = [p \in Requests |-> tx[p]]
    /\ \A p \in Requests : IsSession(tx[p])

\* A request locks its subtask before the stage.
Locks(p) ==
    /\ \A k \in Tasks : holder[k] = p => k = tx[p].task /\ tx[p].pc \in {"rollup", "store", "commit"}
    /\ holder[Stage] = p => tx[p].pc = "commit"

\* A subtask that p creates is known to no other request, and one that was
\* there stays; what p has written of a deleted one is still deleted.
Lasting(p) ==
    LET s == tx[p] IN
    s.pc # "idle" =>
      /\ s.seen.exists = "no" => /\ task[s.task].exists = "no"
                                 /\ \A q \in Requests \ {p} : At(q, "idle") \/ tx[q].task # s.task
      /\ s.seen.exists # "no" => task[s.task].exists # "no"
      /\ s.pc = "write" => /\ s.mine.exists # "no"
                           /\ s.mine.exists = "yes" => s.seen.exists \in {"no", "yes"}
      /\ holder[s.task] = p => /\ version[s.task].exists # "no"
                               /\ task[s.task].exists = "deleted" => version[s.task].exists = "deleted"

\* A request that no other overlaps works on what is stored.
Alone(p) ==
    LET s == tx[p] IN
    s.pc # "idle" /\ s.alone =>
      /\ \A q \in Requests \ {p} : At(q, "idle")
      /\ task[s.task].progress <= s.mine.progress
      /\ s.mine.exists = "yes" => s.mine.status = DeriveStatus(s.mine.progress)
      /\ IF s.pc = "write" THEN s.seen = task[s.task] ELSE s.mine = Visible(p)[s.task]

NewIsEmpty == \A k \in Tasks : task[k].exists = "no" => task[k].progress = 0

IInv == Types /\ NewIsEmpty /\ \A p \in Requests : Locks(p) /\ Lasting(p) /\ Alone(p)

-----------------------------------------------------------------------------
LEMMA NewTaskType == NewTask \in Rows /\ NewTask.exists = "no" /\ NewTask.progress = 0
BY DEF NewTask, Rows

LEMMA NoRequestType == IsSession(NoRequest) /\ NoRequest.pc = "idle"
<1> PICK k : k = CHOOSE j \in Tasks : TRUE
  OBVIOUS
<1>1. NoRequest = [pc |-> "idle", task |-> k, seen |-> NewTask,
                   mine |-> NewTask, stage |-> 0, average |-> 0, alone |-> TRUE]
  BY DEF NoRequest
<1> QED BY <1>1, NewTaskType DEF IsSession, Points

\* An UPDATE takes each column from the session if the session has changed it.
LEMMA WrittenRow ==
    ASSUME NEW stored \in Rows, NEW seen \in Rows, NEW mine \in Rows
    PROVE  LET row == Written(stored, seen, mine) IN
           /\ row \in Rows
           /\ row.exists = IF mine.exists = seen.exists THEN stored.exists ELSE mine.exists
           /\ seen = stored => row = mine
<1> DEFINE row == Written(stored, seen, mine)
<1>1. DOMAIN stored = {"exists", "progress", "status"}
  BY DEF Rows
<1>2. row = [c \in {"exists", "progress", "status"} |-> IF mine[c] = seen[c] THEN stored[c] ELSE mine[c]]
  BY <1>1 DEF Written
<1>3. row = [exists |-> IF mine.exists = seen.exists THEN stored.exists ELSE mine.exists,
             progress |-> IF mine.progress = seen.progress THEN stored.progress ELSE mine.progress,
             status |-> IF mine.status = seen.status THEN stored.status ELSE mine.status]
  BY <1>2
<1>4. row \in Rows
  BY <1>3 DEF Rows
<1>5. ASSUME seen = stored PROVE row = mine
  <2>1. row = [exists |-> mine.exists, progress |-> mine.progress, status |-> mine.status]
    BY <1>3, <1>5
  <2>2. mine = [exists |-> mine.exists, progress |-> mine.progress, status |-> mine.status]
    BY DEF Rows
  <2> QED BY <2>1, <2>2
<1> QED BY <1>3, <1>4, <1>5

LEMMA IInvInit == ASSUME Init PROVE IInv
<1>1. \A p \in Requests : tx[p] = NoRequest
  BY DEF Init
<1>2. \A r \in Tasks \cup {Stage}, p \in Requests : holder[r] # p
  BY DEF Init
<1>3. Types
  BY <1>1, NewTaskType, NoRequestType DEF Init, Types
<1>4. NewIsEmpty
  BY NewTaskType DEF Init, NewIsEmpty
<1> QED BY <1>1, <1>2, <1>3, <1>4, NoRequestType DEF IInv, Locks, Lasting, Alone

-----------------------------------------------------------------------------
\* No step of p disturbs what another request q has in hand: p neither takes
\* nor releases its rows, and q is not alone.
LEMMA OthersKeep ==
    ASSUME IInv, NEW p \in Requests, NEW q \in Requests, q # p, ~ At(p, "idle"),
           tx'[q] = tx[q], DOMAIN tx' = Requests, tx'[p].pc = "idle" \/ tx'[p].task = tx[p].task,
           \A r \in Requests \ {p} : tx'[r] = tx[r],
           \A r \in Tasks \cup {Stage} : holder'[r] = q <=> holder[r] = q,
           \A k \in Tasks : holder[k] = q => version'[k] = version[k],
           \A k \in Tasks : k # tx[p].task => task'[k] = task[k],
           \A k \in Tasks : holder[k] = q => task'[k] = task[k],
           \A k \in Tasks : task[k].exists # "no" => task'[k].exists # "no"
    PROVE  (Locks(q) /\ Lasting(q) /\ Alone(q))'
<1>1. Locks(q) /\ Lasting(q) /\ Alone(q) /\ IsSession(tx[q])
  BY DEF IInv, Types
<1>2. Locks(q)'
  BY <1>1 DEF Locks
<1>3. Lasting(q)'
  <2> SUFFICES ASSUME tx[q].pc # "idle" PROVE Lasting(q)'
    BY DEF Lasting
  <2>1. tx[q].task \in Tasks
    BY <1>1 DEF IsSession
  <2>2. tx[q].seen.exists = "no" => tx[p].task # tx[q].task
    BY <1>1 DEF Lasting, At
  <2> QED BY <1>1, <2>1, <2>2 DEF Lasting, At
<1>4. Alone(q)'
  <2>1. ~ (tx[q].pc # "idle" /\ tx[q].alone)
    BY <1>1 DEF Alone
  <2> QED BY <2>1 DEF Alone
<1> QED BY <1>2, <1>3, <1>4

LEMMA BeginStep ==
    ASSUME IInv, NEW p \in Requests, At(p, "idle"), NEW k \in Tasks, NEW mine \in Rows, Begin(p, k, mine),
           UNCHANGED <<task, progress, holder, version>>,
           mine.exists # "no",
           mine.exists = "yes" => /\ task[k].exists \in {"no", "yes"}
                                  /\ mine.status = DeriveStatus(mine.progress),
           task[k].progress <= mine.progress,
           task[k].exists = "no" => \A q \in Requests : At(q, "idle") \/ tx[q].task # k
    PROVE  IInv'
<1> DEFINE others == {q \in Requests \ {p} : ~ At(q, "idle")}
<1>1. tx' = [q \in Requests |->
               IF q = p
                 THEN [pc |-> "write", task |-> k, seen |-> task[k], mine |-> mine,
                       stage |-> progress, average |-> 0, alone |-> others = {}]
               ELSE IF q \in others THEN [tx[q] EXCEPT !.alone = FALSE]
               ELSE tx[q]]
  BY DEF Begin
<1>2. /\ tx'[p] = [pc |-> "write", task |-> k, seen |-> task[k], mine |-> mine,
                   stage |-> progress, average |-> 0, alone |-> others = {}]
      /\ \A q \in Requests \ {p} : tx'[q] = IF q \in others THEN [tx[q] EXCEPT !.alone = FALSE] ELSE tx[q]
      /\ DOMAIN tx' = Requests /\ tx' = [q \in Requests |-> tx'[q]]
      /\ tx'[p].alone = (others = {})
  BY <1>1
<1>3. task[k] \in Rows
  BY DEF IInv, Types
<1>4. \A q \in Requests \ {p} :
         /\ IsSession(tx'[q])
         /\ tx'[q].pc = tx[q].pc /\ tx'[q].task = tx[q].task /\ tx'[q].seen = tx[q].seen
         /\ tx'[q].mine = tx[q].mine
         /\ tx'[q].pc # "idle" => tx'[q].alone = FALSE
  <2> SUFFICES ASSUME NEW q \in Requests \ {p}
               PROVE  /\ IsSession(tx'[q])
                      /\ tx'[q].pc = tx[q].pc /\ tx'[q].task = tx[q].task /\ tx'[q].seen = tx[q].seen
                      /\ tx'[q].mine = tx[q].mine
                      /\ tx'[q].pc # "idle" => tx'[q].alone = FALSE
    OBVIOUS
  <2> PICK s : s = tx[q]
    OBVIOUS
  <2>1. IsSession(s)
    BY DEF IInv, Types
  <2>2. CASE q \in others
    <3>1. tx'[q] = [s EXCEPT !.alone = FALSE]
      BY <1>2, <2>2
    <3> QED BY <2>1, <3>1 DEF IsSession
  <2>3. CASE q \notin others
    BY <1>2, <2>1, <2>3 DEF At
  <2> QED BY <2>2, <2>3
<1>5. Types'
  <2>1. IsSession(tx'[p])
    BY <1>2, <1>3 DEF IsSession, Points
  <2>2. \A q \in Requests : IsSession(tx'[q])
    BY <1>4, <2>1
  <2> QED BY <1>2, <2>2 DEF IInv, Types
<1>6. NewIsEmpty'
  BY DEF IInv, NewIsEmpty
<1>7. \A r \in Tasks \cup {Stage} : holder[r] # p
  BY DEF IInv, Locks, At
<1>8. \A q \in Requests \ {p} : (Locks(q) /\ Lasting(q) /\ Alone(q))'
  <2> SUFFICES ASSUME NEW q \in Requests \ {p} PROVE (Locks(q) /\ Lasting(q) /\ Alone(q))'
    OBVIOUS
  <2>1. Locks(q) /\ Lasting(q) /\ IsSession(tx[q])
    BY DEF IInv, Types
  <2>2. Locks(q)'
    BY <1>4, <2>1 DEF Locks
  <2>3. Alone(q)'
    BY <1>4 DEF Alone
  <2>4. Lasting(q)'
    <3> SUFFICES ASSUME tx[q].pc # "idle" PROVE Lasting(q)'
      BY <1>4 DEF Lasting
    <3>1. tx[q].seen.exists = "no" => tx[q].task # k
      BY <2>1 DEF Lasting, At
    <3>2. tx'[p].task = k
      BY <1>2
    <3> QED BY <1>4, <2>1, <3>1, <3>2 DEF Lasting, At
  <2> QED BY <2>2, <2>3, <2>4
<1>9. Locks(p)'
  BY <1>7 DEF Locks
<1>10. Lasting(p)'
  BY <1>2, <1>3, <1>4, <1>7 DEF Lasting, At, Rows
<1>11. Alone(p)'
  <2>1. ASSUME tx'[p].alone PROVE \A q \in Requests \ {p} : At(q, "idle")'
    <3>1. tx'[p].alone = (others = {})
      BY <1>2
    <3>2. others = {}
      BY <2>1, <3>1
    <3>3. \A q \in Requests \ {p} : At(q, "idle")
      BY <3>2
    <3> QED BY <1>4, <3>3 DEF At
  <2> QED BY <1>2, <2>1 DEF Alone
<1> QED BY <1>5, <1>6, <1>8, <1>9, <1>10, <1>11 DEF IInv

LEMMA CreateStep == ASSUME IInv, NEW p \in Requests, Create(p) PROVE IInv'
<1>1. PICK k \in Tasks : /\ task[k].exists = "no"
                         /\ \A q \in Requests : At(q, "idle") \/ tx[q].task # k
                         /\ Begin(p, k, [exists |-> "yes", progress |-> 0, status |-> "Open"])
  BY DEF Create
<1>2. [exists |-> "yes", progress |-> 0, status |-> "Open"] \in Rows
  BY DEF Rows
<1>3. task[k].progress = 0
  BY <1>1 DEF IInv, NewIsEmpty
<1>4. DeriveStatus(0) = "Open"
  BY DEF DeriveStatus
<1> QED BY <1>1, <1>2, <1>3, <1>4, BeginStep DEF Create

LEMMA UpdateStep == ASSUME IInv, NEW p \in Requests, Update(p) PROVE IInv'
<1>1. PICK k \in Live(task) : \E value \in Steps \cup {task[k].progress} :
         MayBecome(task[k], value) /\ Begin(p, k, WithProgress(task[k], value))
  BY DEF Update
<1>2. PICK value \in Steps \cup {task[k].progress} :
         MayBecome(task[k], value) /\ Begin(p, k, WithProgress(task[k], value))
  BY <1>1
<1>3. k \in Tasks /\ task[k] \in Rows /\ task[k].exists = "yes"
  BY DEF Live, IInv, Types
<1>4. value \in 0..100
  BY <1>3 DEF Rows
<1>5. PICK mine : mine = WithProgress(task[k], value)
  OBVIOUS
<1>6. /\ mine \in Rows /\ mine.exists = "yes" /\ mine.progress = value
      /\ mine.status = DeriveStatus(value)
  <2>1. DeriveStatus(value) \in {"Open", "InProgress", "Done"}
    BY DEF DeriveStatus
  <2> QED BY <1>3, <1>4, <1>5, <2>1 DEF WithProgress, Rows
<1> QED BY <1>2, <1>3, <1>5, <1>6, BeginStep DEF Update, MayBecome

LEMMA DeleteStep == ASSUME IInv, NEW p \in Requests, Delete(p) PROVE IInv'
<1>1. PICK k \in Live(task) : Begin(p, k, [task[k] EXCEPT !.exists = "deleted"])
  BY DEF Delete
<1>2. k \in Tasks /\ task[k] \in Rows /\ task[k].exists = "yes"
  BY DEF Live, IInv, Types
<1>3. PICK mine : mine = [task[k] EXCEPT !.exists = "deleted"]
  OBVIOUS
<1>4. mine \in Rows /\ mine.exists = "deleted" /\ mine.progress = task[k].progress
  BY <1>2, <1>3 DEF Rows
<1>5. task[k].progress <= mine.progress
  BY <1>2, <1>4 DEF Rows
<1> QED BY <1>1, <1>2, <1>3, <1>4, <1>5, BeginStep DEF Delete

-----------------------------------------------------------------------------
\* A step of p in its session only.
LEMMA SessionStep ==
    ASSUME IInv, NEW p \in Requests, ~ At(p, "idle"), NEW t, IsSession(t), tx' = [tx EXCEPT ![p] = t],
           UNCHANGED <<task, progress, holder, version>>,
           tx[p].pc \in {"rollup", "store"}, t.pc \in {"store", "commit"},
           t.task = tx[p].task, t.seen = tx[p].seen, t.mine = tx[p].mine, t.alone = tx[p].alone,
           holder[Stage] # p
    PROVE  IInv'
<1>1. tx'[p] = t /\ DOMAIN tx' = Requests /\ \A q \in Requests \ {p} : tx'[q] = tx[q]
  BY DEF IInv, Types
<1>2. Types'
  BY <1>1 DEF IInv, Types
<1>3. \A q \in Requests \ {p} : (Locks(q) /\ Lasting(q) /\ Alone(q))'
  BY <1>1, OthersKeep
<1>4. Locks(p) /\ Lasting(p) /\ Alone(p)
  BY DEF IInv
<1>5. Locks(p)' /\ Lasting(p)' /\ Alone(p)'
  BY <1>1, <1>4 DEF Locks, Lasting, Alone, At, Visible
<1>6. NewIsEmpty'
  BY DEF IInv, NewIsEmpty
<1> QED BY <1>2, <1>3, <1>5, <1>6 DEF IInv

LEMMA WriteStep == ASSUME IInv, NEW p \in Requests, Write(p) PROVE IInv'
<1> PICK s : s = tx[p]
  OBVIOUS
<1> PICK k : k = s.task
  OBVIOUS
<1>1. /\ IsSession(s) /\ s.pc = "write" /\ k \in Tasks /\ s.seen \in Rows /\ s.mine \in Rows
      /\ Locks(p) /\ Lasting(p) /\ Alone(p) /\ task[k] \in Rows
  BY DEF IInv, Types, Write, At, IsSession
<1>2. PICK row \in Rows : /\ row = Written(task[k], s.seen, s.mine)
                          /\ row.exists = IF s.mine.exists = s.seen.exists THEN task[k].exists ELSE s.mine.exists
                          /\ s.seen = task[k] => row = s.mine
  BY <1>1, WrittenRow
<1>3. PICK t : t = [s EXCEPT !.pc = "rollup", !.mine = row]
  OBVIOUS
<1>4. /\ IsSession(t) /\ t.pc = "rollup" /\ t.mine = row /\ t.task = k /\ t.seen = s.seen
      /\ t.alone = s.alone
  BY <1>1, <1>2, <1>3 DEF IsSession, Points
<1>5. tx' = [tx EXCEPT ![p] = t] /\ UNCHANGED <<task, progress>>
  BY <1>2, <1>3 DEF Write
<1>6. /\ tx'[p] = t /\ DOMAIN tx' = Requests /\ tx' = [q \in Requests |-> tx'[q]]
      /\ \A q \in Requests \ {p} : tx'[q] = tx[q]
  BY <1>5 DEF IInv, Types
<1>7. /\ \A r \in (Tasks \cup {Stage}) \ {k} : holder'[r] = holder[r]
      /\ \A j \in Tasks \ {k} : version'[j] = version[j]
      /\ holder \in [Tasks \cup {Stage} -> Requests \cup {Nobody}]
      /\ holder' \in [Tasks \cup {Stage} -> Requests \cup {Nobody}]
      /\ version' \in [Tasks -> Rows]
      /\ \/ s.mine = s.seen /\ holder'[k] = holder[k] /\ version'[k] = version[k]
         \/ s.mine # s.seen /\ holder[k] = Nobody /\ holder'[k] = p /\ version'[k] = row
  <2>1. holder \in [Tasks \cup {Stage} -> Requests \cup {Nobody}] /\ version \in [Tasks -> Rows]
    BY DEF IInv, Types
  <2>2. CASE s.mine = s.seen
    <3>1. holder' = holder /\ version' = version
      BY <2>2 DEF Write
    <3> QED BY <2>1, <2>2, <3>1
  <2>3. CASE s.mine # s.seen
    <3>1. holder[k] = Nobody /\ holder' = [holder EXCEPT ![k] = p] /\ version' = [version EXCEPT ![k] = row]
      BY <1>2, <2>3 DEF Write
    <3> QED BY <1>1, <2>1, <2>3, <3>1
  <2> QED BY <2>2, <2>3
<1>8. k # Stage
  BY <1>1
<1>9. Types'
  BY <1>4, <1>5, <1>6, <1>7 DEF IInv, Types
<1>10. \A q \in Requests \ {p} : (Locks(q) /\ Lasting(q) /\ Alone(q))'
  BY <1>1, <1>4, <1>5, <1>6, <1>7, OthersKeep DEF At
<1>11. holder[k] # p
  BY <1>1 DEF Locks
<1>12. Locks(p)'
  BY <1>1, <1>4, <1>6, <1>7, <1>8 DEF Locks
<1>13. Lasting(p)'
  <2>1. /\ s.seen.exists = "no" => /\ task[k].exists = "no"
                                   /\ \A q \in Requests \ {p} : At(q, "idle") \/ tx[q].task # k
        /\ s.seen.exists # "no" => task[k].exists # "no"
        /\ s.mine.exists # "no"
        /\ s.mine.exists = "yes" => s.seen.exists \in {"no", "yes"}
    BY <1>1 DEF Lasting
  <2>2. holder'[k] = p => row.exists # "no" /\ (task[k].exists = "deleted" => row.exists = "deleted")
    BY <1>1, <1>2, <2>1 DEF Rows
  <2>3. \A q \in Requests \ {p} : At(q, "idle")' = At(q, "idle") /\ tx'[q].task = tx[q].task
    BY <1>6 DEF At
  <2>4. task'[k] = task[k] /\ tx'[p].task = k /\ tx'[p].seen = s.seen /\ tx'[p].pc = "rollup"
    BY <1>4, <1>5, <1>6
  <2>5. holder'[k] = p => version'[k] = row
    BY <1>7, <1>11
  <2> QED BY <2>1, <2>2, <2>3, <2>4, <2>5 DEF Lasting
<1>14. Alone(p)'
  <2>1. CASE ~ s.alone
    BY <1>4, <1>6, <2>1 DEF Alone
  <2>2. CASE s.alone
    <3>1. /\ \A q \in Requests \ {p} : At(q, "idle")
          /\ task[k].progress <= s.mine.progress
          /\ s.mine.exists = "yes" => s.mine.status = DeriveStatus(s.mine.progress)
          /\ s.seen = task[k]
      BY <1>1, <2>2 DEF Alone
    <3>2. row = s.mine
      BY <1>2, <3>1
    <3>3. row = Visible(p)'[k]
      BY <1>1, <1>5, <1>7, <1>11, <3>1, <3>2 DEF Visible
    <3> QED BY <1>4, <1>5, <1>6, <3>1, <3>2, <3>3 DEF Alone, At
  <2> QED BY <2>1, <2>2
<1>15. NewIsEmpty'
  BY <1>5 DEF IInv, NewIsEmpty
<1> QED BY <1>9, <1>10, <1>12, <1>13, <1>14, <1>15 DEF IInv

LEMMA RollupStep == ASSUME IInv, NEW p \in Requests, Rollup(p) PROVE IInv'
<1>1. IsSession(tx[p]) /\ tx[p].pc = "rollup" /\ Locks(p)
  BY DEF IInv, Types, Rollup, At
<1>2. PICK average : tx' = [tx EXCEPT ![p] = [tx[p] EXCEPT !.pc = "store", !.average = average]]
  BY DEF Rollup
<1>3. PICK t : t = [tx[p] EXCEPT !.pc = "store", !.average = average]
  OBVIOUS
<1>4. /\ IsSession(t) /\ t.pc = "store" /\ t.task = tx[p].task /\ t.seen = tx[p].seen
      /\ t.mine = tx[p].mine /\ t.alone = tx[p].alone
  BY <1>1, <1>3 DEF IsSession, Points
<1>5. holder[Stage] # p
  BY <1>1 DEF Locks
<1> QED BY <1>1, <1>2, <1>3, <1>4, <1>5, SessionStep DEF Rollup, At

LEMMA StoreStep == ASSUME IInv, NEW p \in Requests, Store(p) PROVE IInv'
<1>1. /\ IsSession(tx[p]) /\ tx[p].pc = "store" /\ Locks(p) /\ Lasting(p) /\ Alone(p)
      /\ tx[p].task \in Tasks
  BY DEF IInv, Types, Store, At, IsSession
<1>2. PICK t : t = [tx[p] EXCEPT !.pc = "commit"]
  OBVIOUS
<1>3. /\ IsSession(t) /\ t.pc = "commit" /\ t.task = tx[p].task /\ t.seen = tx[p].seen
      /\ t.mine = tx[p].mine /\ t.alone = tx[p].alone
  BY <1>1, <1>2 DEF IsSession, Points
<1>4. tx' = [tx EXCEPT ![p] = t] /\ UNCHANGED <<task, progress, version>>
  BY <1>2 DEF Store
<1>5. tx'[p] = t /\ DOMAIN tx' = Requests /\ \A q \in Requests \ {p} : tx'[q] = tx[q]
  BY <1>4 DEF IInv, Types
<1>6. /\ \A k \in Tasks : holder'[k] = holder[k]
      /\ holder' \in [Tasks \cup {Stage} -> Requests \cup {Nobody}]
      /\ \/ holder'[Stage] = holder[Stage]
         \/ holder[Stage] = Nobody /\ holder'[Stage] = p
  <2>1. CASE holder' = holder
    BY <2>1 DEF IInv, Types
  <2>2. CASE holder[Stage] = Nobody /\ holder' = [holder EXCEPT ![Stage] = p]
    BY <2>2 DEF IInv, Types
  <2> QED BY <2>1, <2>2 DEF Store
<1>7. Types'
  BY <1>3, <1>4, <1>5, <1>6 DEF IInv, Types
<1>8. \A q \in Requests \ {p} : (Locks(q) /\ Lasting(q) /\ Alone(q))'
  BY <1>1, <1>3, <1>4, <1>5, <1>6, OthersKeep DEF At
<1>9. Locks(p)' /\ Lasting(p)'
  BY <1>1, <1>3, <1>4, <1>5, <1>6 DEF Locks, Lasting, At
<1>10. Alone(p)'
  BY <1>1, <1>3, <1>4, <1>5, <1>6 DEF Alone, At, Visible
<1>11. NewIsEmpty'
  BY <1>4 DEF IInv, NewIsEmpty
<1> QED BY <1>7, <1>8, <1>9, <1>10, <1>11 DEF IInv

\* A request that ends, with or without a commit, leaves no lock.
LEMMA EndedStep ==
    ASSUME IInv, NEW p \in Requests, ~ At(p, "idle"),
           holder' = Released(p), version' = Forgotten(p), tx' = [tx EXCEPT ![p] = NoRequest],
           task' \in [Tasks -> Rows],
           \A k \in Tasks : task'[k] # task[k] => holder[k] = p,
           \A k \in Tasks : task[k].exists # "no" => task'[k].exists # "no",
           NewIsEmpty'
    PROVE  IInv'
<1>1. tx'[p] = NoRequest /\ DOMAIN tx' = Requests /\ \A q \in Requests \ {p} : tx'[q] = tx[q]
  BY DEF IInv, Types
<1>2. /\ \A r \in Tasks \cup {Stage} : holder'[r] = IF holder[r] = p THEN Nobody ELSE holder[r]
      /\ \A k \in Tasks : version'[k] = IF holder[k] = p THEN NewTask ELSE version[k]
  BY DEF Released, Forgotten, IInv, Types
<1>3. Types'
  BY <1>1, NoRequestType, NewTaskType DEF Released, Forgotten, IInv, Types
<1>4. \A q \in Requests \ {p} : (Locks(q) /\ Lasting(q) /\ Alone(q))'
  <2>1. \A k \in Tasks : holder[k] = p => k = tx[p].task
    BY DEF IInv, Locks
  <2>2. ASSUME NEW q \in Requests \ {p}
        PROVE  /\ \A r \in Tasks \cup {Stage} : holder'[r] = q <=> holder[r] = q
               /\ \A k \in Tasks : holder[k] = q => version'[k] = version[k]
               /\ \A k \in Tasks : k # tx[p].task => task'[k] = task[k]
               /\ \A k \in Tasks : holder[k] = q => task'[k] = task[k]
    BY <1>2, <2>1
  <2>3. tx'[p].pc = "idle"
    BY <1>1, NoRequestType
  <2> QED BY <1>1, <2>2, <2>3, OthersKeep
<1>5. \A r \in Tasks \cup {Stage} : holder'[r] # p
  BY <1>2
<1>6. (Locks(p) /\ Lasting(p) /\ Alone(p))'
  BY <1>1, <1>5, NoRequestType DEF Locks, Lasting, Alone
<1> QED BY <1>3, <1>4, <1>6 DEF IInv

LEMMA CommitFacts ==
    ASSUME IInv, NEW p \in Requests, Commit(p)
    PROVE  /\ \A k \in Tasks : task'[k] = IF holder[k] = p THEN version[k] ELSE task[k]
           /\ \A k \in Tasks : task[k].exists # "no" => task'[k].exists # "no"
           /\ \A k \in Tasks : task[k].exists = "deleted" => task'[k].exists = "deleted"
           /\ \A k \in Tasks : holder[k] = p => k = tx[p].task /\ version[k].exists # "no"
<1>1. \A k \in Tasks : holder[k] = p =>
         /\ k = tx[p].task /\ version[k].exists # "no"
         /\ task[k].exists = "deleted" => version[k].exists = "deleted"
  BY DEF IInv, Locks, Lasting, Commit, At
<1> QED BY <1>1 DEF Commit, Visible

LEMMA CommitStep == ASSUME IInv, NEW p \in Requests, Commit(p) PROVE IInv'
<1>1. task' \in [Tasks -> Rows]
  BY DEF Commit, Visible, IInv, Types
<1>2. NewIsEmpty'
  BY CommitFacts DEF IInv, NewIsEmpty
<1>3. ~ At(p, "idle")
  BY DEF Commit, At
<1>4. /\ holder' = Released(p)
      /\ version' = Forgotten(p)
      /\ tx' = [tx EXCEPT ![p] = NoRequest]
  BY DEF Commit
<1>5. /\ \A k \in Tasks : task'[k] # task[k] => holder[k] = p
      /\ \A k \in Tasks : task[k].exists # "no" => task'[k].exists # "no"
  BY CommitFacts
<1> QED BY <1>1, <1>2, <1>3, <1>4, <1>5, EndedStep

LEMMA DieStep == ASSUME IInv, NEW p \in Requests, Die(p) PROVE IInv'
<1>1. NewIsEmpty' /\ task' \in [Tasks -> Rows]
  BY DEF Die, IInv, NewIsEmpty, Types
<1> QED BY <1>1, EndedStep DEF Die

LEMMA IInvStep == ASSUME IInv, [Next]_vars PROVE IInv'
<1>1. ASSUME NEW p \in Requests, Create(p) \/ Update(p) \/ Delete(p) \/ Work(p) \/ Die(p)
      PROVE  IInv'
  BY <1>1, CreateStep, UpdateStep, DeleteStep, WriteStep, RollupStep, StoreStep, CommitStep, DieStep
     DEF Work
<1>2. CASE UNCHANGED vars
  <2>1. UNCHANGED <<task, progress, holder, version, tx>>
    BY <1>2 DEF vars
  <2>2. Types' /\ NewIsEmpty'
    BY <2>1 DEF IInv, Types, NewIsEmpty
  <2>3. \A q \in Requests : (Locks(q) /\ Lasting(q) /\ Alone(q))'
    BY <2>1 DEF IInv, Locks, Lasting, Alone, At, Visible
  <2> QED BY <2>2, <2>3 DEF IInv
<1> QED BY <1>1, <1>2 DEF Next

LEMMA Invariance == Spec => []IInv
<1>1. IInv /\ [Next]_vars => IInv'
  BY IInvStep
<1> QED BY <1>1, IInvInit, PTL DEF Spec

-----------------------------------------------------------------------------
\* Requests that lock their subtask before the stage never all wait.
THEOREM NoCircle == Spec => []SomeoneProceeds
<1>1. ASSUME IInv, NEW p \in Requests, ~ At(p, "idle")
      PROVE  \E q \in Requests : ~ At(q, "idle") /\ ~ Waits(q)
  <2>1. \A q \in Requests : Locks(q) /\ IsSession(tx[q])
    BY <1>1 DEF IInv, Types
  <2>2. holder \in [Tasks \cup {Stage} -> Requests \cup {Nobody}]
    BY <1>1 DEF IInv, Types
  <2>3. ASSUME NEW q \in Requests, holder[Stage] = q PROVE ~ At(q, "idle") /\ ~ Waits(q)
    BY <2>1, <2>3 DEF Locks, Waits, At
  <2>4. ASSUME NEW q \in Requests, At(q, "store") PROVE \E r \in Requests : ~ At(r, "idle") /\ ~ Waits(r)
    <3>1. CASE Waits(q)
      <4>1. holder[Stage] \in Requests
        BY <2>2, <2>4, <3>1 DEF Waits, At
      <4> QED BY <2>3, <4>1
    <3>2. CASE ~ Waits(q)
      BY <2>4, <3>2 DEF At
    <3> QED BY <3>1, <3>2
  <2>5. CASE At(p, "write") /\ Waits(p)
    <3>1. tx[p].task \in Tasks
      BY <2>1, <2>5 DEF IsSession, At
    <3>2. PICK q \in Requests : holder[tx[p].task] = q
      BY <2>2, <2>5, <3>1 DEF Waits, At
    <3>3. tx[q].pc \in {"rollup", "store", "commit"}
      BY <2>1, <3>1, <3>2 DEF Locks
    <3> QED BY <2>4, <3>3 DEF Waits, At
  <2> QED BY <1>1, <2>4, <2>5 DEF Waits
<1>2. IInv => SomeoneProceeds
  BY <1>1 DEF SomeoneProceeds
<1> QED BY <1>2, Invariance, PTL

\* What only a commit changes.
LEMMA OnlyCommits ==
    ASSUME NEW p \in Requests, Create(p) \/ Update(p) \/ Delete(p) \/ Work(p) \/ Die(p), ~ Commit(p)
    PROVE  UNCHANGED task
BY DEF Create, Update, Delete, Work, Write, Rollup, Store, Die

\* A deleted subtask stays deleted, whatever overlaps its deletion.
THEOREM DeletionsLast == Spec => DeletedStaysDeleted
<1>1. ASSUME IInv, [Next]_vars
      PROVE  \A k \in Tasks : task[k].exists = "deleted" => task'[k].exists = "deleted"
  <2>1. ASSUME Next
        PROVE  \A k \in Tasks : task[k].exists = "deleted" => task'[k].exists = "deleted"
    BY <1>1, <2>1, OnlyCommits, CommitFacts DEF Next
  <2>2. UNCHANGED vars => UNCHANGED task
    BY DEF vars
  <2> QED BY <1>1, <2>1, <2>2
<1>2. IInv /\ [Next]_vars =>
         [\A k \in Tasks : task[k].exists = "deleted" => task'[k].exists = "deleted"]_vars
  BY <1>1
<1> QED BY <1>2, Invariance, PTL DEF Spec, DeletedStaysDeleted

\* What a request that no other overlaps commits is what it asked for.
LEMMA LoneCommit ==
    ASSUME IInv, NEW p \in Requests, Commit(p), tx[p].alone
    PROVE  /\ tx[p].task \in Tasks
           /\ task'[tx[p].task] = tx[p].mine
           /\ \A k \in Tasks \ {tx[p].task} : task'[k] = task[k]
           /\ task[tx[p].task].progress <= tx[p].mine.progress
           /\ tx[p].mine.exists = "yes" => tx[p].mine.status = DeriveStatus(tx[p].mine.progress)
<1>1. tx[p].pc = "commit" /\ Alone(p) /\ Locks(p) /\ tx[p].task \in Tasks
  BY DEF IInv, Types, IsSession, Commit, At
<1>2. task' = Visible(p)
  BY DEF Commit
<1> QED BY <1>1, <1>2 DEF Alone, Locks, Visible

\* Progress is never taken back by a request that runs alone.
THEOREM LoneProgress == Spec => LoneRequestKeepsProgress
<1>1. ASSUME IInv, NEW p \in Requests, Commit(p), tx[p].alone
      PROVE  \A k \in Tasks : task[k].progress <= task'[k].progress
  <2>1. \A k \in Tasks : task[k].progress \in 0..100
    BY <1>1 DEF IInv, Types, Rows
  <2> QED BY <1>1, <2>1, LoneCommit
<1>2. IInv => [\A p \in Requests : Commit(p) /\ tx[p].alone =>
                  \A k \in Tasks : task[k].progress <= task'[k].progress]_vars
  BY <1>1
<1> QED BY <1>2, Invariance, PTL DEF LoneRequestKeepsProgress

\* A status that overlapping updates have left wrong is put right by the next
\* update that runs alone.
THEOREM LoneRepair == Spec => LoneUpdateRepairsStatus
<1>1. ASSUME IInv, NEW p \in Requests, Commit(p), tx[p].alone
      PROVE  LET row == task'[tx[p].task] IN row.exists = "yes" => row.status = DeriveStatus(row.progress)
  BY <1>1, LoneCommit
<1>2. IInv => [\A p \in Requests : Commit(p) /\ tx[p].alone =>
                  LET row == task'[tx[p].task] IN
                  row.exists = "yes" => row.status = DeriveStatus(row.progress)]_vars
  BY <1>1
<1> QED BY <1>2, Invariance, PTL DEF LoneUpdateRepairsStatus

-----------------------------------------------------------------------------
(* The average.                                                            *)

\* A request that no other overlaps has read the stage's progress as it is, and
\* averages the subtasks it will leave behind.
Settling(p) ==
    LET s == tx[p] IN
    s.pc # "idle" /\ s.alone =>
      /\ s.stage = progress
      /\ s.pc \in {"store", "commit"} => s.average = Average(Visible(p))
      /\ s.pc = "commit" => holder[Stage] = p \/ s.average = s.stage

\* Beside a request that runs alone another can only begin, and then it does not
\* run alone any more.
LEMMA OthersEndSettling ==
    ASSUME IInv, NEW p \in Requests, NEW q \in Requests, p # q,
           Create(p) \/ Update(p) \/ Delete(p) \/ Work(p) \/ Die(p)
    PROVE  tx'[q].pc # "idle" => ~ tx'[q].alone \/ (~ tx[q].alone /\ tx[q].pc # "idle")
<1>1. DOMAIN tx = Requests /\ \A r \in Requests : IsSession(tx[r])
  BY DEF IInv, Types
<1>2. CASE At(p, "idle")
  <2>1. ~ Work(p) /\ ~ Die(p)
    BY <1>2 DEF Work, Write, Rollup, Store, Commit, Die, At
  <2>2. PICK k, mine : Begin(p, k, mine)
    BY <2>1 DEF Create, Update, Delete, Live
  <2>3. CASE At(q, "idle")
    BY <2>2, <2>3 DEF Begin, At
  <2>4. CASE ~ At(q, "idle")
    <3>1. tx'[q] = [tx[q] EXCEPT !.alone = FALSE]
      BY <2>2, <2>4 DEF Begin
    <3>2. ~ tx'[q].alone
      BY <1>1, <3>1 DEF IsSession
    <3> QED BY <3>2
  <2> QED BY <2>3, <2>4
<1>3. CASE ~ At(p, "idle")
  <2>1. ~ Create(p) /\ ~ Update(p) /\ ~ Delete(p)
    BY <1>3 DEF Create, Update, Delete
  <2>2. tx'[q] = tx[q]
    BY <1>1, <2>1 DEF Work, Write, Rollup, Store, Commit, Die
  <2>3. tx[q].pc # "idle" => ~ tx[q].alone
    BY <1>3 DEF IInv, Alone, At
  <2> QED BY <2>2, <2>3
<1> QED BY <1>2, <1>3

\* Its own steps keep it so: what it lists is what it sees, and it locks the
\* stage unless the average is what is stored.
LEMMA OwnStepSettles ==
    ASSUME IInv, NEW p \in Requests, Settling(p),
           Create(p) \/ Update(p) \/ Delete(p) \/ Work(p) \/ Die(p)
    PROVE  Settling(p)'
<1>1. DOMAIN tx = Requests /\ IsSession(tx[p]) /\ Locks(p) /\ Alone(p)
  BY DEF IInv, Types
<1>2. CASE Create(p) \/ Update(p) \/ Delete(p)
  <2>1. PICK k, mine : Begin(p, k, mine)
    BY <1>2 DEF Create, Update, Delete, Live
  <2>2. progress' = progress
    BY <1>2 DEF Create, Update, Delete
  <2>3. tx'[p].pc = "write" /\ tx'[p].stage = progress
    BY <2>1 DEF Begin
  <2> QED BY <2>2, <2>3 DEF Settling
<1>3. CASE Write(p)
  <2>1. progress' = progress
    BY <1>3 DEF Write
  <2>2. PICK row : tx' = [tx EXCEPT ![p].pc = "rollup", ![p].mine = row]
    BY <1>3 DEF Write
  <2>3. tx'[p].pc = "rollup" /\ tx'[p].stage = tx[p].stage /\ tx'[p].alone = tx[p].alone
    BY <1>1, <2>2 DEF IsSession
  <2> QED BY <1>3, <2>1, <2>3 DEF Settling, Write, At
<1>4. CASE Rollup(p)
  <2> DEFINE listed == [Visible(p) EXCEPT ![tx[p].task].progress = tx[p].mine.progress]
  <2>1. tx' = [tx EXCEPT ![p].pc = "store", ![p].average = Average(listed)]
    BY <1>4 DEF Rollup
  <2>2. /\ tx'[p].pc = "store" /\ tx'[p].average = Average(listed)
        /\ tx'[p].stage = tx[p].stage /\ tx'[p].alone = tx[p].alone
    BY <1>1, <2>1 DEF IsSession
  <2>3. Visible(p)' = Visible(p) /\ progress' = progress
    BY <1>4 DEF Rollup, Visible
  <2>4. tx[p].pc = "rollup"
    BY <1>4 DEF Rollup, At
  <2>5. ASSUME tx[p].alone PROVE listed = Visible(p)
    <3>1. tx[p].mine = Visible(p)[tx[p].task]
      BY <1>1, <2>4, <2>5 DEF Alone
    <3>2. DOMAIN Visible(p) = Tasks /\ Visible(p) = [k \in Tasks |-> Visible(p)[k]]
      BY DEF Visible
    <3>3. tx[p].mine \in Rows
      BY <1>1 DEF IsSession
    <3>4. [tx[p].mine EXCEPT !.progress = tx[p].mine.progress] = tx[p].mine
      BY <3>3 DEF Rows
    <3>5. listed = [Visible(p) EXCEPT ![tx[p].task] = tx[p].mine]
      BY <3>1, <3>4
    <3> QED BY <3>1, <3>2, <3>5
  <2>6. tx[p].alone => Average(listed) = Average(Visible(p))
    BY <2>5
  <2>7. Average(Visible(p))' = Average(Visible(p)')
    OBVIOUS
  <2> HIDE DEF listed
  <2> QED BY <2>2, <2>3, <2>4, <2>6, <2>7 DEF Settling
<1>5. CASE Store(p)
  <2>1. tx' = [tx EXCEPT ![p].pc = "commit"]
    BY <1>5 DEF Store
  <2>2. /\ tx'[p].pc = "commit" /\ tx'[p].average = tx[p].average
        /\ tx'[p].stage = tx[p].stage /\ tx'[p].alone = tx[p].alone
    BY <1>1, <2>1 DEF IsSession
  <2>3. Visible(p)' = Visible(p)
    <3>1. \A k \in Tasks : holder'[k] = holder[k]
      BY <1>5 DEF Store, IInv, Types
    <3>2. task' = task /\ version' = version
      BY <1>5 DEF Store
    <3> QED BY <3>1, <3>2 DEF Visible
  <2>4. progress' = progress /\ tx[p].pc = "store"
    BY <1>5 DEF Store, At
  <2>5. holder'[Stage] = p \/ tx[p].average = tx[p].stage
    BY <1>5 DEF Store, IInv, Types
  <2>6. Average(Visible(p))' = Average(Visible(p)')
    OBVIOUS
  <2> QED BY <2>2, <2>3, <2>4, <2>5, <2>6 DEF Settling
<1>6. CASE Commit(p) \/ Die(p)
  <2>1. tx'[p] = NoRequest
    BY <1>1, <1>6 DEF Commit, Die
  <2> QED BY <2>1, NoRequestType DEF Settling
<1> QED BY <1>2, <1>3, <1>4, <1>5, <1>6 DEF Work

\* What a request works on is not changed by a request that ends its being alone.
LEMMA OthersStepSettles ==
    ASSUME IInv, NEW p \in Requests, NEW q \in Requests, p # q, Settling(q),
           Create(p) \/ Update(p) \/ Delete(p) \/ Work(p) \/ Die(p)
    PROVE  Settling(q)'
<1>1. SUFFICES ASSUME tx'[q].pc # "idle", tx'[q].alone PROVE FALSE
  BY DEF Settling
<1>2. ~ tx[q].alone /\ tx[q].pc # "idle"
  BY <1>1, OthersEndSettling
<1>3. CASE At(p, "idle")
  <2>1. ~ Work(p) /\ ~ Die(p)
    BY <1>3 DEF Work, Write, Rollup, Store, Commit, Die, At
  <2>2. PICK k, mine : Begin(p, k, mine)
    BY <2>1 DEF Create, Update, Delete, Live
  <2>3. tx'[q] = [tx[q] EXCEPT !.alone = FALSE]
    BY <1>2, <2>2 DEF Begin, At
  <2> QED BY <1>1, <2>3 DEF IInv, Types, IsSession
<1>4. CASE ~ At(p, "idle")
  <2>1. DOMAIN tx = Requests
    BY DEF IInv, Types
  <2>2. tx'[q] = tx[q]
    BY <1>4, <2>1 DEF Create, Update, Delete, Work, Write, Rollup, Store, Commit, Die
  <2> QED BY <1>1, <1>2, <2>2
<1> QED BY <1>3, <1>4

AllSettle == \A p \in Requests : Settling(p)

LEMMA SettlingAlways == Spec => [](IInv /\ AllSettle)
<1>1. Init => IInv /\ AllSettle
  <2> SUFFICES ASSUME Init PROVE IInv /\ AllSettle
    OBVIOUS
  <2>1. \A p \in Requests : tx[p] = NoRequest
    BY DEF Init
  <2> QED BY <2>1, IInvInit, NoRequestType DEF AllSettle, Settling
<1>2. IInv /\ AllSettle /\ [Next]_vars => (IInv /\ AllSettle)'
  <2> SUFFICES ASSUME IInv, AllSettle, [Next]_vars PROVE (IInv /\ AllSettle)'
    OBVIOUS
  <2>1. IInv'
    BY IInvStep
  <2>2. CASE UNCHANGED vars
    <3>1. Average(task)' = Average(task') /\ \A p \in Requests : Average(Visible(p))' = Average(Visible(p)')
      OBVIOUS
    <3>2. \A p \in Requests : Visible(p)' = Visible(p)
      BY <2>2 DEF vars, Visible
    <3>3. progress' = progress /\ tx' = tx /\ holder' = holder
      BY <2>2 DEF vars
    <3>4. ASSUME NEW p \in Requests PROVE Settling(p)'
      <4>1. Settling(p)
        BY DEF AllSettle
      <4>2. Average(Visible(p))' = Average(Visible(p))
        BY <3>1, <3>2
      <4> QED BY <4>1, <4>2, <3>3 DEF Settling
    <3> QED BY <2>1, <3>4 DEF AllSettle
  <2>3. CASE Next
    <3>1. PICK p \in Requests : Create(p) \/ Update(p) \/ Delete(p) \/ Work(p) \/ Die(p)
      BY <2>3 DEF Next
    <3>2. \A q \in Requests : Settling(q)'
      <4> SUFFICES ASSUME NEW q \in Requests PROVE Settling(q)'
        OBVIOUS
      <4>1. Settling(q)
        BY DEF AllSettle
      <4>2. CASE q = p
        BY <3>1, <4>1, <4>2, OwnStepSettles
      <4>3. CASE q # p
        BY <3>1, <4>1, <4>3, OthersStepSettles
      <4> QED BY <4>2, <4>3
    <3> QED BY <2>1, <3>2 DEF AllSettle
  <2> QED BY <2>2, <2>3
<1> QED BY <1>1, <1>2, PTL DEF Spec

\* A request that no other overlaps leaves the stage with the average of the
\* undeleted subtasks (_update_stage_progress), however many there are and
\* whatever has been left behind before.
THEOREM LoneAverage == Spec => LoneRequestSettles
<1>1. ASSUME NEW p \in Requests, progress' = Average(task')
      PROVE  LET live == {k \in Tasks : task'[k].exists = "yes"} IN
             progress' = IF live = {} THEN 0
                         ELSE MapThenSumSet(LAMBDA k : task'[k].progress, live)
                                \div Cardinality(live)
  BY <1>1 DEF Average, Live
<1>2. ASSUME IInv, AllSettle, NEW p \in Requests, Commit(p), tx[p].alone
      PROVE  progress' = Average(task')
  <2>1. Settling(p) /\ tx[p].pc = "commit"
    BY <1>2 DEF AllSettle, Commit, At
  <2>2. /\ tx[p].stage = progress
        /\ tx[p].average = Average(Visible(p))
        /\ holder[Stage] = p \/ tx[p].average = tx[p].stage
    BY <1>2, <2>1 DEF Settling
  <2>3. task' = Visible(p) /\ progress' = IF holder[Stage] = p THEN tx[p].average ELSE progress
    BY <1>2 DEF Commit
  <2>4. progress' = tx[p].average
    BY <2>2, <2>3
  <2>5. Average(task') = Average(Visible(p))
    BY <2>3
  <2> QED BY <2>2, <2>4, <2>5
<1>3. ASSUME IInv, AllSettle
      PROVE  [\A p \in Requests : Commit(p) /\ tx[p].alone =>
                LET live == {k \in Tasks : task'[k].exists = "yes"} IN
                progress' = IF live = {} THEN 0
                            ELSE MapThenSumSet(LAMBDA k : task'[k].progress, live)
                                   \div Cardinality(live)]_vars
  <2> SUFFICES ASSUME NEW p \in Requests, Commit(p), tx[p].alone
               PROVE  LET live == {k \in Tasks : task'[k].exists = "yes"} IN
                      progress' = IF live = {} THEN 0
                                  ELSE MapThenSumSet(LAMBDA k : task'[k].progress, live)
                                         \div Cardinality(live)
    OBVIOUS
  <2>1. progress' = Average(task')
    BY <1>2, <1>3
  <2> QED BY <1>1, <2>1
<1> QED BY <1>3, SettlingAlways, PTL DEF LoneRequestSettles
=============================================================================
