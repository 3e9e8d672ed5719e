------------------------ MODULE WorkflowDefaultProofs ------------------------
(***************************************************************************)
(* Proofs about WorkflowDefault, for any workflows, threads and bodies.    *)
(* OneDefault is broken by overlapping requests; this is what is left of   *)
(* it.                                                                     *)
(***************************************************************************)
EXTENDS WorkflowDefault, FiniteSetTheorems, TLAPS

Rows == [is_default : Flag, is_active : Flag]

Sessions == [pc : {"idle", "clear", "clearing", "write", "commit"}, body : AnyBody, seen : Rows,
             targets : SUBSET Workflows, alone : BOOLEAN]

Types ==
    /\ db \in [Workflows -> Rows]
    /\ version \in [Workflows -> Rows]
    /\ holder \in [Workflows -> {{}} \cup {{p} : p \in Requests}]
    /\ tx \in [Requests -> Sessions]

Holds(p, w) == holder[w] = {p}

\* The flag of w as p is about to leave it.
Leaves(p, w) == Found(p, w).is_default

Promotes(p) == tx[p].body.is_default = "yes"

\* What p holds at each point of its request.
Progress(p) ==
    /\ ~ At(p, "idle") => tx[p].body \in Bodies
    /\ At(p, "idle") \/ At(p, "clear") => \A w \in Workflows : ~ Holds(p, w)
    /\ At(p, "clear") \/ At(p, "clearing") => Promotes(p)
    /\ At(p, "clearing") => \A w \in Workflows : Holds(p, w) => version[w].is_default = "no"
    /\ At(p, "write") /\ Promotes(p) =>
          /\ tx[p].seen.is_default = "no"
          /\ \A w \in Workflows : Holds(p, w) => version[w].is_default = "no"
    /\ At(p, "write") /\ ~ Promotes(p) => \A w \in Workflows : ~ Holds(p, w)
    /\ At(p, "commit") /\ Promotes(p) =>
          Holds(p, tx[p].body.workflow) /\ version[tx[p].body.workflow].is_default = "yes"
    /\ At(p, "commit") /\ tx[p].body.is_default = "unset" =>
          \A w \in Workflows : Leaves(p, w) = db[w].is_default

\* A request that no other overlaps has the defaults in hand.
Alone(p) ==
    tx[p].alone /\ ~ At(p, "idle") =>
        /\ Others(p) = {}
        /\ At(p, "clearing") => \A w \in Defaults(db) : w \in tx[p].targets \/ Holds(p, w)
        /\ At(p, "write") /\ Promotes(p) => \A w \in Defaults(db) : Holds(p, w)
        /\ At(p, "commit") /\ Promotes(p) =>
              \A w \in Workflows : Leaves(p, w) = "yes" => w = tx[p].body.workflow

IInv == WorkflowsOK /\ Types /\ (\A p \in Requests : Progress(p) /\ Alone(p)) /\ DefaultNeverLost

LEMMA IInvInit == ASSUME WorkflowsOK, Init PROVE IInv
<1> USE DEF WorkflowsOK
<1>1. \A w \in Workflows : SeededRow(w) \in Rows
  BY DEF SeededRow, Rows, Flag
<1>2. NoRequest \in Sessions
  BY <1>1 DEF NoRequest, Sessions, AnyBody, Flag
<1>3. Types
  BY <1>1, <1>2 DEF Init, Types
<1>4. \A p \in Requests : Progress(p) /\ Alone(p)
  BY <1>3 DEF Init, Progress, Alone, At, Holds, Types, NoRequest
<1>5. SeedDefault \in Defaults(db)
  BY DEF Init, Defaults, SeededRow
<1> QED BY <1>3, <1>4, <1>5 DEF IInv, DefaultNeverLost

-----------------------------------------------------------------------------
(* A step of p does not disturb what another request q has in hand, because *)
(* it neither takes nor releases a row that q holds.                        *)

LEMMA OthersKeep ==
    ASSUME IInv, NEW p \in Requests, NEW q \in Requests, q # p,
           tx[q].pc = tx'[q].pc, tx[q].body = tx'[q].body, tx[q].seen = tx'[q].seen,
           tx[q].targets = tx'[q].targets,
           \A w \in Workflows : Holds(q, w)' <=> Holds(q, w),
           \A w \in Workflows : Holds(q, w) => version'[w] = version[w] /\ db'[w] = db[w]
    PROVE  Progress(q)'
<1>1. Progress(q)
  BY DEF IInv
<1>2. \A w \in Workflows : Holds(q, w) => Leaves(q, w)' = Leaves(q, w)
  BY DEF Leaves, Found, Holds
<1>3. \A w \in Workflows : ~ Holds(q, w) => Leaves(q, w)' = db'[w].is_default /\ Leaves(q, w) = db[w].is_default
  BY DEF Leaves, Found, Holds
<1> QED BY <1>1, <1>2, <1>3 DEF Progress, At, Promotes, IInv, Types, Sessions, AnyBody

\* A request that runs beside p is not alone, and stays so.
LEMMA OthersAreNotAlone ==
    ASSUME IInv, NEW p \in Requests, ~ At(p, "idle"), NEW q \in Requests, q # p, tx'[q] = tx[q]
    PROVE  Alone(q)'
<1>1. Alone(q) /\ p \in Others(q)
  BY DEF IInv, Others
<1>2. ~ (tx[q].alone /\ ~ At(q, "idle"))
  BY <1>1 DEF Alone
<1> QED BY <1>2 DEF Alone, At

\* The same for both, when only the session of p and rows it holds change.
LEMMA OthersUndisturbed ==
    ASSUME IInv, NEW p \in Requests, ~ At(p, "idle"), NEW t,
           tx' = [tx EXCEPT ![p] = t],
           \A q \in Requests \ {p}, w \in Workflows : Holds(q, w)' <=> Holds(q, w),
           \A q \in Requests \ {p}, w \in Workflows :
              Holds(q, w) => version'[w] = version[w] /\ db'[w] = db[w]
    PROVE  \A q \in Requests \ {p} : Progress(q)' /\ Alone(q)'
<1> SUFFICES ASSUME NEW q \in Requests \ {p} PROVE Progress(q)' /\ Alone(q)'
  OBVIOUS
<1>1. tx'[q] = tx[q]
  BY DEF IInv, Types
<1> QED BY <1>1, OthersKeep, OthersAreNotAlone

LEMMA LoadStep == ASSUME IInv, NEW p \in Requests, Load(p) PROVE IInv'
<1>1. PICK body \in Bodies :
         tx' = [q \in Requests |->
                  IF q = p THEN [pc |-> IF body.is_default = "yes" THEN "clear" ELSE "write",
                                 body |-> body, seen |-> db[body.workflow], targets |-> {},
                                 alone |-> Others(p) = {}]
                  ELSE [tx[q] EXCEPT !.alone = @ /\ At(q, "idle")]]
  BY DEF Load
<1>2. UNCHANGED <<db, holder, version>> /\ At(p, "idle")
  BY DEF Load
<1>3. body \in AnyBody /\ db[body.workflow] \in Rows
  BY DEF WorkflowsOK, AnyBody, IInv, Types
<1>4. /\ tx'[p].pc = (IF body.is_default = "yes" THEN "clear" ELSE "write")
      /\ tx'[p].body = body /\ tx'[p].targets = {}
      /\ tx'[p].alone = (Others(p) = {})
  BY <1>1
<1>5. ASSUME NEW q \in Requests, q # p
      PROVE  /\ tx'[q] = [tx[q] EXCEPT !.alone = @ /\ At(q, "idle")]
             /\ tx[q] \in Sessions
  BY <1>1, <1>5 DEF IInv, Types
<1>6. ASSUME NEW q \in Requests, q # p
      PROVE  /\ tx'[q].pc = tx[q].pc /\ tx'[q].body = tx[q].body /\ tx'[q].seen = tx[q].seen
             /\ tx'[q].targets = tx[q].targets /\ (tx'[q].alone => At(q, "idle"))
             /\ tx'[q] \in Sessions
  BY <1>5, <1>6 DEF Sessions
<1>7. Types'
  <2>1. tx'[p] \in Sessions
    BY <1>1, <1>3 DEF Sessions
  <2>2. \A q \in Requests : tx'[q] \in Sessions
    BY <1>6, <2>1
  <2>3. tx' \in [Requests -> Sessions]
    BY <1>1, <2>2
  <2> QED BY <1>2, <2>3 DEF IInv, Types
<1>8. \A q \in Requests \ {p} : Progress(q)'
  BY <1>2, <1>6, OthersKeep DEF Holds
<1>9. \A q \in Requests \ {p} : Alone(q)'
  BY <1>6 DEF Alone, At
<1>10. Progress(p)'
  BY <1>2, <1>4 DEF Progress, At, Promotes, Holds, IInv
<1>11. Alone(p)'
  <2>1. Others(p)' = Others(p)
    BY <1>6 DEF Others, At
  <2> QED BY <1>4, <2>1 DEF Alone, At, Promotes
<1>12. DefaultNeverLost'
  BY <1>2 DEF IInv, DefaultNeverLost, Defaults
<1> QED BY <1>7, <1>8, <1>9, <1>10, <1>11, <1>12 DEF IInv

LEMMA ClearStep == ASSUME IInv, NEW p \in Requests, Clear(p) PROVE IInv'
<1>1. tx[p] \in Sessions /\ At(p, "clear") /\ Progress(p) /\ Alone(p)
  BY DEF Clear, IInv, Types
<1>2. PICK t \in Sessions : t = [tx[p] EXCEPT !.pc = "clearing", !.targets = Defaults(db)]
  <2>1. Defaults(db) \in SUBSET Workflows
    BY DEF Defaults
  <2> QED BY <1>1, <2>1 DEF Sessions
<1>3. tx' = [tx EXCEPT ![p] = t] /\ UNCHANGED <<db, holder, version>>
  BY <1>2 DEF Clear
<1>4. /\ t.pc = "clearing" /\ t.targets = Defaults(db) /\ t.body = tx[p].body
      /\ t.alone = tx[p].alone
  BY <1>1, <1>2 DEF Sessions
<1>5. Types' /\ tx'[p] = t
  BY <1>3 DEF IInv, Types
<1>6. \A q \in Requests \ {p} : Progress(q)' /\ Alone(q)'
  BY <1>1, <1>3, OthersUndisturbed DEF Holds, At
<1>7. Progress(p)'
  BY <1>1, <1>3, <1>4, <1>5 DEF Progress, At, Promotes, Holds
<1>8. Alone(p)'
  <2>1. Others(p)' = Others(p) /\ Defaults(db)' = Defaults(db)
    BY <1>3 DEF Others, At, IInv, Types, Defaults
  <2> QED BY <1>1, <1>4, <1>5, <2>1 DEF Alone, At
<1>9. DefaultNeverLost'
  BY <1>3 DEF IInv, DefaultNeverLost, Defaults
<1> QED BY <1>5, <1>6, <1>7, <1>8, <1>9 DEF IInv

LEMMA ClearRowStep ==
    ASSUME IInv, NEW p \in Requests, NEW w \in Workflows, ClearRow(p, w)
    PROVE  IInv'
<1>1. tx[p] \in Sessions /\ At(p, "clearing") /\ Progress(p) /\ Alone(p) /\ w \in tx[p].targets
  BY DEF ClearRow, IInv, Types
<1>2. PICK t \in Sessions : t = [tx[p] EXCEPT !.targets = @ \ {w}]
  BY <1>1 DEF Sessions
<1>3. tx' = [tx EXCEPT ![p] = t] /\ UNCHANGED db /\ holder[w] = {}
  BY <1>2 DEF ClearRow
<1>4. /\ t.pc = "clearing" /\ t.targets = tx[p].targets \ {w} /\ t.body = tx[p].body
      /\ t.alone = tx[p].alone
  BY <1>1, <1>2 DEF Sessions, At
<1>5. /\ \A v \in Workflows \ {w} : holder'[v] = holder[v] /\ version'[v] = version[v]
      /\ holder'[w] \in {{}, {p}}
      /\ holder'[w] = {} => db[w].is_default # "yes"
      /\ holder'[w] = {p} => version'[w].is_default = "no"
      /\ version' \in [Workflows -> Rows] /\ holder' \in [Workflows -> {{}} \cup {{q} : q \in Requests}]
  <2>1. [db[w] EXCEPT !.is_default = "no"] \in Rows /\ [db[w] EXCEPT !.is_default = "no"].is_default = "no"
    BY DEF IInv, Types, Rows, Flag
  <2>2. version \in [Workflows -> Rows] /\ holder \in [Workflows -> {{}} \cup {{q} : q \in Requests}]
    BY DEF IInv, Types
  <2>3. CASE db[w].is_default = "yes"
    <3>1. /\ holder' = [holder EXCEPT ![w] = {p}]
          /\ version' = [version EXCEPT ![w] = [db[w] EXCEPT !.is_default = "no"]]
      BY <2>3 DEF ClearRow
    <3>2. version' \in [Workflows -> Rows] /\ version'[w].is_default = "no"
      BY <3>1, <2>1, <2>2
    <3>3. holder' \in [Workflows -> {{}} \cup {{q} : q \in Requests}] /\ holder'[w] = {p}
      BY <3>1, <2>2
    <3> QED BY <3>1, <3>2, <3>3, <2>2
  <2>4. CASE db[w].is_default # "yes"
    <3>1. holder' = holder /\ version' = version
      BY <2>4 DEF ClearRow
    <3> QED BY <3>1, <2>2, <2>4, <1>3
  <2> QED BY <2>3, <2>4
<1>6. Types' /\ tx'[p] = t
  BY <1>3, <1>5 DEF IInv, Types
<1>7. \A q \in Requests \ {p} : Progress(q)' /\ Alone(q)'
  BY <1>1, <1>3, <1>5, OthersUndisturbed DEF Holds, At
<1>8. Progress(p)'
  BY <1>1, <1>4, <1>5, <1>6 DEF Progress, At, Promotes, Holds
<1>9. Alone(p)'
  <2>1. Others(p)' = Others(p) /\ Defaults(db)' = Defaults(db)
    BY <1>3 DEF Others, At, IInv, Types, Defaults
  <2>2. \A v \in Defaults(db) : v \in t.targets \/ Holds(p, v)' \/ ~ tx[p].alone
    BY <1>1, <1>3, <1>4, <1>5 DEF Alone, At, Holds, Defaults
  <2> QED BY <1>1, <1>4, <1>6, <2>1, <2>2 DEF Alone, At
<1>10. DefaultNeverLost'
  BY <1>3 DEF IInv, DefaultNeverLost, Defaults
<1> QED BY <1>6, <1>7, <1>8, <1>9, <1>10 DEF IInv

LEMMA ClearedStep == ASSUME IInv, NEW p \in Requests, Cleared(p) PROVE IInv'
<1>1. tx[p] \in Sessions /\ At(p, "clearing") /\ Progress(p) /\ Alone(p) /\ tx[p].targets = {}
  BY DEF Cleared, IInv, Types
<1>2. PICK t \in Sessions : t = [tx[p] EXCEPT !.pc = "write", !.seen.is_default = "no"]
  <2>1. [tx[p].seen EXCEPT !.is_default = "no"] \in Rows
    BY <1>1 DEF Sessions, Rows, Flag
  <2> QED BY <1>1, <2>1 DEF Sessions
<1>3. tx' = [tx EXCEPT ![p] = t] /\ UNCHANGED <<db, holder, version>>
  BY <1>2 DEF Cleared
<1>4. /\ t.pc = "write" /\ t.seen.is_default = "no" /\ t.body = tx[p].body
      /\ t.alone = tx[p].alone
  BY <1>1, <1>2 DEF Sessions, Rows
<1>5. Types' /\ tx'[p] = t
  BY <1>3 DEF IInv, Types
<1>6. \A q \in Requests \ {p} : Progress(q)' /\ Alone(q)'
  BY <1>1, <1>3, OthersUndisturbed DEF Holds, At
<1>7. Progress(p)'
  BY <1>1, <1>3, <1>4, <1>5 DEF Progress, At, Promotes, Holds
<1>8. Alone(p)'
  <2>1. Others(p)' = Others(p) /\ Defaults(db)' = Defaults(db)
    BY <1>3 DEF Others, At, IInv, Types, Defaults
  <2> QED BY <1>1, <1>3, <1>4, <1>5, <2>1 DEF Alone, At, Holds
<1>9. DefaultNeverLost'
  BY <1>3 DEF IInv, DefaultNeverLost, Defaults
<1> QED BY <1>5, <1>6, <1>7, <1>8, <1>9 DEF IInv

LEMMA WriteRowStep == ASSUME IInv, NEW p \in Requests, WriteRow(p) PROVE IInv'
<1>0. PICK w : w = tx[p].body.workflow
  OBVIOUS
<1> USE <1>0
<1>1. tx[p] \in Sessions /\ At(p, "write") /\ Progress(p) /\ Alone(p) /\ holder[w] \subseteq {p}
  BY DEF WriteRow, IInv, Types
<1>2. tx[p].body \in AnyBody /\ tx[p].seen \in Rows /\ w \in Workflows
  BY <1>1 DEF Sessions, AnyBody
<1>3. PICK t \in Sessions : t = [tx[p] EXCEPT !.pc = "commit"]
  BY <1>1 DEF Sessions
<1>4. PICK row : row = Patched(Found(p, w), p)
  OBVIOUS
<1>5. /\ tx' = [tx EXCEPT ![p] = t] /\ UNCHANGED db
      /\ holder' = [holder EXCEPT ![w] = {p}]
      /\ version' = [version EXCEPT ![w] = row]
  BY <1>3, <1>4 DEF WriteRow
<1>6. t.pc = "commit" /\ t.body = tx[p].body /\ t.alone = tx[p].alone
  BY <1>1, <1>3 DEF Sessions
<1>7. Found(p, w) \in Rows
  BY <1>2 DEF Found, IInv, Types
<1>8. /\ row \in Rows
      /\ Promotes(p) => row.is_default = "yes"
      /\ tx[p].body.is_default = "unset" => row.is_default = Found(p, w).is_default
  <2>1. row = [is_default |-> Column(tx[p].body.is_default, tx[p].seen.is_default, Found(p, w).is_default),
               is_active |-> Column(tx[p].body.is_active, tx[p].seen.is_active, Found(p, w).is_active)]
    BY <1>4 DEF Patched
  <2>2. /\ Column(tx[p].body.is_default, tx[p].seen.is_default, Found(p, w).is_default) \in Flag
        /\ Column(tx[p].body.is_active, tx[p].seen.is_active, Found(p, w).is_active) \in Flag
    BY <1>2, <1>7 DEF Column, Rows, AnyBody, Flag
  <2>3. row \in Rows
    BY <2>1, <2>2 DEF Rows
  <2>4. row.is_default = Column(tx[p].body.is_default, tx[p].seen.is_default, Found(p, w).is_default)
    BY <2>1
  <2>5. Promotes(p) => tx[p].seen.is_default = "no"
    BY <1>1 DEF Progress
  <2> QED BY <2>3, <2>4, <2>5 DEF Promotes, Column
<1>9. /\ holder'[w] = {p} /\ version'[w] = row
      /\ \A v \in Workflows \ {w} : holder'[v] = holder[v] /\ version'[v] = version[v]
  BY <1>2, <1>5 DEF IInv, Types
<1>10. Types' /\ tx'[p] = t
  <2>1. holder' \in [Workflows -> {{}} \cup {{q} : q \in Requests}]
    BY <1>2, <1>5 DEF IInv, Types
  <2>2. version' \in [Workflows -> Rows]
    BY <1>2, <1>5, <1>8 DEF IInv, Types
  <2> QED BY <1>5, <2>1, <2>2 DEF IInv, Types
<1>11. \A q \in Requests \ {p} : Progress(q)' /\ Alone(q)'
  <2>1. \A q \in Requests \ {p} : ~ Holds(q, w) /\ ~ Holds(q, w)'
    BY <1>1, <1>9 DEF Holds
  <2>2. \A q \in Requests \ {p}, v \in Workflows : Holds(q, v)' <=> Holds(q, v)
    BY <1>9, <2>1 DEF Holds
  <2>3. \A q \in Requests \ {p}, v \in Workflows : Holds(q, v) => version'[v] = version[v] /\ db'[v] = db[v]
    BY <1>5, <1>9, <2>1
  <2>4. ~ At(p, "idle")
    BY <1>1 DEF At
  <2> QED BY <1>5, <2>2, <2>3, <2>4, OthersUndisturbed
<1>12. /\ Leaves(p, w)' = row.is_default
       /\ \A v \in Workflows \ {w} : Leaves(p, v)' = Leaves(p, v)
  BY <1>2, <1>5, <1>9 DEF Leaves, Found
<1>13. Progress(p)'
  <2>1. ~ Promotes(p) => \A v \in Workflows : Leaves(p, v) = db[v].is_default
    BY <1>1 DEF Progress, Leaves, Found, Holds
  <2>2. tx[p].body.is_default = "unset" => \A v \in Workflows : Leaves(p, v)' = db'[v].is_default
    BY <1>5, <1>8, <1>12, <2>1 DEF Leaves, Promotes
  <2> QED BY <1>1, <1>6, <1>8, <1>9, <1>10, <2>2 DEF Progress, At, Promotes, Holds
<1>14. Alone(p)'
  <2>1. Others(p)' = Others(p)
    BY <1>5 DEF Others, At, IInv, Types
  <2>2. ASSUME tx[p].alone, Promotes(p), NEW v \in Workflows \ {w}
        PROVE  Leaves(p, v) # "yes"
    BY <1>1, <2>2 DEF Alone, Progress, At, Leaves, Found, Holds, Defaults
  <2> QED BY <1>1, <1>6, <1>10, <1>12, <2>1, <2>2 DEF Alone, At, Promotes
<1>15. DefaultNeverLost'
  BY <1>5 DEF IInv, DefaultNeverLost, Defaults
<1> QED BY <1>10, <1>11, <1>13, <1>14, <1>15 DEF IInv

LEMMA NoRequestType == ASSUME WorkflowsOK PROVE NoRequest \in Sessions
<1>1. SeededRow(SeedDefault) \in Rows
  BY DEF SeededRow, Rows, Flag
<1> QED BY <1>1 DEF WorkflowsOK, NoRequest, Sessions, AnyBody, Flag

\* A request that ends, with or without a commit, leaves no lock.
LEMMA EndedSession ==
    ASSUME IInv, NEW p \in Requests,
           holder' = [w \in Workflows |-> holder[w] \ {p}], tx' = [tx EXCEPT ![p] = NoRequest],
           UNCHANGED version, db' \in [Workflows -> Rows],
           \A w \in Workflows : db'[w] # db[w] => Holds(p, w),
           ~ At(p, "idle")
    PROVE  Types' /\ \A q \in Requests : Progress(q)' /\ Alone(q)'
<1>1. NoRequest \in Sessions /\ NoRequest.pc = "idle"
  BY NoRequestType DEF IInv, NoRequest
<1>2. \A w \in Workflows : holder[w] = {} \/ \E q \in Requests : holder[w] = {q}
  BY DEF IInv, Types
<1>3. \A w \in Workflows : holder'[w] = IF Holds(p, w) THEN {} ELSE holder[w]
  BY <1>2 DEF Holds
<1>4. holder' \in [Workflows -> {{}} \cup {{q} : q \in Requests}]
  <2>1. \A w \in Workflows : holder'[w] \in {{}} \cup {{q} : q \in Requests}
    BY <1>3 DEF IInv, Types
  <2> QED BY <2>1
<1>5. Types' /\ tx'[p] = NoRequest
  BY <1>1, <1>4 DEF IInv, Types
<1>6. \A q \in Requests \ {p} : Progress(q)' /\ Alone(q)'
  <2>1. \A q \in Requests \ {p}, w \in Workflows : Holds(q, w)' <=> Holds(q, w)
    BY <1>3 DEF Holds
  <2>2. \A q \in Requests \ {p}, w \in Workflows : Holds(q, w) => version'[w] = version[w] /\ db'[w] = db[w]
    BY DEF Holds
  <2> QED BY <2>1, <2>2, OthersUndisturbed
<1>7. \A w \in Workflows : ~ Holds(p, w)'
  BY <1>3 DEF Holds
<1>8. Progress(p)' /\ Alone(p)'
  BY <1>1, <1>5, <1>7 DEF Progress, Alone, At
<1> QED BY <1>5, <1>6, <1>8

\* What p commits is the flag it leaves on each row.
LEMMA CommitsWhatItLeaves ==
    ASSUME IInv, NEW p \in Requests, Commit(p)
    PROVE  \A w \in Workflows : db'[w] = Found(p, w)
BY DEF Commit

LEMMA CommitStep == ASSUME IInv, NEW p \in Requests, Commit(p) PROVE IInv'
<1>1. tx[p] \in Sessions /\ At(p, "commit") /\ Progress(p)
  BY DEF Commit, IInv, Types
<1>2. \A w \in Workflows : Found(p, w) \in Rows /\ (Found(p, w) # db[w] => Holds(p, w))
  BY DEF Found, Holds, IInv, Types
<1>3. db' \in [Workflows -> Rows]
  BY <1>2 DEF Commit
<1>4. Types' /\ \A q \in Requests : Progress(q)' /\ Alone(q)'
  BY <1>1, <1>2, <1>3, CommitsWhatItLeaves, EndedSession DEF Commit, At
<1>5. DefaultNeverLost'
  <2> SUFFICES ASSUME \A body \in Bodies : body.is_default \in {"unset", "yes"}
               PROVE  Defaults(db') # {}
    BY DEF DefaultNeverLost, Defaults
  <2>1. CASE Promotes(p)
    <3>1. /\ tx[p].body.workflow \in Workflows
          /\ Leaves(p, tx[p].body.workflow) = "yes"
      BY <1>1, <2>1 DEF Progress, At, Sessions, AnyBody, Leaves, Found, Holds
    <3> QED BY <3>1, CommitsWhatItLeaves DEF Leaves, Defaults
  <2>2. CASE ~ Promotes(p)
    <3>1. tx[p].body.is_default = "unset"
      BY <1>1, <2>2 DEF Progress, Promotes, At
    <3>2. \A w \in Workflows : Leaves(p, w) = db[w].is_default
      BY <1>1, <3>1 DEF Progress
    <3>3. Defaults(db') = Defaults(db)
      BY <3>2, CommitsWhatItLeaves DEF Leaves, Defaults
    <3> QED BY <3>3 DEF IInv, DefaultNeverLost
  <2> QED BY <2>1, <2>2
<1> QED BY <1>4, <1>5 DEF IInv

LEMMA DieStep == ASSUME IInv, NEW p \in Requests, Die(p) PROVE IInv'
<1>1. Types' /\ \A q \in Requests : Progress(q)' /\ Alone(q)'
  BY EndedSession DEF Die, IInv, Types
<1>2. DefaultNeverLost'
  BY DEF Die, IInv, DefaultNeverLost, Defaults
<1> QED BY <1>1, <1>2 DEF IInv

LEMMA ReseedStep == ASSUME IInv, Reseed PROVE IInv'
<1>1. \A w \in Workflows : SeededRow(w) \in Rows
  BY DEF SeededRow, Rows, Flag
<1>2. Types'
  BY <1>1 DEF Reseed, IInv, Types
<1>3. \A p \in Requests : At(p, "idle") /\ Progress(p)
  BY DEF Reseed, IInv
<1>4. \A p \in Requests : Progress(p)' /\ Alone(p)'
  BY <1>3 DEF Reseed, Progress, Alone, At, Holds
<1>5. SeedDefault \in Defaults(db)'
  BY DEF Reseed, Defaults, SeededRow, IInv, WorkflowsOK
<1> QED BY <1>2, <1>4, <1>5 DEF IInv, DefaultNeverLost

-----------------------------------------------------------------------------
LEMMA IInvStep == ASSUME IInv, [Next]_vars PROVE IInv'
<1>1. ASSUME NEW p \in Requests, Load(p) \/ Clear(p) \/ Cleared(p) \/ WriteRow(p) \/ Commit(p) \/ Die(p)
      PROVE  IInv'
  BY <1>1, LoadStep, ClearStep, ClearedStep, WriteRowStep, CommitStep, DieStep
<1>2. ASSUME NEW p \in Requests, NEW w \in Workflows, ClearRow(p, w) PROVE IInv'
  BY <1>2, ClearRowStep
<1>3. CASE UNCHANGED vars
  <2>1. UNCHANGED <<db, holder, version, tx>>
    BY <1>3 DEF vars
  <2> QED BY <2>1 DEF IInv, Types, Progress, Alone, At, Promotes, Holds, Leaves, Found, Others,
                      Defaults, DefaultNeverLost
<1> QED BY <1>1, <1>2, <1>3, ReseedStep DEF Next

LEMMA Invariance == WorkflowsOK /\ Spec => []IInv
<1>1. WorkflowsOK /\ Init => IInv
  BY IInvInit
<1>2. IInv /\ [Next]_vars => IInv'
  BY IInvStep
<1> QED BY <1>1, <1>2, PTL DEF Spec

\* Where clients only ever hand the default on, overlapping PATCHes, deaths and
\* reseedings never leave the service without a default workflow.
THEOREM DefaultStays == WorkflowsOK /\ Spec => []DefaultNeverLost
<1>1. IInv => DefaultNeverLost
  BY DEF IInv
<1> QED BY <1>1, Invariance, PTL

\* A PATCH that nothing overlaps restores the one default, whatever came before.
THEOREM LonePatchRepairs == WorkflowsOK /\ Spec => LoneDefaultStandsAlone
<1>1. ASSUME IInv, NEW p \in Requests, Commit(p), tx[p].alone, tx[p].body.is_default = "yes"
      PROVE  Defaults(db') = {tx[p].body.workflow}
  <2>1. Progress(p) /\ Alone(p) /\ At(p, "commit") /\ tx[p].body.workflow \in Workflows
    BY <1>1 DEF IInv, Types, Sessions, AnyBody, Commit
  <2>2. \A w \in Workflows : Leaves(p, w) = "yes" <=> w = tx[p].body.workflow
    BY <1>1, <2>1 DEF Progress, Alone, At, Promotes, Leaves, Found, Holds
  <2> QED BY <1>1, <2>1, <2>2, CommitsWhatItLeaves DEF Leaves, Defaults
<1>2. IInv => [\A p \in Requests : Commit(p) /\ tx[p].alone /\ tx[p].body.is_default = "yes" =>
                  Defaults(db') = {tx[p].body.workflow}]_vars
  BY <1>1
<1> QED BY <1>2, Invariance, PTL DEF LoneDefaultStandsAlone

-----------------------------------------------------------------------------
(* Requests that do not overlap: nothing but their order keeps the flag      *)
(* unique, and that is enough.                                               *)

OneAtATime == \A p, q \in Requests : ~ At(p, "idle") /\ ~ At(q, "idle") => p = q

AtMostOne(rows) == \A v, w \in Defaults(rows) : v = w

\* A request under way has been alone from its beginning, and only one that
\* makes its workflow the default is about to leave a new one.
SerialInv ==
    /\ AtMostOne(db)
    /\ \A p \in Requests : ~ At(p, "idle") => tx[p].alone
    /\ \A p \in Requests : At(p, "commit") /\ ~ Promotes(p) =>
          \A w \in Workflows : Leaves(p, w) = "yes" => w \in Defaults(db)

LEMMA SerialInit == ASSUME WorkflowsOK, Init PROVE SerialInv
<1>1. \A w \in Workflows : w \in Defaults(db) => w = SeedDefault
  BY DEF Init, Defaults, SeededRow
<1>2. \A p \in Requests : At(p, "idle")
  BY DEF Init, At, NoRequest
<1> QED BY <1>1, <1>2 DEF SerialInv, AtMostOne, Defaults, At

\* A step of p that does not commit leaves the database and the idle others
\* alone.
LEMMA SerialWithin ==
    ASSUME IInv, SerialInv, NEW p \in Requests, NEW t \in Sessions, tx' = [tx EXCEPT ![p] = t],
           db' = db, t.pc # "idle" => t.alone,
           \A q \in Requests \ {p} : At(q, "idle"),
           t.pc = "commit" /\ t.body.is_default # "yes" =>
              \A w \in Workflows : Leaves(p, w)' = "yes" => w \in Defaults(db)
    PROVE  SerialInv'
<1>1. tx'[p] = t /\ \A q \in Requests \ {p} : tx'[q] = tx[q]
  BY DEF IInv, Types
<1>2. AtMostOne(db)'
  BY DEF SerialInv, AtMostOne, Defaults
<1>3. \A q \in Requests : At(q, "idle")' \/ q = p
  BY <1>1 DEF At
<1>4. Defaults(db)' = Defaults(db)
  BY DEF Defaults
<1>5. \A q \in Requests : ~ At(q, "idle")' => tx'[q].alone
  BY <1>1, <1>3 DEF At
<1>6. \A q \in Requests : At(q, "commit")' /\ ~ Promotes(q)' =>
         \A w \in Workflows : Leaves(q, w)' = "yes" => w \in Defaults(db)'
  BY <1>1, <1>3, <1>4 DEF At, Promotes
<1> QED BY <1>2, <1>5, <1>6 DEF SerialInv

LEMMA SerialLoad ==
    ASSUME IInv, SerialInv, OneAtATime', NEW p \in Requests, Load(p)
    PROVE  SerialInv'
<1>1. PICK body \in Bodies :
         tx' = [q \in Requests |->
                  IF q = p THEN [pc |-> IF body.is_default = "yes" THEN "clear" ELSE "write",
                                 body |-> body, seen |-> db[body.workflow], targets |-> {},
                                 alone |-> Others(p) = {}]
                  ELSE [tx[q] EXCEPT !.alone = @ /\ At(q, "idle")]]
  BY DEF Load
<1>2. /\ tx'[p].pc \in {"clear", "write"} /\ tx'[p].alone = (Others(p) = {})
      /\ \A q \in Requests \ {p} : tx'[q].pc = tx[q].pc
  BY <1>1 DEF IInv, Types, Sessions
<1>3. \A q \in Requests \ {p} : At(q, "idle")
  BY <1>2 DEF OneAtATime, At
<1>4. Others(p) = {}
  BY <1>3 DEF Others
<1>5. \A q \in Requests : ~ At(q, "commit")'
  BY <1>2, <1>3 DEF At
<1>6. \A q \in Requests : ~ At(q, "idle")' => tx'[q].alone
  BY <1>2, <1>3, <1>4 DEF At
<1>7. AtMostOne(db)'
  BY DEF Load, SerialInv, AtMostOne, Defaults
<1> QED BY <1>5, <1>6, <1>7 DEF SerialInv

LEMMA SerialWriteRow ==
    ASSUME IInv, SerialInv, NEW p \in Requests, WriteRow(p), ~ Promotes(p)
    PROVE  \A v \in Workflows : Leaves(p, v)' = "yes" => v \in Defaults(db)
<1> PICK w : w = tx[p].body.workflow
  OBVIOUS
<1>1. At(p, "write") /\ Progress(p) /\ tx[p] \in Sessions /\ w \in Workflows
  BY DEF WriteRow, IInv, Types, Sessions, AnyBody
<1>2. \A v \in Workflows : ~ Holds(p, v) /\ Found(p, v) = db[v]
  BY <1>1 DEF Progress, Found, Holds
<1>3. PICK row : row = Patched(db[w], p)
  OBVIOUS
<1>4. row.is_default = "yes" => db[w].is_default = "yes"
  <2>1. row.is_default = Column(tx[p].body.is_default, tx[p].seen.is_default, db[w].is_default)
    BY <1>3 DEF Patched
  <2> QED BY <2>1 DEF Column, Promotes
<1>5. /\ holder' = [holder EXCEPT ![w] = {p}]
      /\ version' = [version EXCEPT ![w] = row] /\ db' = db
  BY <1>1, <1>2, <1>3 DEF WriteRow
<1>6. Leaves(p, w)' = row.is_default
  BY <1>1, <1>5 DEF Leaves, Found, IInv, Types
<1>7. \A v \in Workflows \ {w} : Leaves(p, v)' = db[v].is_default
  BY <1>1, <1>2, <1>5 DEF Leaves, Found, Holds, IInv, Types
<1> QED BY <1>4, <1>6, <1>7 DEF Defaults

LEMMA SerialCommit ==
    ASSUME IInv, SerialInv, NEW p \in Requests, Commit(p)
    PROVE  AtMostOne(db')
<1>1. tx[p].alone /\ At(p, "commit") /\ Progress(p) /\ Alone(p)
  BY DEF Commit, SerialInv, IInv, At
<1>2. CASE Promotes(p)
  <2>1. \A w \in Workflows : Leaves(p, w) = "yes" => w = tx[p].body.workflow
    BY <1>1, <1>2 DEF Alone, At
  <2> QED BY <2>1, CommitsWhatItLeaves DEF Leaves, Defaults, AtMostOne
<1>3. CASE ~ Promotes(p)
  <2>1. \A w \in Workflows : Leaves(p, w) = "yes" => w \in Defaults(db)
    BY <1>1, <1>3 DEF SerialInv
  <2>2. \A w \in Workflows : w \in Defaults(db') => w \in Defaults(db)
    BY <2>1, CommitsWhatItLeaves DEF Leaves, Defaults
  <2> QED BY <2>2 DEF SerialInv, AtMostOne, Defaults
<1> QED BY <1>2, <1>3

\* A request that ends leaves all requests idle.
LEMMA SerialEnded ==
    ASSUME IInv, OneAtATime, NEW p \in Requests, ~ At(p, "idle"), tx' = [tx EXCEPT ![p] = NoRequest],
           AtMostOne(db')
    PROVE  SerialInv'
<1>1. \A q \in Requests \ {p} : At(q, "idle") /\ tx'[q] = tx[q]
  BY DEF OneAtATime, IInv, Types
<1>2. tx'[p].pc = "idle"
  BY DEF NoRequest, IInv, Types
<1>3. \A q \in Requests : tx'[q].pc = "idle"
  BY <1>1, <1>2 DEF At
<1> QED BY <1>3 DEF SerialInv, At, AtMostOne, Defaults

LEMMA SerialStep ==
    ASSUME Defined = Workflows, IInv, SerialInv, OneAtATime, OneAtATime', [Next]_vars
    PROVE  SerialInv'
<1>1. CASE UNCHANGED vars
  BY <1>1 DEF vars, SerialInv, AtMostOne, Defaults, At, Promotes, Leaves, Found
<1>2. ASSUME NEW p \in Requests, Load(p) PROVE SerialInv'
  BY <1>2, SerialLoad
<1>3. ASSUME NEW p \in Requests, Commit(p) PROVE SerialInv'
  BY <1>3, SerialCommit, SerialEnded DEF Commit, At
<1>4. ASSUME NEW p \in Requests, Die(p) PROVE SerialInv'
  <2>1. db' = db /\ AtMostOne(db) /\ ~ At(p, "idle")
    BY <1>4 DEF Die, SerialInv
  <2> QED BY <1>4, <2>1, SerialEnded DEF Die
<1>5. ASSUME NEW p \in Requests,
             Clear(p) \/ Cleared(p) \/ WriteRow(p) \/ \E w \in Workflows : ClearRow(p, w)
      PROVE  SerialInv'
  <2>1. tx[p] \in Sessions /\ ~ At(p, "idle") /\ db' = db
    BY <1>5 DEF IInv, Types, Clear, Cleared, WriteRow, ClearRow, At
  <2>2. tx[p].alone /\ \A q \in Requests \ {p} : At(q, "idle")
    BY <2>1 DEF SerialInv, OneAtATime
  <2>3. CASE WriteRow(p)
    <3>1. PICK t \in Sessions : t = [tx[p] EXCEPT !.pc = "commit"]
      BY <2>1 DEF Sessions
    <3>2. tx' = [tx EXCEPT ![p] = t] /\ t.alone /\ t.body = tx[p].body
      BY <2>1, <2>2, <2>3, <3>1 DEF WriteRow, Sessions
    <3>3. t.body.is_default # "yes" => ~ Promotes(p)
      BY <3>2 DEF Promotes
    <3> QED BY <2>1, <2>2, <2>3, <3>2, <3>3, SerialWithin, SerialWriteRow
  <2>4. CASE ~ WriteRow(p)
    <3>1. PICK t : tx' = [tx EXCEPT ![p] = t] /\ t \in Sessions /\ t.pc # "commit" /\ t.alone
      <4>1. IInv'
        BY <1>5, ClearStep, ClearRowStep, ClearedStep, WriteRowStep
      <4>2. tx'[p] \in Sessions
        BY <4>1 DEF IInv, Types
      <4>3. tx'[p].pc # "commit" /\ tx'[p].alone /\ tx' = [tx EXCEPT ![p] = tx'[p]]
        BY <1>5, <2>1, <2>2, <2>4 DEF Clear, Cleared, ClearRow, At, IInv, Types, Sessions
      <4> QED BY <4>2, <4>3
    <3> QED BY <2>1, <2>2, <3>1, SerialWithin
  <2> QED BY <2>3, <2>4
<1>6. ASSUME Reseed PROVE SerialInv'
  <2>1. \A w \in Workflows : db'[w] = SeededRow(w)
    BY <1>6 DEF Reseed
  <2>2. \A w \in Workflows : SeededRow(w).is_default = "yes" => w = SeedDefault
    BY DEF SeededRow
  <2>3. \A w \in Workflows : w \in Defaults(db)' => w = SeedDefault
    BY <2>1, <2>2 DEF Defaults
  <2>4. \A p \in Requests : At(p, "idle")'
    BY <1>6 DEF Reseed, At
  <2> QED BY <2>3, <2>4 DEF SerialInv, AtMostOne, Defaults, At
<1> QED BY <1>1, <1>2, <1>3, <1>4, <1>5, <1>6 DEF Next

\* "only one can be True" holds of a service whose requests do not overlap: the
\* bulk UPDATE of each clears what any earlier one set.  (The base data defines
\* every workflow there is; no request creates one.)
THEOREM OneDefaultInTurn ==
    WorkflowsOK /\ Defined = Workflows /\ Spec /\ []OneAtATime => []OneDefault
<1> SUFFICES ASSUME Defined = Workflows PROVE WorkflowsOK /\ Spec /\ []OneAtATime => []OneDefault
  OBVIOUS
<1>1. SerialInv => OneDefault
  <2> SUFFICES ASSUME SerialInv PROVE Cardinality(Defaults(db)) <= 1
    BY DEF OneDefault
  <2>1. CASE Defaults(db) = {}
    BY <2>1, FS_EmptySet
  <2>2. CASE Defaults(db) # {}
    <3>1. PICK w : Defaults(db) = {w}
      BY <2>2 DEF SerialInv, AtMostOne
    <3>2. Cardinality({w}) = 1
      BY FS_Singleton
    <3> QED BY <3>1, <3>2
  <2> QED BY <2>1, <2>2
<1>2. WorkflowsOK /\ Init => SerialInv
  BY SerialInit
<1>3. IInv /\ SerialInv /\ OneAtATime /\ OneAtATime' /\ [Next]_vars => SerialInv'
  BY SerialStep
<1> QED BY <1>1, <1>2, <1>3, Invariance, PTL DEF Spec
=============================================================================
