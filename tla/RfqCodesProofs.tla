--------------------------- MODULE RfqCodesProofs ---------------------------
(***************************************************************************)
(* Proofs about RfqCodes, for any number of concurrent creations, any      *)
(* prefixes and any codes in use before the counters were introduced.      *)
(***************************************************************************)
EXTENDS RfqCodes, TLAPS

\* A bounded set of naturals has one top, and Highest finds it.
LEMMA HighestIsTop ==
    ASSUME NEW S \in SUBSET Nat, NEW m \in Nat, Top(m, S)
    PROVE  Highest(S) = m
<1>1. \A n \in S \cup {0} : Top(n, S) => n = m
  BY DEF Top
<1>2. m \in S \cup {0}
  BY DEF Top
<1> QED BY <1>1, <1>2 DEF Highest

-----------------------------------------------------------------------------
(* The inductive invariant: a ledger, which is the counter or, before there *)
(* is one, the highest old number, is on top of the codes in use; and what  *)
(* each transaction has in hand agrees with the ledger of its prefix.       *)

Ledger(x) == IF counter[x] = Absent THEN Base[x] ELSE counter[x]

LedgerOK == \A x \in Prefixes : Top(Ledger(x), InUse(x))

SessionOK(p) ==
    LET x == tx[p].prefix IN
    /\ tx[p].pc = "insert" /\ counter[x] = Absent => tx[p].seed = Base[x]
    /\ tx[p].pc = "allocate" =>
          IF holder[x] = p THEN counter[x] = Absent /\ tx[p].value = Base[x]
                           ELSE counter[x] # Absent
    /\ tx[p].pc \in {"create", "commit"} => holder[x] = p /\ tx[p].value = Ledger(x) + 1
    /\ code[p] # NoCode => tx[p].pc = "done"

IInv ==
    /\ TypeOK
    /\ LedgerOK
    /\ \A p \in Requests : SessionOK(p)
    /\ CodesNeverCollide

LEMMA LedgerType ==
    ASSUME TypeOK, NEW x \in Prefixes
    PROVE  Ledger(x) \in Nat /\ InUse(x) \in SUBSET Nat
<1>1. Ledger(x) \in Nat
  BY LegacyAssumption DEF TypeOK, Ledger, Absent
<1>2. \A p \in Requests : code[p] # NoCode => code[p].number \in Nat
  BY DEF TypeOK
<1>3. Legacy[x] \in SUBSET Nat
  BY LegacyAssumption
<1> QED BY <1>1, <1>2, <1>3 DEF InUse

\* The transactions keep their type when one moves on and notes a number.
Transaction == [pc : PCs, prefix : Prefixes, seed : Nat, value : Nat]

LEMMA TransactionMovesOn ==
    ASSUME TypeOK, NEW p \in Requests, NEW pc \in PCs, NEW n \in Nat
    PROVE  /\ [tx EXCEPT ![p] = [@ EXCEPT !.pc = pc, !.seed = n]] \in [Requests -> Transaction]
           /\ [tx EXCEPT ![p] = [@ EXCEPT !.pc = pc, !.value = n]] \in [Requests -> Transaction]
<1>1. tx \in [Requests -> Transaction]
  BY DEF TypeOK, Transaction
<1>2. tx[p] \in Transaction
  BY <1>1
<1>3. [tx[p] EXCEPT !.pc = pc, !.seed = n] \in Transaction
  BY <1>2 DEF Transaction
<1>4. [tx[p] EXCEPT !.pc = pc, !.value = n] \in Transaction
  BY <1>2 DEF Transaction
<1> QED BY <1>1, <1>3, <1>4

LEMMA IInvInit == ASSUME Init PROVE IInv
<1> USE LegacyAssumption, NobodyAssumption
<1>1. TypeOK
  BY DEF Init, TypeOK, PCs, Absent
<1>2. \A x \in Prefixes : Ledger(x) = Base[x] /\ InUse(x) = Legacy[x]
  BY DEF Init, Ledger, InUse, Absent
<1>3. LedgerOK
  BY <1>2 DEF LedgerOK
<1>4. \A p \in Requests : SessionOK(p)
  BY DEF Init, SessionOK
<1>5. CodesNeverCollide
  BY DEF Init, CodesNeverCollide
<1> QED BY <1>1, <1>3, <1>4, <1>5 DEF IInv

\* A step that commits nothing leaves the ledgers and the codes in use alone.
LEMMA NothingCommitted ==
    ASSUME LedgerOK, UNCHANGED <<counter, code>>
    PROVE  /\ LedgerOK'
           /\ \A x \in Prefixes : Ledger(x)' = Ledger(x)
  BY DEF LedgerOK, Ledger, InUse, Top

LEMMA AskStep ==
    ASSUME IInv, NEW p \in Requests, Ask(p) PROVE IInv'
<1> USE NobodyAssumption DEF IInv
<1>1. UNCHANGED <<counter, holder, code>> /\ tx' = [tx EXCEPT ![p].pc = "ensure"] /\ tx[p].pc = "idle"
  BY DEF Ask, At, Goes
<1>2. TypeOK'
  BY <1>1 DEF TypeOK, PCs
<1>3. LedgerOK' /\ \A x \in Prefixes : Ledger(x)' = Ledger(x)
  BY <1>1, NothingCommitted
<1>4. \A q \in Requests : SessionOK(q)'
  BY <1>1, <1>3 DEF SessionOK, TypeOK
<1>5. CodesNeverCollide'
  BY <1>1 DEF CodesNeverCollide, TypeOK
<1> QED BY <1>2, <1>3, <1>4, <1>5

LEMMA SeedStep ==
    ASSUME IInv, NEW p \in Requests, Seed(p) PROVE IInv'
<1> USE NobodyAssumption DEF IInv
<1> DEFINE x == tx[p].prefix
           m == Highest(InUse(x))
<1>1. /\ UNCHANGED <<counter, holder, code>> /\ tx[p].pc = "ensure"
      /\ tx' = [tx EXCEPT ![p] = [@ EXCEPT !.pc = "insert", !.seed = m]]
  BY DEF Seed, At
<1>2. x \in Prefixes
  BY DEF TypeOK
<1>3. m = Ledger(x) /\ m \in Nat
  BY <1>2, LedgerType, HighestIsTop DEF LedgerOK
<1> HIDE DEF m
<1>4. TypeOK'
  <2>1. tx' \in [Requests -> [pc : PCs, prefix : Prefixes, seed : Nat, value : Nat]]
    BY <1>1, <1>3, TransactionMovesOn DEF Transaction, PCs
  <2>2. \A y \in Prefixes, q \in Requests :
            holder'[y] = q => tx'[q].prefix = y /\ tx'[q].pc \in {"allocate", "create", "commit"}
    BY <1>1 DEF TypeOK
  <2> QED BY <1>1, <2>1, <2>2 DEF TypeOK
<1>5. LedgerOK' /\ \A y \in Prefixes : Ledger(y)' = Ledger(y)
  BY <1>1, NothingCommitted
<1>6. \A q \in Requests : SessionOK(q)'
  BY <1>1, <1>2, <1>3, <1>5 DEF SessionOK, TypeOK, Ledger
<1>7. CodesNeverCollide'
  BY <1>1 DEF CodesNeverCollide, TypeOK
<1> QED BY <1>4, <1>5, <1>6, <1>7

LEMMA EnsureStep ==
    ASSUME IInv, NEW p \in Requests, EnsureCounterRow(p) PROVE IInv'
<1> USE NobodyAssumption DEF IInv
<1> DEFINE x == tx[p].prefix
<1>0. x \in Prefixes /\ tx[p].pc = "insert" /\ UNCHANGED <<counter, code>>
  BY DEF TypeOK, EnsureCounterRow, At
<1>1. LedgerOK' /\ \A y \in Prefixes : Ledger(y)' = Ledger(y)
  BY <1>0, NothingCommitted
<1>2. CASE counter[x] # Absent /\ tx' = [tx EXCEPT ![p].pc = "allocate"] /\ holder' = holder
  <2>1. TypeOK'
    BY <1>0, <1>2 DEF TypeOK, PCs
  <2>2. holder[x] # p
    BY <1>0 DEF TypeOK
  <2>3. \A q \in Requests : SessionOK(q)'
    BY <1>0, <1>1, <1>2, <2>2 DEF SessionOK, TypeOK
  <2>4. CodesNeverCollide'
    BY <1>0, <1>2 DEF CodesNeverCollide, TypeOK
  <2> QED BY <1>1, <2>1, <2>3, <2>4
<1>3. CASE /\ counter[x] = Absent /\ holder[x] = Nobody
           /\ holder' = [holder EXCEPT ![x] = p]
           /\ tx' = [tx EXCEPT ![p] = [@ EXCEPT !.pc = "allocate", !.value = tx[p].seed]]
  <2>1. TypeOK'
    <3>1. tx' \in [Requests -> [pc : PCs, prefix : Prefixes, seed : Nat, value : Nat]]
      <4>1. tx[p].seed \in Nat
        BY DEF TypeOK
      <4> QED BY <1>3, <4>1, TransactionMovesOn DEF Transaction, PCs
    <3>2. \A y \in Prefixes, q \in Requests :
              holder'[y] = q => tx'[q].prefix = y /\ tx'[q].pc \in {"allocate", "create", "commit"}
      BY <1>0, <1>3 DEF TypeOK
    <3>3. holder' \in [Prefixes -> Requests \cup {Nobody}]
      BY <1>3 DEF TypeOK
    <3> QED BY <1>0, <3>1, <3>2, <3>3 DEF TypeOK
  <2>2. \A q \in Requests : SessionOK(q)'
    BY <1>0, <1>1, <1>3 DEF SessionOK, TypeOK
  <2>3. CodesNeverCollide'
    BY <1>0, <1>3 DEF CodesNeverCollide, TypeOK
  <2> QED BY <1>1, <2>1, <2>2, <2>3
<1> QED BY <1>2, <1>3 DEF EnsureCounterRow, Goes

LEMMA AllocateStep ==
    ASSUME IInv, NEW p \in Requests, Allocate(p) PROVE IInv'
<1> USE NobodyAssumption DEF IInv
<1> DEFINE x == tx[p].prefix
           v == 1 + LastValue(p, x)
<1>1. x \in Prefixes /\ tx[p].pc = "allocate" /\ UNCHANGED <<counter, code>>
  BY DEF TypeOK, Allocate, At
<1>2. ~ (holder[x] # p /\ counter[x] = Absent)
  BY <1>1 DEF SessionOK
<1>3. /\ holder[x] \in {p, Nobody}
      /\ holder' = [holder EXCEPT ![x] = p]
      /\ tx' = [tx EXCEPT ![p] = [@ EXCEPT !.pc = "create", !.value = v]]
  BY <1>2 DEF Allocate, TypeOK
<1>4. v = Ledger(x) + 1 /\ v \in Nat
  BY <1>1, <1>2, LedgerType DEF SessionOK, Ledger, LastValue
<1>5. LedgerOK' /\ \A y \in Prefixes : Ledger(y)' = Ledger(y)
  BY <1>1, NothingCommitted
<1> HIDE DEF v
<1>6. TypeOK'
  <2>1. tx' \in [Requests -> [pc : PCs, prefix : Prefixes, seed : Nat, value : Nat]]
    BY <1>3, <1>4, TransactionMovesOn DEF Transaction, PCs
  <2>2. \A y \in Prefixes, q \in Requests :
            holder'[y] = q => tx'[q].prefix = y /\ tx'[q].pc \in {"allocate", "create", "commit"}
    BY <1>1, <1>3 DEF TypeOK
  <2>3. holder' \in [Prefixes -> Requests \cup {Nobody}]
    BY <1>3 DEF TypeOK
  <2> QED BY <1>1, <2>1, <2>2, <2>3 DEF TypeOK
<1>7. \A q \in Requests : SessionOK(q)'
  <2> TAKE q \in Requests
  <2>1. CASE q = p
    BY <1>1, <1>3, <1>4, <1>5, <2>1 DEF SessionOK, TypeOK
  <2>2. CASE q # p
    BY <1>1, <1>3, <1>5, <2>2 DEF SessionOK, TypeOK
  <2> QED BY <2>1, <2>2
<1>8. CodesNeverCollide'
  BY <1>1, <1>3 DEF CodesNeverCollide, TypeOK
<1> QED BY <1>5, <1>6, <1>7, <1>8

\* The number allocated is above every number in use: the index has nothing
\* to object to.
LEMMA CreateStep ==
    ASSUME IInv, NEW p \in Requests, CreateRfq(p) PROVE IInv'
<1> USE NobodyAssumption DEF IInv
<1> DEFINE x == tx[p].prefix
<1>1. x \in Prefixes /\ tx[p].pc = "create" /\ UNCHANGED <<counter, code>>
  BY DEF TypeOK, CreateRfq, At
<1>2. tx[p].value = Ledger(x) + 1
  BY <1>1 DEF SessionOK
<1>3. tx[p].value \notin InUse(x)
  BY <1>1, <1>2, LedgerType DEF LedgerOK, Top
<1>4. tx' = [tx EXCEPT ![p].pc = "commit"] /\ holder' = holder
  BY <1>3 DEF CreateRfq, Goes
<1>5. LedgerOK' /\ \A y \in Prefixes : Ledger(y)' = Ledger(y)
  BY <1>1, NothingCommitted
<1>6. TypeOK'
  BY <1>1, <1>4 DEF TypeOK, PCs
<1>7. \A q \in Requests : SessionOK(q)'
  BY <1>1, <1>4, <1>5 DEF SessionOK, TypeOK
<1>8. CodesNeverCollide'
  BY <1>1, <1>4 DEF CodesNeverCollide, TypeOK
<1> QED BY <1>5, <1>6, <1>7, <1>8

\* The end of a transaction that commits: its number joins those in use and
\* is the new top; whoever else works on the prefix has seen a counter row.
LEMMA CommitStep ==
    ASSUME IInv, NEW p \in Requests, Commit(p) PROVE IInv'
<1> USE NobodyAssumption DEF IInv
<1> DEFINE x == tx[p].prefix
           v == tx[p].value
<1>1. /\ x \in Prefixes /\ tx[p].pc = "commit"
      /\ counter' = [counter EXCEPT ![x] = v]
      /\ code' = [code EXCEPT ![p] = Code(x, v)]
      /\ holder' = Released(p)
      /\ tx' = [tx EXCEPT ![p].pc = "done"]
  BY DEF TypeOK, Commit, At, Goes
<1>2. holder[x] = p /\ v = Ledger(x) + 1 /\ v \in Nat /\ code[p] = NoCode
  BY <1>1 DEF SessionOK, TypeOK
<1>3. Code(x, v) \in [prefix : Prefixes, number : Nat] /\ Code(x, v) # NoCode
      /\ Code(x, v).prefix = x /\ Code(x, v).number = v
  BY <1>1, <1>2, NoCodeAssumption DEF Code
<1>4. TypeOK'
  <2>1. counter' \in [Prefixes -> Nat \cup {Absent}]
    BY <1>1, <1>2 DEF TypeOK
  <2>2. /\ holder' \in [Prefixes -> Requests \cup {Nobody}]
        /\ \A y \in Prefixes : holder'[y] # p
        /\ \A y \in Prefixes : holder'[y] # Nobody => holder'[y] = holder[y]
    BY <1>1 DEF TypeOK, Released
  <2>3. code' \in [Requests -> [prefix : Prefixes, number : Nat] \cup {NoCode}]
    BY <1>1, <1>3 DEF TypeOK
  <2>4. tx' \in [Requests -> [pc : PCs, prefix : Prefixes, seed : Nat, value : Nat]]
    BY <1>1 DEF TypeOK, PCs
  <2>5. \A y \in Prefixes, q \in Requests :
            holder'[y] = q => tx'[q].prefix = y /\ tx'[q].pc \in {"allocate", "create", "commit"}
    BY <1>1, <2>2 DEF TypeOK
  <2> QED BY <2>1, <2>2, <2>3, <2>4, <2>5 DEF TypeOK
<1>5. \A y \in Prefixes : InUse(y)' = InUse(y) \cup (IF y = x THEN {v} ELSE {})
  <2>1. \A q \in Requests : code'[q] = IF q = p THEN Code(x, v) ELSE code[q]
    BY <1>1 DEF TypeOK
  <2>2. SUFFICES ASSUME NEW y \in Prefixes, NEW n
                 PROVE  n \in InUse(y)' <=> n \in InUse(y) \/ (y = x /\ n = v)
    OBVIOUS
  <2>3. n \in InUse(y) <=> \/ n \in Legacy[y]
                           \/ \E q \in Requests : /\ code[q] # NoCode /\ code[q].prefix = y
                                                  /\ n = code[q].number
    BY DEF InUse
  <2>4. n \in InUse(y)' <=> \/ n \in Legacy[y]
                            \/ \E q \in Requests : /\ code'[q] # NoCode /\ code'[q].prefix = y
                                                   /\ n = code'[q].number
    BY DEF InUse
  <2> QED BY <1>2, <1>3, <2>1, <2>3, <2>4
<1>6. \A y \in Prefixes : Ledger(y)' = IF y = x THEN v ELSE Ledger(y)
  BY <1>1, <1>2 DEF Ledger, TypeOK, Absent
<1>7. LedgerOK'
  BY <1>1, <1>2, <1>5, <1>6, LedgerType DEF LedgerOK, Top
<1>8. \A q \in Requests : SessionOK(q)'
  <2> TAKE q \in Requests
  <2>1. CASE q = p
    BY <1>1, <2>1 DEF SessionOK, TypeOK
  <2>2. CASE q # p /\ tx[q].prefix = x
    <3>1. holder[x] # q /\ counter'[x] # Absent /\ tx'[q] = tx[q] /\ code'[q] = code[q]
      BY <1>1, <1>2, <2>2 DEF TypeOK, Absent
    <3>2. tx[q].pc \notin {"create", "commit"}
      BY <2>2, <3>1 DEF SessionOK
    <3>3. holder'[x] = Nobody
      BY <1>1, <1>2 DEF Released
    <3> QED BY <2>2, <3>1, <3>2, <3>3 DEF SessionOK
  <2>3. CASE q # p /\ tx[q].prefix # x
    <3>1. /\ tx'[q] = tx[q] /\ code'[q] = code[q] /\ tx[q].prefix \in Prefixes
          /\ counter'[tx[q].prefix] = counter[tx[q].prefix]
          /\ Ledger(tx[q].prefix)' = Ledger(tx[q].prefix)
      BY <1>1, <1>6, <2>3 DEF TypeOK, Ledger
    <3>2. (holder'[tx[q].prefix] = q) <=> (holder[tx[q].prefix] = q)
      BY <1>1, <2>3, <3>1 DEF Released
    <3> QED BY <3>1, <3>2 DEF SessionOK, Ledger
  <2> QED BY <2>1, <2>2, <2>3
<1>9. CodesNeverCollide'
  <2>1. \A q \in Requests : tx'[q].pc \notin {"collided", "refused"}
    BY <1>1 DEF CodesNeverCollide, TypeOK
  <2>2. ASSUME NEW q \in Requests, code[q] # NoCode
        PROVE  code[q] # Code(x, v)
    <3>1. SUFFICES ASSUME code[q] = Code(x, v)
                   PROVE  FALSE
      OBVIOUS
    <3>2. v \in InUse(x)
      BY <1>3, <2>2, <3>1 DEF InUse
    <3>3. Top(Ledger(x), InUse(x)) /\ Ledger(x) \in Nat
      BY <1>1, LedgerType DEF LedgerOK
    <3> QED BY <1>2, <3>2, <3>3 DEF Top
  <2>3. \A q, r \in Requests : q # r /\ code'[q] # NoCode => code'[q] # code'[r]
    BY <1>1, <1>3, <2>2 DEF CodesNeverCollide, TypeOK
  <2> QED BY <2>1, <2>3 DEF CodesNeverCollide
<1> QED BY <1>4, <1>7, <1>8, <1>9

LEMMA FailStep ==
    ASSUME IInv, NEW p \in Requests, Fail(p) PROVE IInv'
<1> USE NobodyAssumption DEF IInv
<1>1. /\ UNCHANGED <<counter, code>>
      /\ tx[p].pc \in {"ensure", "insert", "allocate", "create", "commit"}
      /\ holder' = Released(p)
      /\ tx' = [tx EXCEPT ![p].pc = "failed"]
  BY DEF Fail, Goes
<1>2. /\ holder' \in [Prefixes -> Requests \cup {Nobody}]
      /\ \A y \in Prefixes : holder'[y] # p
      /\ \A y \in Prefixes : holder[y] # p => holder'[y] = holder[y]
      /\ \A y \in Prefixes : holder[y] = p => holder'[y] = Nobody
  BY <1>1 DEF TypeOK, Released
<1>3. TypeOK'
  BY <1>1, <1>2 DEF TypeOK, PCs
<1>4. LedgerOK' /\ \A y \in Prefixes : Ledger(y)' = Ledger(y)
  BY <1>1, NothingCommitted
<1>5. \A q \in Requests : SessionOK(q)'
  <2> TAKE q \in Requests
  <2>1. CASE q = p
    BY <1>1, <2>1 DEF SessionOK, TypeOK
  <2>2. CASE q # p
    <3>1. tx'[q] = tx[q] /\ tx[q].prefix \in Prefixes
      BY <1>1, <2>2 DEF TypeOK
    <3>2. (holder'[tx[q].prefix] = q) <=> (holder[tx[q].prefix] = q)
      BY <1>2, <2>2, <3>1
    <3> QED BY <1>1, <1>4, <3>1, <3>2 DEF SessionOK
  <2> QED BY <2>1, <2>2
<1>6. CodesNeverCollide'
  BY <1>1 DEF CodesNeverCollide, TypeOK
<1> QED BY <1>3, <1>4, <1>5, <1>6

LEMMA IInvNext == ASSUME IInv, [Next]_vars PROVE IInv'
<1>1. CASE UNCHANGED vars
  <2>1. UNCHANGED <<counter, code>> /\ holder' = holder /\ tx' = tx
    BY <1>1 DEF vars
  <2>2. LedgerOK' /\ (\A x \in Prefixes : Ledger(x)' = Ledger(x))
    BY <2>1, NothingCommitted DEF IInv
  <2>3. TypeOK' /\ CodesNeverCollide'
    BY <2>1 DEF IInv, TypeOK, CodesNeverCollide
  <2>4. \A p \in Requests : SessionOK(p)'
    BY <2>1, <2>2 DEF IInv, TypeOK, SessionOK
  <2> QED BY <2>2, <2>3, <2>4 DEF IInv
<1>2. CASE Next
  BY <1>2, AskStep, SeedStep, EnsureStep, AllocateStep, CreateStep, CommitStep, FailStep
     DEF Next, Work
<1> QED BY <1>1, <1>2

LEMMA InductiveInvariant == Spec => []IInv
<1> QED BY IInvInit, IInvNext, PTL DEF Spec

-----------------------------------------------------------------------------

\* Every variable keeps its type, and only a creation at work holds a counter
\* row.
THEOREM TypesCorrect == Spec => []TypeOK
<1>1. IInv => TypeOK
  BY DEF IInv
<1> QED BY <1>1, InductiveInvariant, PTL

\* get_next_code never makes two RFQs share a code, and the unique index on
\* rfq_code never rejects a creation, whatever overlaps or fails.
THEOREM NeverCollide == Spec => []CodesNeverCollide
<1>1. IInv => CodesNeverCollide
  BY DEF IInv
<1> QED BY <1>1, InductiveInvariant, PTL

\* A counter row is always the highest number in use: nothing is lost by a
\* creation that fails.
THEOREM NoGaps == Spec => []CounterIsTop
<1>1. IInv => CounterIsTop
  BY DEF IInv, LedgerOK, Ledger, CounterIsTop
<1> QED BY <1>1, InductiveInvariant, PTL

\* A step of the transactions is a step of the dispenser or none at all.
LEMMA StepDispenses == ASSUME IInv, [Next]_vars PROVE [Dispenser!Next]_Dispenser!vars
<1> DEFINE last == [x \in Prefixes |-> IF counter[x] = Absent THEN Base[x] ELSE counter[x]]
<1>1. CASE UNCHANGED <<counter, code>>
  BY <1>1 DEF Dispenser!vars
<1>2. ASSUME NEW p \in Requests, Commit(p)
      PROVE  Dispenser!Next
  <2> DEFINE x == tx[p].prefix
             v == tx[p].value
  <2>1. /\ x \in Prefixes /\ v \in Nat /\ code[p] = NoCode /\ v = Ledger(x) + 1
        /\ counter' = [counter EXCEPT ![x] = v]
        /\ code' = [code EXCEPT ![p] = Code(x, v)]
    BY <1>2 DEF IInv, TypeOK, SessionOK, Commit, At
  <2>2. last[x] = Ledger(x)
    BY <2>1 DEF Ledger
  <2>3. last' = [last EXCEPT ![x] = @ + 1]
    BY <2>1, <2>2, LedgerType DEF Absent, IInv, TypeOK
  <2>4. code' = [code EXCEPT ![p] = [prefix |-> x, number |-> last[x] + 1]]
    BY <2>1, <2>2 DEF Code
  <2> QED BY <2>1, <2>3, <2>4 DEF Dispenser!Next, Dispenser!Issue
<1>3. CASE Next
  BY <1>1, <1>2, <1>3 DEF Next, Work, Ask, Seed, EnsureCounterRow, Allocate, CreateRfq, Fail
<1> QED BY <1>1, <1>3 DEF vars

LEMMA InitDispenses == ASSUME Init PROVE Dispenser!Init
  BY LegacyAssumption DEF Init, Dispenser!Init, Absent

\* The code transactions implement the dispenser: consecutive numbers in the
\* order of the commits, and no trace of a creation that fails.
THEOREM ImplementsDispenser == Spec => DispensesInOrder
<1> QED BY InitDispenses, StepDispenses, InductiveInvariant, PTL
        DEF Spec, DispensesInOrder, Dispenser!Spec
=============================================================================
