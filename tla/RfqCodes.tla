------------------------------ MODULE RfqCodes ------------------------------
(***************************************************************************)
(* How concurrent creations get their codes: get_next_code and             *)
(* _ensure_counter_row_exists of src/src/datasources/rfq_datasource.py,    *)
(* inside the one transaction of create(), on PostgreSQL at READ COMMITTED.*)
(*                                                                         *)
(*   - INSERT ... SELECT MAX ... ON CONFLICT DO NOTHING takes its maximum  *)
(*     from the snapshot of the statement; when it then meets a row that   *)
(*     another transaction has inserted and not committed it waits for the *)
(*     end of that transaction, and it does nothing when the row stays;    *)
(*   - UPDATE ... RETURNING waits for the lock of the row and adds to what *)
(*     the row holds by then;                                              *)
(*   - the unique index on rfq_code makes an INSERT wait for an            *)
(*     uncommitted equal code, and fail on a committed one.                *)
(*                                                                         *)
(* A code is a prefix and a number; the four-digit format is left out.     *)
(***************************************************************************)
EXTENDS Integers

CONSTANTS
    Requests,       \* the creations; each is made at most once
    Prefixes,       \* "IF" and "IB"
    Legacy,         \* Legacy[x]: numbers in use under x before the counters
    Base,           \* Base[x]: the highest of them, 0 when there is none
    Migrated,       \* prefixes whose counter row the migration has inserted
    NoCode, Nobody

Top(m, numbers) == m \in numbers \cup {0} /\ \A n \in numbers : n <= m
Highest(numbers) == CHOOSE m \in numbers \cup {0} : Top(m, numbers)

ASSUME LegacyAssumption ==
    /\ Legacy \in [Prefixes -> SUBSET Nat]
    /\ Base \in [Prefixes -> Nat]
    /\ \A x \in Prefixes : Top(Base[x], Legacy[x])
    /\ Migrated \subseteq Prefixes
ASSUME NobodyAssumption == Nobody \notin Requests
ASSUME NoCodeAssumption == NoCode \notin [prefix : Prefixes, number : Nat]

Absent == -1        \* there is no counter row
Code(x, n) == [prefix |-> x, number |-> n]

VARIABLES
    counter,        \* counter[x]: committed last_value, or Absent
    holder,         \* holder[x]: whose transaction has inserted or updated the row
    code,           \* code[p]: the code of the committed RFQ of creation p
    tx              \* tx[p]: the transaction of creation p

vars == <<counter, holder, code, tx>>

PCs == {"idle", "ensure", "insert", "allocate", "create", "commit",
        "done", "failed", "refused", "collided"}

\* seed: MAX in the snapshot of the INSERT; value: last_value as this
\* transaction has left it, meaningful while it holds the row.
Init ==
    /\ counter = [x \in Prefixes |-> IF x \in Migrated THEN Base[x] ELSE Absent]
    /\ holder = [x \in Prefixes |-> Nobody]
    /\ code = [p \in Requests |-> NoCode]
    /\ tx \in [Requests -> [pc : {"idle"}, prefix : Prefixes, seed : {0}, value : {0}]]

\* The numbers of the committed RFQs with prefix x.
InUse(x) ==
    Legacy[x] \cup {code[p].number : p \in {q \in Requests : code[q] # NoCode /\ code[q].prefix = x}}

-----------------------------------------------------------------------------
At(p, pc) == tx[p].pc = pc
Goes(p, pc) == tx' = [tx EXCEPT ![p].pc = pc]

\* Everything create() does before it asks for a code.
Ask(p) ==
    /\ At(p, "idle")
    /\ Goes(p, "ensure")
    /\ UNCHANGED <<counter, holder, code>>

\* A plausible slip: a new counter starts at 0 whatever codes there are.
SeedFromZero(p) ==
    /\ At(p, "ensure")
    /\ tx' = [tx EXCEPT ![p] = [@ EXCEPT !.pc = "insert", !.seed = 0]]
    /\ UNCHANGED <<counter, holder, code>>

Seed(p) ==
    /\ At(p, "ensure")
    /\ tx' = [tx EXCEPT ![p] = [@ EXCEPT !.pc = "insert",
                                          !.seed = Highest(InUse(tx[p].prefix))]]
    /\ UNCHANGED <<counter, holder, code>>

EnsureCounterRow(p) ==
    LET x == tx[p].prefix IN
    /\ At(p, "insert")
    /\ \/ /\ counter[x] # Absent
          /\ Goes(p, "allocate")
          /\ UNCHANGED holder
       \/ /\ counter[x] = Absent /\ holder[x] = Nobody
          /\ holder' = [holder EXCEPT ![x] = p]
          /\ tx' = [tx EXCEPT ![p] = [@ EXCEPT !.pc = "allocate", !.value = tx[p].seed]]
    /\ UNCHANGED <<counter, code>>

\* How codes were once made: the highest code read, plus one.
AllocateFromMax(p) ==
    /\ At(p, "allocate")
    /\ tx' = [tx EXCEPT ![p] = [@ EXCEPT !.pc = "create", !.value = tx[p].seed + 1]]
    /\ UNCHANGED <<counter, holder, code>>

\* last_value as the UPDATE finds it.
LastValue(p, x) == IF holder[x] = p THEN tx[p].value ELSE counter[x]

\* No row to update is the refusal "Failed to allocate RFQ code".
Allocate(p) ==
    LET x == tx[p].prefix IN
    /\ At(p, "allocate")
    /\ IF holder[x] # p /\ counter[x] = Absent
         THEN Goes(p, "refused") /\ UNCHANGED holder
         ELSE /\ holder[x] \in {p, Nobody}
              /\ holder' = [holder EXCEPT ![x] = p]
              /\ tx' = [tx EXCEPT ![p] = [@ EXCEPT !.pc = "create",
                                                !.value = 1 + LastValue(p, x)]]
    /\ UNCHANGED <<counter, code>>

\* A plausible slip: a session that is not closed keeps its row lock.
KeptOpen(p) == holder

Released(p) == [x \in Prefixes |-> IF holder[x] = p THEN Nobody ELSE holder[x]]

\* The INSERT of the RFQ meets the unique index.
CreateRfq(p) ==
    LET x == tx[p].prefix IN
    /\ At(p, "create")
    /\ \A q \in Requests :
          ~ (q # p /\ At(q, "commit") /\ tx[q].prefix = x /\ tx[q].value = tx[p].value)
    /\ IF tx[p].value \in InUse(x)
         THEN Goes(p, "collided") /\ holder' = Released(p)
         ELSE Goes(p, "commit") /\ UNCHANGED holder
    /\ UNCHANGED <<counter, code>>

Commit(p) ==
    LET x == tx[p].prefix IN
    /\ At(p, "commit")
    /\ counter' = [counter EXCEPT ![x] = tx[p].value]
    /\ code' = [code EXCEPT ![p] = Code(x, tx[p].value)]
    /\ holder' = Released(p)
    /\ Goes(p, "done")

\* A plausible slip: the counter survives the rollback, as a sequence would.
FailKeepingNumber(p) ==
    LET x == tx[p].prefix IN
    /\ tx[p].pc \in {"ensure", "insert", "allocate", "create", "commit"}
    /\ counter' = [counter EXCEPT ![x] = IF holder[x] = p THEN tx[p].value ELSE @]
    /\ holder' = Released(p)
    /\ Goes(p, "failed")
    /\ UNCHANGED code

\* A later step of create() raises, or the connection or the worker is lost.
Fail(p) ==
    /\ tx[p].pc \in {"ensure", "insert", "allocate", "create", "commit"}
    /\ holder' = Released(p)
    /\ Goes(p, "failed")
    /\ UNCHANGED <<counter, code>>

Work(p) ==
    Seed(p) \/ EnsureCounterRow(p) \/ Allocate(p) \/ CreateRfq(p) \/ Commit(p)

Next == \E p \in Requests : Ask(p) \/ Work(p) \/ Fail(p)

Spec == Init /\ [][Next]_vars

\* A thread at work goes on, and lock waits end with the holder.
FairSpec == Spec /\ \A p \in Requests : WF_vars(Work(p))

-----------------------------------------------------------------------------
\* Types; and only a creation at work holds a counter row, of its own prefix.
TypeOK ==
    /\ counter \in [Prefixes -> Nat \cup {Absent}]
    /\ holder \in [Prefixes -> Requests \cup {Nobody}]
    /\ code \in [Requests -> [prefix : Prefixes, number : Nat] \cup {NoCode}]
    /\ tx \in [Requests -> [pc : PCs, prefix : Prefixes, seed : Nat, value : Nat]]
    /\ \A x \in Prefixes, p \in Requests :
          holder[x] = p => tx[p].prefix = x /\ tx[p].pc \in {"allocate", "create", "commit"}

\* However creations overlap, start counters or fail, none is turned away by
\* the unique index on rfq_code or for want of a counter row, and no two RFQs
\* get the same code.
CodesNeverCollide ==
    /\ \A p \in Requests : tx[p].pc \notin {"collided", "refused"}
    /\ \A p, q \in Requests : p # q /\ code[p] # NoCode => code[p] # code[q]

\* A counter row never lags behind the codes in use nor runs ahead of them:
\* failed creations leave no gap.
CounterIsTop == \A x \in Prefixes : counter[x] # Absent => Top(counter[x], InUse(x))

Dispenser == INSTANCE CodeDispenser WITH
    last <- [x \in Prefixes |-> IF counter[x] = Absent THEN Base[x] ELSE counter[x]]

\* Creations take consecutive numbers of their prefix in the order of their
\* commits, or leave no trace.
DispensesInOrder == Dispenser!Spec

\* Every creation ends, however long it waits for a counter row.
CreationsEnd ==
    \A p \in Requests :
        ~ At(p, "idle") ~> tx[p].pc \in {"done", "failed", "refused", "collided"}
=============================================================================
