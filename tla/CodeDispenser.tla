---------------------------- MODULE CodeDispenser ----------------------------
(***************************************************************************)
(* What creating RFQs promises about their codes: each prefix has a ledger *)
(* that starts at its highest old number, and a creation either takes the  *)
(* next number of one ledger or leaves no trace.                           *)
(***************************************************************************)
EXTENDS Integers

CONSTANTS
    Requests,       \* the creations
    Prefixes,       \* "IF" and "IB"
    Base,           \* Base[x]: the highest number in use under prefix x at first
    NoCode          \* the code of an RFQ that was not created

VARIABLES
    last,           \* last[x]: the last number given out under prefix x
    code            \* code[p]: the code of the RFQ created by p

vars == <<last, code>>

Init == last = Base /\ code = [p \in Requests |-> NoCode]

Issue(p, x) ==
    /\ code[p] = NoCode
    /\ last' = [last EXCEPT ![x] = @ + 1]
    /\ code' = [code EXCEPT ![p] = [prefix |-> x, number |-> last[x] + 1]]

Next == \E p \in Requests, x \in Prefixes : Issue(p, x)

Spec == Init /\ [][Next]_vars
=============================================================================
