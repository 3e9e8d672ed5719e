--------------------------- MODULE WorkflowDefault ---------------------------
(***************************************************************************)
(* The workflows and which of them is the default one.  PATCH of a         *)
(* workflow loads its row, with is_default true sends one UPDATE that      *)
(* clears the flag wherever it is set, and then writes the columns that    *)
(* changed; nothing else guards the flag.  Requests overlap as in          *)
(* RfqConcurrent.  The bulk UPDATE finds its rows in a snapshot, waits for *)
(* those that are locked, and looks at them once more when it gets them.   *)
(*                                                                         *)
(* The base data is written by seed_base_data, which may be run again when *)
(* no request is under way.                                                *)
(***************************************************************************)
EXTENDS Naturals, FiniteSets

CONSTANTS
    Workflows,
    Defined,        \* those that seed_base_data defines
    SeedDefault,    \* the one it defines as the default
    Requests,       \* threads that serve PATCH requests, one after another
    Bodies          \* what the clients send

\* The two columns are nullable, and a body may leave a field out.
Flag == {"yes", "no", "null"}
AnyBody == [workflow : Workflows, is_default : Flag \cup {"unset"}, is_active : Flag \cup {"unset"}]

WorkflowsOK ==
    /\ Defined \subseteq Workflows
    /\ SeedDefault \in Defined
    /\ Bodies \subseteq AnyBody

VARIABLES
    db,             \* the committed rows
    holder,         \* holder[w]: the requests (at most one) that have locked row w
    version,        \* version[w]: the row as written by its holder
    tx              \* tx[p]: the request under way

vars == <<db, holder, version, tx>>

SeededRow(w) == [is_default |-> IF w = SeedDefault THEN "yes" ELSE "no", is_active |-> "yes"]

\* seen: the row as loaded; targets: the rows the bulk UPDATE has still to
\* clear; alone (history): no other request has been under way beside it.
NoRequest == [pc |-> "idle", body |-> [workflow |-> SeedDefault, is_default |-> "unset", is_active |-> "unset"],
              seen |-> SeededRow(SeedDefault), targets |-> {}, alone |-> TRUE]

Init ==
    /\ db = [w \in Workflows |-> SeededRow(w)]
    /\ holder = [w \in Workflows |-> {}]
    /\ version = db
    /\ tx = [p \in Requests |-> NoRequest]

Defaults(rows) == {w \in Workflows : rows[w].is_default = "yes"}

-----------------------------------------------------------------------------
At(p, pc) == tx[p].pc = pc

Others(p) == {q \in Requests \ {p} : ~ At(q, "idle")}

\* get_by_id of a PATCH.
Load(p) ==
    /\ At(p, "idle")
    /\ \E body \in Bodies :
          tx' = [q \in Requests |->
                    IF q = p THEN [pc |-> IF body.is_default = "yes" THEN "clear" ELSE "write",
                                   body |-> body, seen |-> db[body.workflow], targets |-> {},
                                   alone |-> Others(p) = {}]
                    ELSE [tx[q] EXCEPT !.alone = @ /\ At(q, "idle")]]
    /\ UNCHANGED <<db, holder, version>>

\* clear_default: the statement begins ...
Clear(p) ==
    /\ At(p, "clear")
    /\ tx' = [tx EXCEPT ![p].pc = "clearing", ![p].targets = Defaults(db)]
    /\ UNCHANGED <<db, holder, version>>

\* ... takes its rows, passing over those that are no longer the default ...
ClearRow(p, w) ==
    /\ At(p, "clearing")
    /\ w \in tx[p].targets
    /\ holder[w] = {}
    /\ IF db[w].is_default = "yes"
         THEN /\ holder' = [holder EXCEPT ![w] = {p}]
              /\ version' = [version EXCEPT ![w] = [db[w] EXCEPT !.is_default = "no"]]
         ELSE UNCHANGED <<holder, version>>
    /\ tx' = [tx EXCEPT ![p].targets = @ \ {w}]
    /\ UNCHANGED db

\* ... and ends, the flag of the loaded row being "no" in memory as well.
Cleared(p) ==
    /\ At(p, "clearing")
    /\ tx[p].targets = {}
    /\ tx' = [tx EXCEPT ![p].pc = "write", ![p].seen.is_default = "no"]
    /\ UNCHANGED <<db, holder, version>>

\* The row as p finds it.
Found(p, w) == IF holder[w] = {p} THEN version[w] ELSE db[w]

\* The columns of the body that differ from what the session holds.
Column(asked, seen, stored) == IF asked \in {"unset", seen} THEN stored ELSE asked

Patched(row, p) ==
    LET body == tx[p].body
        seen == tx[p].seen
    IN  [is_default |-> Column(body.is_default, seen.is_default, row.is_default),
         is_active  |-> Column(body.is_active, seen.is_active, row.is_active)]

\* setattr for each field of the body, then flush; name and description are
\* left out, so that a row is always locked.
WriteRow(p) ==
    LET w == tx[p].body.workflow IN
    /\ At(p, "write")
    /\ holder[w] \subseteq {p}
    /\ holder' = [holder EXCEPT ![w] = {p}]
    /\ version' = [version EXCEPT ![w] = Patched(Found(p, w), p)]
    /\ tx' = [tx EXCEPT ![p].pc = "commit"]
    /\ UNCHANGED db

Commit(p) ==
    /\ At(p, "commit")
    /\ db' = [w \in Workflows |-> Found(p, w)]
    /\ holder' = [w \in Workflows |-> holder[w] \ {p}]
    /\ tx' = [tx EXCEPT ![p] = NoRequest]
    /\ UNCHANGED version

\* The worker or the connection is lost, or the server ends a deadlock.
Die(p) ==
    /\ ~ At(p, "idle")
    /\ holder' = [w \in Workflows |-> holder[w] \ {p}]
    /\ tx' = [tx EXCEPT ![p] = NoRequest]
    /\ UNCHANGED <<db, version>>

\* seed_base_data on a database that has been in use: the workflows it defines
\* become what it defines, the others stay.
Reseed ==
    /\ \A p \in Requests : At(p, "idle")
    /\ db' = [w \in Workflows |-> IF w \in Defined THEN SeededRow(w) ELSE db[w]]
    /\ UNCHANGED <<holder, version, tx>>

Next ==
    \/ \E p \in Requests :
          \/ Load(p) \/ Clear(p) \/ Cleared(p) \/ WriteRow(p) \/ Commit(p) \/ Die(p)
          \/ \E w \in Workflows : ClearRow(p, w)
    \/ Reseed

Spec == Init /\ [][Next]_vars

-----------------------------------------------------------------------------
\* A PATCH that makes a workflow the default and that no other overlaps leaves
\* it the only default, whatever overlapping requests, deaths and reseedings
\* have left behind.
LoneDefaultStandsAlone ==
    [][\A p \in Requests : Commit(p) /\ tx[p].alone /\ tx[p].body.is_default = "yes" =>
          Defaults(db') = {tx[p].body.workflow}]_vars

\* A request loses the default only for a new one: as long as no client sets
\* the flag to false or null itself, there is a default after every overlap.
DefaultNeverLost ==
    (\A body \in Bodies : body.is_default \in {"unset", "yes"}) => Defaults(db) # {}

-----------------------------------------------------------------------------
\* "only one can be True", which two overlapping PATCHes break: the snapshot of
\* each bulk UPDATE misses the default that the other is about to commit.
OneDefault == Cardinality(Defaults(db)) <= 1
=============================================================================
