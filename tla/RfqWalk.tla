------------------------------- MODULE RfqWalk -------------------------------
(***************************************************************************)
(* What the service promises about one RFQ, whatever the form fields,      *)
(* subtasks and blockers along the way: its stages are done strictly one   *)
(* after the other; one decision closes it, for good; Awarded and Lost are *)
(* reached by doing the last stage; Cancelled keeps what was done and      *)
(* drops exactly the rest.                                                 *)
(***************************************************************************)
EXTENDS Naturals

CONSTANT MaxStages

VARIABLES
    status,     \* "Absent", "InPreparation" or a decision
    open,       \* the stages still ahead, the live one included
    done,       \* the stages completed
    dropped     \* the stages given up

walkVars == <<status, open, done, dropped>>

WalkInit == status = "Absent" /\ open = {} /\ done = {} /\ dropped = {}

Begin ==
    /\ status = "Absent"
    /\ \E n \in 1..MaxStages : open' = 1..n
    /\ status' = "InPreparation"
    /\ UNCHANGED <<done, dropped>>

\* The live stage is the first of those still open.
Live(k) == k \in open /\ \A j \in open : k <= j

Step ==
    \E k \in open :
        /\ status = "InPreparation"
        /\ Live(k)
        /\ open # {k}
        /\ open' = open \ {k}
        /\ done' = done \cup {k}
        /\ UNCHANGED <<status, dropped>>

Decide ==
    \E k \in open, decision \in {"Awarded", "Lost"} :
        /\ status = "InPreparation"
        /\ open = {k}
        /\ status' = decision
        /\ open' = {}
        /\ done' = done \cup {k}
        /\ UNCHANGED dropped

Cancel ==
    /\ status = "InPreparation"
    /\ status' = "Cancelled"
    /\ dropped' = open
    /\ open' = {}
    /\ UNCHANGED done

WalkNext == Begin \/ Step \/ Decide \/ Cancel
WalkSpec == WalkInit /\ [][WalkNext]_walkVars
=============================================================================
