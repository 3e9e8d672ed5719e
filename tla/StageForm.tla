------------------------------ MODULE StageForm ------------------------------
(***************************************************************************)
(* The workspace of one stage: clients PATCH it, and one may advance it,   *)
(* as the last of the workflow, to an outcome.  Each does so in a          *)
(* transaction that reads the row (Load) and later writes back the columns *)
(* that changed with respect to what it read (Save, Complete).  Nothing    *)
(* locks the row in between: the service runs at READ COMMITTED and keeps  *)
(* no version column.  With one client the requests are serial.            *)
(* advance() of another stage writes nothing of its workspace.             *)
(*                                                                         *)
(* Besides the form, captured_data holds workflow_history_events, the      *)
(* stage's own audit trail, cut to its last HistoryLimit entries (100 in   *)
(* the code).  The trail lives in the same JSON column as the captured     *)
(* fields and the automatic blocker source, so all three are written       *)
(* together; the blocker's status and reason are columns of their own.     *)
(***************************************************************************)
EXTENDS FormRules, SequencesExt

CONSTANTS
    Clients,
    Mandatory,      \* the stage's mandatory_fields, in order
    FormFields,     \* the fields clients fill in
    HistoryLimit

ASSUME HistoryLimitAssumption == HistoryLimit \in Nat \ {0}
ASSUME FormFieldsAssumption == FormFields \subseteq Fields /\ Mandatory \in Seq(FormFields)

VARIABLES
    form,           \* the row: captured fields and blocker
    history,        \* captured_data["workflow_history_events"]
    completed,      \* advance() has taken the stage, which is current no more
    request         \* [Clients -> the row a client's transaction has read]

vars == <<form, history, completed, request>>

NoRequest == [open |-> FALSE, form |-> EmptyForm, history |-> <<>>, completed |-> FALSE]

Init ==
    /\ form = EmptyForm
    /\ history = <<>>
    /\ completed = FALSE
    /\ request = [c \in Clients |-> NoRequest]

-----------------------------------------------------------------------------
(***************************************************************************)
(* The events one PATCH adds: _append_decision_history_events, then        *)
(* _append_blocker_history_events.  An entry about the blocker has the     *)
(* field "blocker" here.                                                   *)
(***************************************************************************)
TrackedFields == <<"go_nogo_decision", "design_approved", "boq_completed",
                   "rfq_terminal_outcome", "rfq_lost_reason_code">>

\* get_tracked_stage_history_field_value
TrackedValue(captured, field) ==
    CASE field = "rfq_terminal_outcome" ->
            IF captured[field] \in {"lost", "lost_other"} THEN "lost" ELSE captured[field]
      [] field = "rfq_lost_reason_code" ->
            IF captured["rfq_terminal_outcome"] \in {"lost", "lost_other"}
              THEN captured["rfq_terminal_outcome"] ELSE None
      [] OTHER -> captured[field]

Event(type, field, value, reason) ==
    [type |-> type, field |-> field, value |-> value, reason |-> reason]

\* The trail's entry for the k-th tracked field: a new value leaves one, a value
\* that is gone none.  The slip keeps the first decision on a field only.
DecisionEventFirstOnly(before, after, k) ==
    LET old == TrackedValue(before.captured, TrackedFields[k])
        new == TrackedValue(after.captured, TrackedFields[k])
    IN  IF old = None /\ new # None
          THEN <<Event("decision_recorded", TrackedFields[k], new, None)>> ELSE <<>>

DecisionEvent(before, after, k) ==
    LET old == TrackedValue(before.captured, TrackedFields[k])
        new == TrackedValue(after.captured, TrackedFields[k])
    IN  IF old # new /\ new # None
          THEN <<Event(IF TrackedFields[k] = "rfq_terminal_outcome" THEN "terminal_outcome_recorded"
                                                                    ELSE "decision_recorded",
                       TrackedFields[k], new, None)>>
          ELSE <<>>

DecisionEvents(before, after) ==
    DecisionEvent(before, after, 1) \o DecisionEvent(before, after, 2)
        \o DecisionEvent(before, after, 3) \o DecisionEvent(before, after, 4)
        \o DecisionEvent(before, after, 5)

BlockerEvents(before, after) ==
    CASE after.blocker = "Blocked" /\ before.blocker # "Blocked"
           -> <<Event("blocker_created", "blocker", None, after.reason)>>
      [] /\ after.blocker = "Blocked" /\ before.blocker = "Blocked"
         /\ after.reason # None /\ after.reason # before.reason
           -> <<Event("blocker_updated", "blocker", None, after.reason)>>
      [] after.blocker # "Blocked" /\ before.blocker = "Blocked"
           -> <<Event("blocker_resolved", "blocker", None, before.reason)>>
      [] OTHER -> <<>>

LastEvents(events) ==
    SubSeq(events, IF Len(events) > HistoryLimit THEN Len(events) - HistoryLimit + 1 ELSE 1,
           Len(events))

\* A plausible slip: normalize_stage_captured_data drops the trail from the
\* merged data, and the recorder forgets to start from the row's old one.
NextHistoryFromMerged(before, after, past) ==
    LastEvents(DecisionEvents(before, after) \o BlockerEvents(before, after))

NextHistory(before, after, past) ==
    LastEvents(past \o DecisionEvents(before, after) \o BlockerEvents(before, after))

(***************************************************************************)
(* The event advance() adds.  Its reason is a text: a detail the client    *)
(* may give, after the label of the lost reason if the outcome is Lost,    *)
(* for which the code stands here.  append_terminal_outcome_history_event  *)
(* does not repeat the last event.                                         *)
(***************************************************************************)
\* A plausible slip: the entry is written like that of a PATCH.
OutcomeReasonsOmitted(after) == {None}

OutcomeReasons(after) ==
    IF TrackedValue(after.captured, "rfq_terminal_outcome") = "lost"
      THEN {TrackedValue(after.captured, "rfq_lost_reason_code")}
      ELSE {None, "detail"}

OutcomeEvent(after, why) ==
    Event("terminal_outcome_recorded", "rfq_terminal_outcome",
          TrackedValue(after.captured, "rfq_terminal_outcome"), why)

HistoryWithOutcome(after, why, past) ==
    LastEvents(IF past # <<>> /\ Last(past) = OutcomeEvent(after, why)
                 THEN past ELSE Append(past, OutcomeEvent(after, why)))

-----------------------------------------------------------------------------
Load(c) ==
    /\ ~ request[c].open
    /\ request' = [request EXCEPT ![c] = [open |-> TRUE, form |-> form, history |-> history,
                                         completed |-> completed]]
    /\ UNCHANGED <<form, history, completed>>

\* An UPDATE names only the columns whose value differs from the one read.
Column(read, computed, stored) == IF computed = read THEN stored ELSE computed

Written(read, computed, past, trail) ==
    LET json(f, h) == <<f.captured, f.auto, h>>
        data == Column(json(read, past), json(computed, trail), json(form, history))
    IN  /\ form' = [captured |-> data[1],
                    auto     |-> data[2],
                    blocker  |-> Column(read.blocker, computed.blocker, form.blocker),
                    reason   |-> Column(read.reason, computed.reason, form.reason)]
        /\ history' = data[3]

Bodies == {body \in PatchBodies(FormFields) : ValidPatch(body)}

Save(c) ==
    LET read == request[c] IN
    /\ read.open
    /\ \E next \in Answers(Bodies, read.form, Mandatory) :
          Written(read.form, next, read.history, NextHistory(read.form, next, read.history))
    /\ request' = [request EXCEPT ![c] = NoRequest]
    /\ UNCHANGED completed

\* advance() to an outcome.  That the stage is current is part of what was read;
\* its subtasks and the state of the RFQ are those of RfqLifecycle.
Complete(c) ==
    \E asked \in ValuesOf("rfq_terminal_outcome") \cup {None} :
        LET read == request[c]
            next == OutcomeForm(read.form, asked)
        IN  /\ read.open /\ ~ read.completed
            /\ read.form.blocker # "Blocked"
            /\ MandatoryCaptured(read.form, Mandatory)
            /\ ~ NoGoDecided(read.form, Mandatory)
            /\ OutcomeComplete(read.form, asked)
            /\ \E why \in OutcomeReasons(next) :
                  Written(read.form, next, read.history,
                          HistoryWithOutcome(next, why, read.history))
            /\ completed' = TRUE
            /\ request' = [request EXCEPT ![c] = NoRequest]

\* A refused request (422) rolls back, as does one whose worker dies.
Abandon(c) ==
    /\ request[c].open
    /\ request' = [request EXCEPT ![c] = NoRequest]
    /\ UNCHANGED <<form, history, completed>>

Next == \E c \in Clients : Load(c) \/ Save(c) \/ Complete(c) \/ Abandon(c)

Spec == Init /\ [][Next]_vars

-----------------------------------------------------------------------------
HistoryTypes == {"decision_recorded", "terminal_outcome_recorded",
                 "blocker_created", "blocker_updated", "blocker_resolved"}

\* Types of the row, its trail and the rows transactions have read.
TypeOK ==
    /\ form \in Form
    /\ Len(history) <= HistoryLimit
    /\ \A k \in DOMAIN history : history[k].type \in HistoryTypes
    /\ completed \in BOOLEAN
    /\ \A c \in Clients : request[c].form \in Form

\* A stage whose mandatory decision is "no" is Blocked, and says why; since
\* advance() looks at the blocker only, this is what keeps a stage with a
\* negative decision from being completed.
NegativeDecisionBlocks ==
    NegativeDecision(Mandatory, form.captured) # None
        => form.blocker = "Blocked" /\ form.reason # None

\* A Blocked stage names a reason: the 409 of advance() and the summaries show
\* it (validate_blocker_fields asks for one, but only of the request).
BlockedHasReason == form.blocker = "Blocked" => form.reason # None

\* While a mandatory decision is "no" the automatic source names it, after any
\* requests with and without captured_data, also those that name a source
\* themselves: unless a client sends another source, a later "yes" to that
\* decision lifts the blocker, and a "yes" to another does not.
SourceNamesTheNo ==
    NegativeDecision(Mandatory, form.captured) # None
        => form.auto = NegativeDecision(Mandatory, form.captured)

(***************************************************************************)
(* What an entry tells of the row.  The outcome's entry of advance() tells *)
(* the lost reason as well: the request may have changed it, and no entry  *)
(* of its own says so.                                                     *)
(***************************************************************************)
Subjects == {"blocker"} \cup {TrackedFields[k] : k \in 1..5}

TellsLostReason(e) ==
    \/ e.field = "rfq_lost_reason_code"
    \/ e.field = "rfq_terminal_outcome" /\ e.value = "lost" /\ e.reason # None

Tells(e, subject) ==
    IF subject = "rfq_lost_reason_code" THEN TellsLostReason(e) ELSE e.field = subject

BlockerTold(e, row) ==
    IF e.type = "blocker_resolved" THEN row.blocker # "Blocked"
    ELSE row.blocker = "Blocked" /\ row.reason = e.reason

\* A lost reason may be gone since, with the outcome Lost it explained: that
\* leaves no entry.
LostReasonTold(e, row) ==
    \/ row.captured["rfq_terminal_outcome"] = "awarded"
    \/ TrackedValue(row.captured, "rfq_lost_reason_code")
          = IF e.field = "rfq_lost_reason_code" THEN e.value ELSE e.reason

Told(e, subject, row) ==
    CASE subject = "blocker"              -> BlockerTold(e, row)
      [] subject = "rfq_lost_reason_code" -> LostReasonTold(e, row)
      [] OTHER                            -> e.value = TrackedValue(row.captured, subject)

\* The audit trail agrees with the row, whether a PATCH or advance() wrote last:
\* its last entry on the blocker tells whether the stage is Blocked and for which
\* reason, and its last entry on a decision, on the outcome and on the lost
\* reason tells the value captured.
TrailTellsTheRow ==
    \A subject \in Subjects, k \in DOMAIN history :
        /\ Tells(history[k], subject)
        /\ \A j \in k+1..Len(history) : ~ Tells(history[j], subject)
        => Told(history[k], subject, form)

\* The trail is only appended to: a request never drops or rewrites an earlier
\* entry, except the oldest ones when the trail is at its limit.
TrailIsAppendOnly ==
    [][\E cut \in 0..Len(history) :
          /\ IsPrefix(SubSeq(history, cut + 1, Len(history)), history')
          /\ cut > 0 => Len(history') = HistoryLimit]_history
=============================================================================
