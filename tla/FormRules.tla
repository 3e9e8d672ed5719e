------------------------------ MODULE FormRules ------------------------------
(***************************************************************************)
(* What writes a stage's form, as operators on it: PATCH                   *)
(* /rfqs/{id}/stages/{stage_id} (the request validator of                  *)
(* RfqStageUpdateRequest and RfqStageController._normalize_stage_update)   *)
(* and advance() of the last stage to an outcome.                          *)
(*                                                                         *)
(* A form is what the code keeps of the stage's workspace: captured_data   *)
(* (one value per field), the blocker columns, and the field named by      *)
(* workflow_auto_blocker_source inside captured_data.  None stands for     *)
(* NULL or an absent key.  A captured value is the normalised one: every   *)
(* spelling the translator accepts maps to one of these, and every other   *)
(* is a 422 that changes nothing.  A "lost" outcome carries its reason     *)
(* code ("lost"), or the code "other" with its detail ("lost_other").      *)
(***************************************************************************)
EXTENDS Naturals, Sequences

CONSTANTS
    Reasons,            \* blocker reason codes
    Sources             \* automatic sources that clients name themselves

None == "none"
ASSUME ReasonsAssumption == None \notin Reasons

YesNoFields == {"design_approved", "boq_completed"}
ASSUME SourcesAssumption == Sources \subseteq YesNoFields

Fields == YesNoFields \cup {"go_nogo_decision", "final_price", "rfq_terminal_outcome"}

ValuesOf(field) ==
    CASE field \in YesNoFields            -> {"yes", "no"}
      [] field = "go_nogo_decision"       -> {"go", "no_go"}
      [] field = "rfq_terminal_outcome"   -> {"awarded", "lost", "lost_other"}
      [] OTHER                            -> {"given"}

Values == UNION {ValuesOf(f) : f \in Fields}

BlockerStatuses == {None, "Blocked", "Resolved"}

Form == [captured : [Fields -> Values \cup {None}],
         blocker  : BlockerStatuses,
         reason   : Reasons \cup {None},
         auto     : YesNoFields \cup {None}]

EmptyForm == [captured |-> [f \in Fields |-> None],
              blocker  |-> None, reason |-> None, auto |-> None]

(***************************************************************************)
(* The body of a PATCH.  sent: captured_data is present; capture: its      *)
(* fields (null values have been dropped by normalize_stage_captured_data, *)
(* so a captured field is never cleared); source: the client's own         *)
(* workflow_auto_blocker_source in captured_data, which the code merges    *)
(* like any field (one that is no yes/no field is a 422).  blocker is      *)
(* "unset" when blocker_status is absent, None when an explicit null.      *)
(***************************************************************************)
Captures(fields) ==
    UNION {{c \in [given -> Values] : \A f \in given : c[f] \in ValuesOf(f)} :
              given \in SUBSET fields}

PatchBodies(fields) ==
    {body \in [sent    : BOOLEAN,
               capture : Captures(fields),
               source  : Sources \cup {None},
               blocker : BlockerStatuses \cup {"unset"},
               reason  : Reasons \cup {None}] :
        ~ body.sent => DOMAIN body.capture = {} /\ body.source = None}

\* find_negative_update_decision_field: the request itself says "no".
SaysNo(body) == \E f \in YesNoFields \cap DOMAIN body.capture : body.capture[f] = "no"

RequestedBlocker(body) == IF SaysNo(body) THEN "Blocked" ELSE body.blocker
RequestedReason(body) == IF RequestedBlocker(body) = "Blocked" THEN body.reason ELSE None

\* validate_blocker_fields raises (422) when this is false.
ValidPatch(body) ==
    /\ RequestedBlocker(body) = "Blocked" => body.reason # None
    /\ body.reason # None => RequestedBlocker(body) \in {"Blocked", "Resolved"}

(***************************************************************************)
(* _normalize_stage_update.                                                *)
(***************************************************************************)
Merged(form, body) ==
    [f \in Fields |-> IF f \in DOMAIN body.capture THEN body.capture[f]
                                                   ELSE form.captured[f]]

MergedSource(form, body) == IF body.source # None THEN body.source ELSE form.auto

\* find_negative_blocking_decision: the first mandatory yes/no field that is
\* "no"; other fields are not looked at.
NegativeDecisions(mandatory, captured) ==
    {k \in DOMAIN mandatory : mandatory[k] \in YesNoFields /\ captured[mandatory[k]] = "no"}

NegativeDecision(mandatory, captured) ==
    LET negative == NegativeDecisions(mandatory, captured) IN
    IF negative = {} THEN None
    ELSE mandatory[CHOOSE k \in negative : \A j \in negative : k <= j]

EffectiveReason(form, body) ==
    IF RequestedReason(body) # None THEN RequestedReason(body) ELSE form.reason

\* The 422 raised when a decision is negative and no reason was ever given.
PatchAccepted(form, mandatory, body) ==
    /\ ValidPatch(body)
    /\ NegativeDecision(mandatory, Merged(form, body)) # None
          => EffectiveReason(form, body) # None

\* The blocker the code raised itself is lifted once the decision its source
\* names is "yes", unless the same request asks for "Blocked".
LiftsAutoBlocker(form, body) ==
    /\ MergedSource(form, body) # None
    /\ form.blocker = "Blocked"
    /\ Merged(form, body)[MergedSource(form, body)] = "yes"
    /\ RequestedBlocker(body) # "Blocked"

\* A plausible slip: an absent blocker_status is written like a sent one.
NextBlockerUnsetWritten(form, mandatory, body) ==
    CASE NegativeDecision(mandatory, Merged(form, body)) # None -> "Blocked"
      [] /\ NegativeDecision(mandatory, Merged(form, body)) = None
         /\ LiftsAutoBlocker(form, body)                        -> "Resolved"
      [] OTHER -> RequestedBlocker(body)

NextBlocker(form, mandatory, body) ==
    CASE NegativeDecision(mandatory, Merged(form, body)) # None -> "Blocked"
      [] /\ NegativeDecision(mandatory, Merged(form, body)) = None
         /\ LiftsAutoBlocker(form, body)                        -> "Resolved"
      [] OTHER -> IF RequestedBlocker(body) = "unset" THEN form.blocker
                                                      ELSE RequestedBlocker(body)

\* A plausible slip: the reason already in the row is forgotten.
NextReasonFromRequest(form, mandatory, body) ==
    IF NegativeDecision(mandatory, Merged(form, body)) # None THEN RequestedReason(body)
    ELSE form.reason

\* A request that only says "Resolved" leaves the old reason code in the row.
NextReason(form, mandatory, body) ==
    CASE NegativeDecision(mandatory, Merged(form, body)) # None
           -> EffectiveReason(form, body)
      [] /\ NegativeDecision(mandatory, Merged(form, body)) = None
         /\ LiftsAutoBlocker(form, body)
           -> None
      [] OTHER
           -> CASE RequestedBlocker(body) = "Blocked" -> RequestedReason(body)
                [] RequestedBlocker(body) = None      -> None
                [] OTHER                              -> form.reason

\* A plausible slip: a source that is already named is kept.
NextAutoKept(form, mandatory, body) ==
    CASE ~ body.sent \/ form.auto # None -> form.auto
      [] OTHER -> NegativeDecision(mandatory, Merged(form, body))

\* captured_data is written back only when the request sent it, so otherwise
\* workflow_auto_blocker_source keeps its value.
NextAuto(form, mandatory, body) ==
    CASE ~ body.sent -> form.auto
      [] body.sent /\ NegativeDecision(mandatory, Merged(form, body)) # None
           -> NegativeDecision(mandatory, Merged(form, body))
      [] OTHER
           -> IF NextBlocker(form, mandatory, body) = "Blocked"
                THEN MergedSource(form, body) ELSE None

\* A plausible slip: the client's blocker_status wins over a decision "no".
PatchedFormClientWins(form, mandatory, body) ==
    [captured |-> Merged(form, body),
     blocker  |-> IF RequestedBlocker(body) # "unset" THEN RequestedBlocker(body)
                  ELSE NextBlocker(form, mandatory, body),
     reason   |-> NextReason(form, mandatory, body),
     auto     |-> NextAuto(form, mandatory, body)]

PatchedForm(form, mandatory, body) ==
    [captured |-> Merged(form, body),
     blocker  |-> NextBlocker(form, mandatory, body),
     reason   |-> NextReason(form, mandatory, body),
     auto     |-> NextAuto(form, mandatory, body)]

\* What the requests that are not refused make of a form.
Answers(bodies, form, mandatory) ==
    {PatchedForm(form, mandatory, body) :
        body \in {b \in bodies : PatchAccepted(form, mandatory, b)}}

(***************************************************************************)
(* _validate_mandatory_fields: every field the template lists has a value. *)
(***************************************************************************)
MandatoryCaptured(form, mandatory) ==
    \A k \in DOMAIN mandatory : form.captured[mandatory[k]] # None

\* The decision counts only where the template makes it mandatory.
NoGoDecided(form, mandatory) ==
    /\ \E m \in DOMAIN mandatory : mandatory[m] = "go_nogo_decision"
    /\ form.captured["go_nogo_decision"] = "no_go"

(***************************************************************************)
(* _handle_terminal_outcome_completion: the outcome asked for in the       *)
(* request, or else the one captured, is written to captured_data with its *)
(* lost reason; the detail of the lost reason "other" can only come from   *)
(* the captured data.  Blocker and automatic source stay.                  *)
(***************************************************************************)
OutcomeOf(form, asked) ==
    IF asked # None THEN asked ELSE form.captured["rfq_terminal_outcome"]

OutcomeComplete(form, asked) ==
    /\ OutcomeOf(form, asked) # None
    /\ OutcomeOf(form, asked) = "lost_other"
          => form.captured["rfq_terminal_outcome"] = "lost_other"

OutcomeForm(form, asked) ==
    [form EXCEPT !.captured["rfq_terminal_outcome"] = OutcomeOf(form, asked)]
=============================================================================
