--------------------------- MODULE StageFormProofs ---------------------------
(***************************************************************************)
(* Proofs about StageForm with one client, for any mandatory fields,       *)
(* reasons and limit of the trail: what PATCHes and an advance that run    *)
(* one after another keep of the form and of its trail, and what the same  *)
(* PATCH does when it is made twice.  With two clients                     *)
(* NegativeDecisionBlocks fails (run StageFormRace_NegativeDecisionBlocks),*)
(* so one client is the hypothesis of each theorem about the specification.*)
(***************************************************************************)
EXTENDS StageForm, SequenceTheorems, FiniteSetTheorems, WellFoundedInduction, TLAPS

OneClient == \A c, d \in Clients : c = d

-----------------------------------------------------------------------------
(* The form.                                                               *)

\* A PATCH that is accepted leaves a form that is Blocked, with a reason, if a
\* mandatory decision is "no", and with a reason if it is Blocked at all
\* (_normalize_stage_update).
LEMMA PatchKeepsForm ==
    ASSUME NEW old, NEW mandatory, NEW body,
           PatchAccepted(old, mandatory, body),
           old.blocker = "Blocked" => old.reason # None
    PROVE  LET new == PatchedForm(old, mandatory, body) IN
           /\ NegativeDecision(mandatory, new.captured) # None
                => new.blocker = "Blocked" /\ new.reason # None
           /\ new.blocker = "Blocked" => new.reason # None
<1> DEFINE new == PatchedForm(old, mandatory, body)
           merged == Merged(old, body)
<1>1. /\ new.captured = merged
      /\ new.blocker = NextBlocker(old, mandatory, body)
      /\ new.reason = NextReason(old, mandatory, body)
  BY DEF PatchedForm
<1>2. ASSUME NegativeDecision(mandatory, merged) # None
      PROVE  new.blocker = "Blocked" /\ new.reason # None
  BY <1>1, <1>2 DEF PatchAccepted, NextBlocker, NextReason
<1>3. ASSUME NegativeDecision(mandatory, merged) = None, new.blocker = "Blocked"
      PROVE  new.reason # None
  <2>1. ~ LiftsAutoBlocker(old, body)
    BY <1>1, <1>3 DEF NextBlocker
  <2>2. CASE RequestedBlocker(body) = "Blocked"
    <3>1. body.reason # None
      BY <2>2 DEF PatchAccepted, ValidPatch
    <3>2. RequestedReason(body) # None
      BY <2>2, <3>1 DEF RequestedReason
    <3>3. new.reason = RequestedReason(body)
      BY <1>1, <1>3, <2>1, <2>2 DEF NextReason, None
    <3> QED BY <3>2, <3>3
  <2>3. CASE RequestedBlocker(body) # "Blocked"
    <3>1. RequestedBlocker(body) = "unset" /\ old.blocker = "Blocked"
      BY <1>1, <1>3, <2>1, <2>3 DEF NextBlocker
    <3>2. new.reason = old.reason
      BY <1>1, <1>3, <2>1, <3>1 DEF NextReason, None
    <3> QED BY <3>1, <3>2
  <2> QED BY <2>2, <2>3
<1> QED BY <1>1, <1>2, <1>3

\* A set of naturals that is not empty has a least element.
LEMMA LeastExists ==
    ASSUME NEW S \in SUBSET Nat, S # {}
    PROVE  \E x \in S : \A y \in S : x <= y
<1> DEFINE upTo(n) == 1..n
           T == {upTo(n) : n \in S}
<1>1. \A n \in Nat : upTo(n) \in FiniteSubsetsOf(Nat)
  BY FS_Interval DEF FiniteSubsetsOf
<1>2. T \subseteq FiniteSubsetsOf(Nat) /\ T # {}
  BY <1>1
<1>3. \E t \in T : \A u \in T : <<u, t>> \notin StrictSubsetOrdering(Nat)
  BY <1>2, FS_StrictSubsetOrderingWellFounded, WFMin
<1>4. PICK x \in S : \A y \in S : <<upTo(y), upTo(x)>> \notin StrictSubsetOrdering(Nat)
  BY <1>3
<1>5. ASSUME NEW y \in S, y < x
      PROVE  FALSE
  <2>1. upTo(y) \subseteq upTo(x) /\ x \in upTo(x) /\ x \notin upTo(y)
    BY <1>5
  <2>2. upTo(y) # upTo(x)
    BY <2>1
  <2>3. upTo(x) \in SUBSET Nat /\ upTo(y) \in SUBSET Nat
    OBVIOUS
  <2>4. <<upTo(y), upTo(x)>> \in StrictSubsetOrdering(Nat)
    <3> HIDE DEF upTo
    <3> QED BY <2>1, <2>2, <2>3 DEF StrictSubsetOrdering
  <2> QED BY <1>4, <2>4
<1> QED BY <1>5

\* The decision that blocks is one of the yes/no fields, or none.
LEMMA NegativeDecisionNamed ==
    ASSUME NEW captured
    PROVE  /\ NegativeDecision(Mandatory, captured) \in YesNoFields \cup {None}
           /\ NegativeDecision(Mandatory, captured) = None
                <=> NegativeDecisions(Mandatory, captured) = {}
<1> DEFINE negative == NegativeDecisions(Mandatory, captured)
<1>1. CASE negative = {}
  BY <1>1 DEF NegativeDecision
<1>2. CASE negative # {}
  <2> DEFINE first == CHOOSE k \in negative : \A j \in negative : k <= j
  <2>1. negative \subseteq Nat
    BY FormFieldsAssumption DEF NegativeDecisions
  <2>2. first \in negative
    BY <1>2, <2>1, LeastExists
  <2>3. NegativeDecision(Mandatory, captured) = Mandatory[first]
    BY <1>2 DEF NegativeDecision
  <2>4. Mandatory[first] \in YesNoFields
    BY <2>2 DEF NegativeDecisions
  <2> QED BY <1>2, <2>3, <2>4 DEF YesNoFields, None
<1> QED BY <1>1, <1>2

\* A form, each field of which has a value of its own or none.
Typed(f) ==
    /\ f \in Form
    /\ \A field \in Fields : f.captured[field] \in ValuesOf(field) \cup {None}

\* A new stage says nothing.
LEMMA NothingSaid ==
    Typed(EmptyForm) /\ NegativeDecision(Mandatory, EmptyForm.captured) = None
<1>1. \A k \in DOMAIN Mandatory : Mandatory[k] \in Fields
  BY FormFieldsAssumption
<1>2. NegativeDecisions(Mandatory, EmptyForm.captured) = {}
  BY <1>1 DEF NegativeDecisions, EmptyForm, None
<1>3. EmptyForm \in Form
  BY DEF EmptyForm, Form, BlockerStatuses
<1> QED BY <1>2, <1>3, NegativeDecisionNamed DEF Typed, EmptyForm

\* An accepted PATCH keeps the form a form, and clears no field.
LEMMA PatchKeepsTypes ==
    ASSUME NEW body \in Bodies, NEW old, Typed(old)
    PROVE  LET next == PatchedForm(old, Mandatory, body) IN
           /\ Typed(next)
           /\ \A field \in Fields : old.captured[field] # None => next.captured[field] # None
<1> DEFINE merged == Merged(old, body)
           next == PatchedForm(old, Mandatory, body)
<1>1. /\ old.captured \in [Fields -> Values \cup {None}]
      /\ old.blocker \in BlockerStatuses
      /\ old.reason \in Reasons \cup {None}
      /\ old.auto \in YesNoFields \cup {None}
      /\ \A field \in Fields : old.captured[field] \in ValuesOf(field) \cup {None}
  BY DEF Typed, Form
<1>2. /\ body.blocker \in BlockerStatuses \cup {"unset"}
      /\ body.reason \in Reasons \cup {None}
      /\ \A f \in DOMAIN body.capture : body.capture[f] \in Values /\ body.capture[f] \in ValuesOf(f)
      /\ MergedSource(old, body) \in YesNoFields \cup {None}
  BY <1>1, SourcesAssumption DEF Bodies, PatchBodies, Captures, MergedSource
<1>3. /\ merged \in [Fields -> Values \cup {None}]
      /\ \A field \in Fields : merged[field] \in ValuesOf(field) \cup {None}
  BY <1>1, <1>2 DEF Merged
<1>4. \A field \in Fields : None \notin ValuesOf(field)
  BY DEF ValuesOf, None
<1>5. \A field \in Fields : old.captured[field] # None => merged[field] # None
  BY <1>2, <1>4 DEF Merged
<1>6. /\ RequestedBlocker(body) \in BlockerStatuses \cup {"unset"}
      /\ RequestedReason(body) \in Reasons \cup {None}
      /\ EffectiveReason(old, body) \in Reasons \cup {None}
  BY <1>1, <1>2 DEF RequestedBlocker, RequestedReason, EffectiveReason, BlockerStatuses
<1>7. NextBlocker(old, Mandatory, body) \in BlockerStatuses
  BY <1>1, <1>6 DEF NextBlocker, BlockerStatuses
<1>8. NextReason(old, Mandatory, body) \in Reasons \cup {None}
  BY <1>1, <1>6 DEF NextReason
<1>9. NextAuto(old, Mandatory, body) \in YesNoFields \cup {None}
  <2>1. NegativeDecision(Mandatory, merged) \in YesNoFields \cup {None}
    BY NegativeDecisionNamed
  <2> QED BY <1>1, <1>2, <2>1 DEF NextAuto
<1>10. next \in Form /\ next.captured = merged
  BY <1>3, <1>7, <1>8, <1>9 DEF PatchedForm, Form
<1> QED BY <1>3, <1>5, <1>10 DEF Typed

-----------------------------------------------------------------------------
(* The trail.                                                              *)

\* The entries of a trail.
Entry == [type   : HistoryTypes,
          field  : Subjects,
          value  : Values \cup {None},
          reason : Reasons \cup Values \cup {None, "detail"}]

\* The entries that tell the truth of a row, whatever they tell.
TrueOf(row) == {e \in Entry : \A s \in Subjects : Tells(e, s) => Told(e, s, row)}

\* The latest entry on each subject tells the truth of a row.
SaysLatest(trail, row) ==
    \A s \in Subjects, k \in DOMAIN trail :
        /\ Tells(trail[k], s)
        /\ \A j \in (k + 1)..Len(trail) : ~ Tells(trail[j], s)
        => Told(trail[k], s, row)

\* Every entry a PATCH adds is true of the row it writes.
LEMMA EventsAreTrue ==
    ASSUME NEW before, Typed(before), NEW after, Typed(after)
    PROVE  /\ DecisionEvents(before, after) \in Seq(TrueOf(after))
           /\ BlockerEvents(before, after) \in Seq(TrueOf(after))
           /\ DecisionEvents(before, after) \o BlockerEvents(before, after)
                 \in Seq(TrueOf(after))
           /\ \A k \in 1..5 : DecisionEvent(before, after, k) \in Seq(Entry)
           /\ DecisionEvents(before, after) \in Seq(Entry)
           /\ BlockerEvents(before, after) \in Seq(Entry)
<1> DEFINE True == TrueOf(after)
<1>0. /\ before.reason \in Reasons \cup {None} /\ after.reason \in Reasons \cup {None}
      /\ \A field \in Fields : after.captured[field] \in Values \cup {None}
  BY DEF Typed, Form
<1>1. BlockerEvents(before, after) \in Seq(True)
  <2>1. ASSUME NEW type \in {"blocker_created", "blocker_updated", "blocker_resolved"},
               NEW why \in Reasons \cup {None}
        PROVE  /\ Event(type, "blocker", None, why) \in Entry
               /\ Event(type, "blocker", None, why).type = type
               /\ Event(type, "blocker", None, why).reason = why
               /\ \A s \in Subjects : Tells(Event(type, "blocker", None, why), s) => s = "blocker"
    BY DEF Event, Entry, HistoryTypes, Subjects, Tells, TellsLostReason
  <2>2. ASSUME NEW type \in {"blocker_created", "blocker_updated"}, after.blocker = "Blocked"
        PROVE  <<Event(type, "blocker", None, after.reason)>> \in Seq(True)
    <3>1. Event(type, "blocker", None, after.reason) \in True
      BY <1>0, <2>1, <2>2 DEF Told, BlockerTold, TrueOf
    <3> QED BY <3>1
  <2>3. ASSUME after.blocker # "Blocked"
        PROVE  <<Event("blocker_resolved", "blocker", None, before.reason)>> \in Seq(True)
    <3>1. Event("blocker_resolved", "blocker", None, before.reason) \in True
      BY <1>0, <2>1, <2>3 DEF Told, BlockerTold, TrueOf
    <3> QED BY <3>1
  <2> HIDE DEF True
  <2>4. << >> \in Seq(True)
    OBVIOUS
  <2> QED BY <2>2, <2>3, <2>4 DEF BlockerEvents
<1>2. ASSUME NEW k \in 1..5
      PROVE  DecisionEvent(before, after, k) \in Seq(True)
  <2> DEFINE new == TrackedValue(after.captured, TrackedFields[k])
  <2>2. "lost" \in Values
    <3>1. "lost" \in ValuesOf("rfq_terminal_outcome") /\ "rfq_terminal_outcome" \in Fields
      BY DEF ValuesOf, Fields, YesNoFields
    <3> QED BY <3>1 DEF Values
  <2>3. /\ new \in Values \cup {None}
        /\ TrackedFields[k] # "blocker" /\ TrackedFields[k] \in Subjects
    BY <1>0, <2>2 DEF TrackedValue, TrackedFields, Fields, YesNoFields, Subjects
  <2>4. ASSUME NEW type \in {"decision_recorded", "terminal_outcome_recorded"}
        PROVE  <<Event(type, TrackedFields[k], new, None)>> \in Seq(True)
    <3> DEFINE e == Event(type, TrackedFields[k], new, None)
    <3>1. e \in Entry
      BY <2>3 DEF Event, Entry, HistoryTypes
    <3>2. /\ \A s \in Subjects : Tells(e, s) => s = TrackedFields[k]
          /\ e.field = TrackedFields[k] /\ e.value = new
      BY DEF Event, Tells, TellsLostReason
    <3>3. Told(e, TrackedFields[k], after)
      BY <2>3, <3>2 DEF Told, LostReasonTold
    <3> HIDE DEF e
    <3>4. e \in True
      BY <3>1, <3>2, <3>3 DEF TrueOf
    <3> QED BY <3>4 DEF e
  <2> HIDE DEF new, True
  <2>5. << >> \in Seq(True)
    OBVIOUS
  <2> QED BY <2>4, <2>5 DEF DecisionEvent, new
<1> HIDE DEF True
<1>3. DecisionEvents(before, after) \in Seq(True)
  BY <1>2 DEF DecisionEvents
<1>4. DecisionEvents(before, after) \o BlockerEvents(before, after) \in Seq(True)
  BY <1>1, <1>3
<1>5. /\ \A k \in 1..5 : DecisionEvent(before, after, k) \in Seq(Entry)
      /\ DecisionEvents(before, after) \in Seq(Entry)
      /\ BlockerEvents(before, after) \in Seq(Entry)
  <2>1. Seq(True) \subseteq Seq(Entry)
    BY DEF True, TrueOf
  <2> QED BY <1>1, <1>2, <1>3, <2>1
<1> QED BY <1>1, <1>3, <1>4, <1>5 DEF True

\* What is in a part is in the whole.
LEMMA RangeOfParts ==
    ASSUME NEW S, NEW a \in Seq(S), NEW b \in Seq(S), NEW c \in Seq(S),
           NEW d \in Seq(S), NEW e \in Seq(S)
    PROVE  /\ Range(a) \subseteq Range(a \o b \o c \o d \o e)
           /\ Range(b) \subseteq Range(a \o b \o c \o d \o e)
           /\ Range(c) \subseteq Range(a \o b \o c \o d \o e)
           /\ Range(d) \subseteq Range(a \o b \o c \o d \o e)
           /\ Range(e) \subseteq Range(a \o b \o c \o d \o e)
<1>1. a \o b \in Seq(S) /\ a \o b \o c \in Seq(S) /\ a \o b \o c \o d \in Seq(S)
  OBVIOUS
<1>2. /\ Range(a \o b) = Range(a) \cup Range(b)
      /\ Range((a \o b) \o c) = Range(a \o b) \cup Range(c)
      /\ Range((a \o b \o c) \o d) = Range(a \o b \o c) \cup Range(d)
      /\ Range((a \o b \o c \o d) \o e) = Range(a \o b \o c \o d) \cup Range(e)
  <2>1. ASSUME NEW s \in Seq(S), NEW t \in Seq(S)
        PROVE  Range(s \o t) = Range(s) \cup Range(t)
    BY RangeConcatenation
  <2> QED BY ONLY <1>1, <2>1, a \in Seq(S), b \in Seq(S), c \in Seq(S), d \in Seq(S), e \in Seq(S), Zenon
<1> QED BY <1>2

\* New entries that make up for the truth earlier ones have lost.
Retold(new, before, after) ==
    \A e \in Entry, s \in Subjects :
        Tells(e, s) /\ Told(e, s, before) /\ ~ Told(e, s, after)
            => \E x \in Range(new) : Tells(x, s)

\* A PATCH that makes an entry untrue adds one on the same subject: what is
\* captured is never cleared, and a blocker always has a reason.
LEMMA ChangesAreTold ==
    ASSUME NEW before, Typed(before), NEW after, Typed(after),
           \A field \in Fields : before.captured[field] # None => after.captured[field] # None,
           after.blocker = "Blocked" => after.reason # None,
           NEW e \in Entry, NEW s \in Subjects,
           Tells(e, s), Told(e, s, before), ~ Told(e, s, after)
    PROVE  \E x \in Range(DecisionEvents(before, after) \o BlockerEvents(before, after)) :
              Tells(x, s)
<1> DEFINE D == DecisionEvents(before, after)
           B == BlockerEvents(before, after)
<1>1. /\ D \in Seq(Entry) /\ B \in Seq(Entry)
      /\ \A k \in 1..5 : DecisionEvent(before, after, k) \in Seq(Entry)
  BY EventsAreTrue
<1>2. Range(D \o B) = Range(D) \cup Range(B)
  <2> HIDE DEF D, B
  <2> QED BY <1>1, RangeConcatenation
<1>3. ASSUME NEW x
      PROVE  Range(<<x>>) = {x}
  BY DEF Range
<1>4. ASSUME s = "blocker"
      PROVE  \E x \in Range(B) : Tells(x, s)
  <2>1. BlockerTold(e, before) /\ ~ BlockerTold(e, after)
    BY <1>4 DEF Told
  <2>2. \E type, why \in {"blocker_created", "blocker_updated", "blocker_resolved",
                          before.reason, after.reason} :
           B = <<Event(type, "blocker", None, why)>>
    <3>1. CASE before.blocker = "Blocked" /\ after.blocker = "Blocked"
      <4>1. after.reason # before.reason
        BY <2>1, <3>1 DEF BlockerTold
      <4> QED BY <3>1, <4>1 DEF BlockerEvents
    <3>2. CASE before.blocker # "Blocked" /\ after.blocker = "Blocked"
      BY <3>2 DEF BlockerEvents
    <3>3. CASE before.blocker = "Blocked" /\ after.blocker # "Blocked"
      BY <3>3 DEF BlockerEvents
    <3>4. CASE before.blocker # "Blocked" /\ after.blocker # "Blocked"
      BY <2>1, <3>4 DEF BlockerTold
    <3> QED BY <3>1, <3>2, <3>3, <3>4
  <2>3. PICK x : B = <<x>> /\ x.field = "blocker"
    BY <2>2 DEF Event
  <2> QED BY <1>3, <1>4, <2>3 DEF Tells
<1>5. ASSUME s # "blocker"
      PROVE  \E x \in Range(D) : Tells(x, s)
  <2>1. PICK k \in 1..5 : s = TrackedFields[k]
    BY <1>5 DEF Subjects
  <2> DEFINE old == TrackedValue(before.captured, TrackedFields[k])
             new == TrackedValue(after.captured, TrackedFields[k])
  <2>2. old # new /\ new # None
    <3>1. /\ \A field \in Fields : /\ before.captured[field] \in ValuesOf(field) \cup {None}
                                   /\ after.captured[field] \in ValuesOf(field) \cup {None}
          /\ "rfq_terminal_outcome" \in Fields
          /\ ValuesOf("rfq_terminal_outcome") = {"awarded", "lost", "lost_other"}
      BY DEF Typed, Fields, ValuesOf, YesNoFields
    <3>2. CASE s # "rfq_lost_reason_code"
      <4>1. e.value = old /\ e.value # new
        BY <1>5, <2>1, <3>2 DEF Told
      <4>2. TrackedFields[k] \in Fields
        BY <2>1, <3>2 DEF TrackedFields, Fields, YesNoFields
      <4>3. new = None => old = None
        BY <2>1, <3>1, <3>2, <4>2 DEF TrackedValue, None
      <4> QED BY <4>1, <4>3
    <3>3. CASE s = "rfq_lost_reason_code"
      <4>1. /\ old = IF before.captured["rfq_terminal_outcome"] \in {"lost", "lost_other"}
                     THEN before.captured["rfq_terminal_outcome"] ELSE None
            /\ new = IF after.captured["rfq_terminal_outcome"] \in {"lost", "lost_other"}
                     THEN after.captured["rfq_terminal_outcome"] ELSE None
        BY <2>1, <3>3 DEF TrackedValue
      <4>2. LostReasonTold(e, before) /\ ~ LostReasonTold(e, after)
        BY <3>3 DEF Told
      <4>3. /\ old # new \/ before.captured["rfq_terminal_outcome"] = "awarded"
            /\ after.captured["rfq_terminal_outcome"] # "awarded"
        BY <2>1, <3>3, <4>2 DEF LostReasonTold
      <4> QED BY <3>1, <4>1, <4>3 DEF None
    <3> QED BY <3>2, <3>3
  <2>3. PICK x : DecisionEvent(before, after, k) = <<x>> /\ x.field = s
    BY <2>1, <2>2 DEF DecisionEvent, Event
  <2>4. x \in Range(DecisionEvent(before, after, k)) /\ Tells(x, s)
    BY <1>3, <2>3 DEF Tells, TellsLostReason
  <2>5. Range(DecisionEvent(before, after, k)) \subseteq Range(D)
    <3>1. \A i \in 1..5 : DecisionEvent(before, after, i) \in Seq(Entry)
      BY <1>1
    <3>2. k = 1 \/ k = 2 \/ k = 3 \/ k = 4 \/ k = 5
      OBVIOUS
    <3>3. \A i \in {1, 2, 3, 4, 5} :
             Range(DecisionEvent(before, after, i)) \subseteq Range(DecisionEvents(before, after))
      BY <3>1, RangeOfParts DEF DecisionEvents
    <3> QED BY <3>2, <3>3
  <2> QED BY <2>4, <2>5
<1> QED BY <1>2, <1>4, <1>5

\* Recording the outcome in advance() touches no other field, and neither the
\* blocker nor its source.
LEMMA OutcomeKeepsTheRest ==
    ASSUME NEW old, Typed(old), NEW asked \in ValuesOf("rfq_terminal_outcome") \cup {None}
    PROVE  LET next == OutcomeForm(old, asked) IN
           /\ Typed(next)
           /\ next.captured["rfq_terminal_outcome"] = OutcomeOf(old, asked)
           /\ \A field \in Fields \ {"rfq_terminal_outcome"} :
                 next.captured[field] = old.captured[field]
           /\ next.blocker = old.blocker /\ next.reason = old.reason /\ next.auto = old.auto
           /\ NegativeDecision(Mandatory, next.captured) = NegativeDecision(Mandatory, old.captured)
<1> DEFINE next == OutcomeForm(old, asked)
<1>1. /\ "rfq_terminal_outcome" \in Fields
      /\ ValuesOf("rfq_terminal_outcome") \subseteq Values
      /\ YesNoFields \subseteq Fields \ {"rfq_terminal_outcome"}
  BY DEF Fields, YesNoFields, Values
<1>2. OutcomeOf(old, asked) \in ValuesOf("rfq_terminal_outcome") \cup {None}
  BY <1>1 DEF OutcomeOf, Typed
<1>3. /\ next.captured["rfq_terminal_outcome"] = OutcomeOf(old, asked)
      /\ \A field \in Fields \ {"rfq_terminal_outcome"} :
            next.captured[field] = old.captured[field]
      /\ next.blocker = old.blocker /\ next.reason = old.reason /\ next.auto = old.auto
      /\ next \in Form
  BY <1>1, <1>2 DEF OutcomeForm, Typed, Form
<1>4. \A field \in Fields : next.captured[field] \in ValuesOf(field) \cup {None}
  BY <1>2, <1>3 DEF Typed
<1>5. NegativeDecisions(Mandatory, next.captured) = NegativeDecisions(Mandatory, old.captured)
  BY <1>1, <1>3 DEF NegativeDecisions
<1>6. NegativeDecision(Mandatory, next.captured) = NegativeDecision(Mandatory, old.captured)
  BY <1>5 DEF NegativeDecision
<1> QED BY <1>3, <1>4, <1>6 DEF Typed

\* The entry advance() adds is true of the row it writes, and makes up for a lost
\* reason it has changed.
LEMMA OutcomeIsTold ==
    ASSUME NEW old, Typed(old), NEW asked \in ValuesOf("rfq_terminal_outcome") \cup {None},
           OutcomeComplete(old, asked),
           NEW why \in OutcomeReasons(OutcomeForm(old, asked))
    PROVE  LET next == OutcomeForm(old, asked)
               e == OutcomeEvent(next, why)
           IN  e \in TrueOf(next) /\ Retold(<<e>>, old, next)
<1> DEFINE next == OutcomeForm(old, asked)
           e == OutcomeEvent(next, why)
           outcome == TrackedValue(next.captured, "rfq_terminal_outcome")
           lostFor == TrackedValue(next.captured, "rfq_lost_reason_code")
<1>1. next.captured["rfq_terminal_outcome"] \in {"awarded", "lost", "lost_other"}
  <2>1. OutcomeOf(old, asked) \in ValuesOf("rfq_terminal_outcome")
    BY DEF OutcomeComplete, OutcomeOf, Typed, Fields
  <2> QED BY <2>1, OutcomeKeepsTheRest DEF ValuesOf, YesNoFields
<1>2. \/ outcome = "awarded" /\ next.captured["rfq_terminal_outcome"] = "awarded"
      \/ outcome = "lost" /\ lostFor \in {"lost", "lost_other"}
  BY <1>1 DEF TrackedValue
<1>3. /\ e.type = "terminal_outcome_recorded" /\ e.field = "rfq_terminal_outcome"
      /\ e.value = outcome /\ e.reason = why
      /\ outcome = "lost" => why = lostFor
      /\ outcome = "awarded" => why \in {None, "detail"}
  BY DEF OutcomeEvent, Event, OutcomeReasons
<1>4. e \in Entry
  <2>1. {"awarded", "lost", "lost_other"} \subseteq Values
    <3>1. ValuesOf("rfq_terminal_outcome") = {"awarded", "lost", "lost_other"}
          /\ "rfq_terminal_outcome" \in Fields
      BY DEF ValuesOf, Fields, YesNoFields
    <3> QED BY <3>1 DEF Values
  <2>2. "rfq_terminal_outcome" \in Subjects
    BY DEF Subjects, TrackedFields
  <2> QED BY <1>2, <1>3, <2>1, <2>2 DEF Entry, HistoryTypes, OutcomeEvent, Event
<1>5. Tells(e, "rfq_terminal_outcome") /\ Told(e, "rfq_terminal_outcome", next)
  BY <1>3 DEF Tells, Told
<1>6. ASSUME NEW s \in Subjects, Tells(e, s)
      PROVE  Told(e, s, next)
  <2>1. CASE s = "rfq_lost_reason_code"
    <3>1. outcome = "lost" /\ why = lostFor
      BY <1>3, <1>6, <2>1 DEF Tells, TellsLostReason
    <3> QED BY <1>3, <2>1, <3>1 DEF Told, LostReasonTold
  <2>2. CASE s # "rfq_lost_reason_code"
    BY <1>3, <1>5, <1>6, <2>2 DEF Tells
  <2> QED BY <2>1, <2>2
<1>7. ASSUME NEW x \in Entry, NEW s \in Subjects,
             Tells(x, s), Told(x, s, old), ~ Told(x, s, next)
      PROVE  Tells(e, s)
  <2>1. CASE s = "blocker"
    BY <1>7, <2>1, OutcomeKeepsTheRest DEF Told, BlockerTold
  <2>2. CASE s = "rfq_terminal_outcome"
    BY <1>5, <2>2
  <2>3. CASE s = "rfq_lost_reason_code"
    <3>1. next.captured["rfq_terminal_outcome"] # "awarded"
      BY <1>7, <2>3 DEF Told, LostReasonTold
    <3>2. outcome = "lost" /\ why \in {"lost", "lost_other"}
      BY <1>2, <1>3, <3>1
    <3> QED BY <1>3, <2>3, <3>2 DEF Tells, TellsLostReason, None
  <2>4. CASE s \notin {"blocker", "rfq_terminal_outcome", "rfq_lost_reason_code"}
    <3>1. s \in Fields \ {"rfq_terminal_outcome"}
      BY <2>4 DEF Subjects, TrackedFields, Fields, YesNoFields
    <3>2. TrackedValue(next.captured, s) = TrackedValue(old.captured, s)
      BY <2>4, <3>1, OutcomeKeepsTheRest DEF TrackedValue
    <3> QED BY <1>7, <2>4, <3>2 DEF Told
  <2> QED BY <2>1, <2>2, <2>3, <2>4
<1>8. Range(<<e>>) = {e}
  BY DEF Range
<1> HIDE DEF e
<1>9. Retold(<<e>>, old, next)
  BY <1>7, <1>8 DEF Retold
<1> QED BY <1>4, <1>6, <1>9 DEF TrueOf, e

\* So the latest entries stay true when a request extends the trail.
LEMMA LatestExtended ==
    ASSUME NEW before, NEW after, NEW past \in Seq(Entry),
           NEW new \in Seq(TrueOf(after)),
           SaysLatest(past, before),
           Retold(new, before, after)
    PROVE  SaysLatest(past \o new, after)
<1> DEFINE n == Len(past)
<1>1. /\ n \in Nat /\ Len(new) \in Nat
      /\ \A k \in 1..n : past[k] \in Entry
      /\ \A k \in 1..Len(new), s \in Subjects : Tells(new[k], s) => Told(new[k], s, after)
      /\ DOMAIN past = 1..n /\ DOMAIN new = 1..Len(new)
  BY ElementOfSeq DEF TrueOf
<1>2. new \in Seq(Entry)
  BY DEF TrueOf
<1>3. /\ DOMAIN (past \o new) = 1..(n + Len(new)) /\ Len(past \o new) = n + Len(new)
      /\ \A k \in 1..n : (past \o new)[k] = past[k]
      /\ \A k \in 1..Len(new) : (past \o new)[n + k] = new[k]
  BY <1>2
<1> DEFINE all == past \o new
<1> HIDE DEF all
<1>4. SUFFICES ASSUME NEW s \in Subjects, NEW k \in DOMAIN all, Tells(all[k], s),
                      \A j \in (k + 1)..Len(all) : ~ Tells(all[j], s)
               PROVE  Told(all[k], s, after)
  BY DEF SaysLatest, all
<1>5. CASE k \in 1..n
  <2>1. all[k] = past[k] /\ past[k] \in Entry
    BY <1>1, <1>3, <1>5 DEF all
  <2>2. \A j \in (k + 1)..n : ~ Tells(past[j], s)
    BY <1>1, <1>3, <1>4, <1>5 DEF all
  <2>3. Told(past[k], s, before)
    BY <1>1, <1>4, <1>5, <2>1, <2>2 DEF SaysLatest
  <2>4. ASSUME NEW x \in Range(new)
        PROVE  ~ Tells(x, s)
    <3>1. PICK i \in 1..Len(new) : x = new[i]
      BY <1>1 DEF Range
    <3>2. n + i \in (k + 1)..Len(all) /\ all[n + i] = new[i]
      BY <1>1, <1>3, <1>5 DEF all
    <3> QED BY <1>4, <3>1, <3>2
  <2> QED BY <1>4, <2>1, <2>3, <2>4 DEF Retold
<1>6. CASE k \notin 1..n
  <2>1. k - n \in 1..Len(new) /\ k = n + (k - n)
    BY <1>1, <1>3, <1>6 DEF all
  <2>2. all[k] = new[k - n]
    BY <1>3, <2>1 DEF all
  <2> QED BY <1>1, <1>4, <2>1, <2>2
<1> QED BY <1>5, <1>6

\* Cutting off the oldest entries leaves the latest ones.
LEMMA LatestCut ==
    ASSUME NEW f, NEW S, NEW all \in Seq(S), SaysLatest(all, f)
    PROVE  SaysLatest(LastEvents(all), f)
<1>0. HistoryLimit \in Nat \ {0} /\ Len(all) \in Nat
  BY HistoryLimitAssumption
<1>1. \E drop \in Nat :
         /\ drop <= Len(all)
         /\ LastEvents(all) = SubSeq(all, drop + 1, Len(all))
  <2>1. CASE Len(all) > HistoryLimit
    <3>1. Len(all) - HistoryLimit \in Nat /\ Len(all) - HistoryLimit <= Len(all)
      BY <1>0, <2>1
    <3> QED BY <2>1, <3>1 DEF LastEvents
  <2>2. CASE ~ (Len(all) > HistoryLimit)
    <3>1. 0 \in Nat /\ 0 <= Len(all) /\ 0 + 1 = 1
      BY <1>0
    <3> QED BY <2>2, <3>1 DEF LastEvents
  <2> QED BY <2>1, <2>2
<1>2. PICK drop \in Nat : /\ drop <= Len(all)
                          /\ LastEvents(all) = SubSeq(all, drop + 1, Len(all))
  BY <1>1
<1>3. PICK trail : trail = LastEvents(all)
  OBVIOUS
<1>4. /\ Len(trail) = Len(all) - drop
      /\ DOMAIN trail = 1..Len(trail)
      /\ \A k \in 1..Len(trail) : trail[k] = all[drop + k]
  <2>1. \A i \in (drop + 1)..Len(all) : all[i] \in S
    BY <1>2, ElementOfSeq
  <2>2. drop + 1 \in Int /\ Len(all) \in Int
    BY <1>0, <1>2
  <2>3. /\ trail \in Seq(S)
        /\ Len(trail) = IF drop + 1 <= Len(all) THEN Len(all) - (drop + 1) + 1 ELSE 0
        /\ \A i \in 1..(Len(all) - (drop + 1) + 1) : trail[i] = all[drop + 1 + i - 1]
    BY <1>2, <1>3, <2>1, <2>2, SubSeqProperties
  <2>4. PICK n \in Nat : n = Len(all)
    BY <1>0
  <2>5. /\ (IF drop + 1 <= n THEN n - (drop + 1) + 1 ELSE 0) = n - drop
        /\ n - (drop + 1) + 1 = n - drop
        /\ \A k \in 1..(n - drop) : drop + 1 + k - 1 = drop + k
    <3>1. drop \in Nat /\ drop <= n
      BY <1>2, <2>4
    <3> QED BY ONLY <3>1, n \in Nat
  <2>6. DOMAIN trail = 1..Len(trail)
    BY <2>3
  <2> QED BY <2>3, <2>4, <2>5, <2>6
<1>5. ASSUME NEW s \in Subjects, NEW k \in DOMAIN trail, Tells(trail[k], s),
             \A j \in (k + 1)..Len(trail) : ~ Tells(trail[j], s)
      PROVE  Told(trail[k], s, f)
  <2>1. trail[k] = all[drop + k] /\ drop + k \in 1..Len(all)
    BY <1>0, <1>2, <1>4, <1>5
  <2>2. ASSUME NEW j \in (drop + k + 1)..Len(all)
        PROVE  ~ Tells(all[j], s)
    <3>1. j - drop \in (k + 1)..Len(trail) /\ j = drop + (j - drop) /\ j - drop \in 1..Len(trail)
      BY <1>0, <1>2, <1>4, <1>5, <2>2
    <3>2. trail[j - drop] = all[j]
      BY <1>4, <3>1
    <3> QED BY <1>5, <3>1, <3>2
  <2>3. DOMAIN all = 1..Len(all)
    OBVIOUS
  <2> QED BY <1>5, <2>1, <2>2, <2>3 DEF SaysLatest
<1> QED BY <1>3, <1>5 DEF SaysLatest

\* Cutting the trail to its last entries loses only the oldest ones, and those
\* only at the limit (_record_stage_history_events).
LEMMA CutKeepsTheLatest ==
    ASSUME NEW S, NEW past \in Seq(S), NEW new \in Seq(S),
           NEW all \in Seq(S), all = past \o new
    PROVE  LET trail == LastEvents(all) IN
           /\ trail \in Seq(S)
           /\ Len(trail) <= HistoryLimit
           /\ \E cut \in 0..Len(past) :
                 /\ IsPrefix(SubSeq(past, cut + 1, Len(past)), trail)
                 /\ cut > 0 => Len(trail) = HistoryLimit
<1> DEFINE trail == LastEvents(all)
<1>0. HistoryLimit \in Nat \ {0}
  BY HistoryLimitAssumption
<1>1. /\ Len(all) = Len(past) + Len(new)
      /\ \A k \in 1..Len(past) : all[k] = past[k]
      /\ Len(past) \in Nat /\ Len(new) \in Nat
  OBVIOUS
<1>2. CASE Len(all) <= HistoryLimit
  <2>1. trail = SubSeq(all, 1, Len(all))
    BY <1>0, <1>1, <1>2 DEF LastEvents
  <2>2. trail = all
    BY <2>1
  <2>3. SubSeq(past, 1, Len(past)) = past
    OBVIOUS
  <2>4. SubSeq(all, 1, Len(past)) = past
    BY <1>1
  <2>5. IsPrefix(SubSeq(past, 0 + 1, Len(past)), trail)
    BY <1>1, <2>2, <2>3, <2>4 DEF IsPrefix
  <2> HIDE DEF trail
  <2>6. 0 \in 0..Len(past)
    BY <1>1
  <2> QED BY <1>2, <2>2, <2>5, <2>6 DEF trail
<1>3. CASE Len(all) > HistoryLimit
  <2>1. PICK drop \in Nat : drop = Len(all) - HistoryLimit
    <3>1. Len(all) - HistoryLimit \in Nat
      BY <1>0, <1>1, <1>3
    <3> QED BY <3>1
  <2>2. trail = SubSeq(all, drop + 1, Len(all))
    BY <1>3, <2>1 DEF LastEvents
  <2>3. /\ trail \in Seq(S)
        /\ Len(trail) = HistoryLimit
        /\ \A k \in 1..HistoryLimit : trail[k] = all[drop + k]
    <3>1. \A i \in (drop + 1)..Len(all) : all[i] \in S
      BY <2>1, ElementOfSeq
    <3>2. drop + 1 \in Int /\ Len(all) \in Int /\ drop + 1 <= Len(all)
          /\ Len(all) - (drop + 1) + 1 = HistoryLimit
      BY <1>0, <1>1, <2>1
    <3> HIDE DEF trail
    <3>3. /\ trail \in Seq(S)
          /\ Len(trail) = HistoryLimit
          /\ \A i \in 1..HistoryLimit : trail[i] = all[drop + 1 + i - 1]
      BY <2>2, <3>1, <3>2, SubSeqProperties
    <3>4. \A k \in 1..HistoryLimit : drop + 1 + k - 1 = drop + k
      BY <1>0
    <3> QED BY <3>3, <3>4
  <2>4. PICK cut \in 0..Len(past) : cut = IF drop <= Len(past) THEN drop ELSE Len(past)
    BY <1>1, <2>1
  <2>5. PICK kept : kept = SubSeq(past, cut + 1, Len(past))
    OBVIOUS
  <2>6. /\ kept \in Seq(S)
        /\ Len(kept) = Len(past) - cut
        /\ \A k \in 1..Len(kept) : kept[k] = past[cut + k]
    <3>1. \A i \in (cut + 1)..Len(past) : past[i] \in S
      BY ElementOfSeq
    <3>2. cut + 1 \in Int /\ Len(past) \in Int
      BY <1>1
    <3>3. /\ kept \in Seq(S)
          /\ Len(kept) = IF cut + 1 <= Len(past) THEN Len(past) - (cut + 1) + 1 ELSE 0
          /\ \A i \in 1..(Len(past) - (cut + 1) + 1) : kept[i] = past[cut + 1 + i - 1]
      BY <2>5, <3>1, <3>2, SubSeqProperties
    <3>4. Len(kept) = Len(past) - cut /\ Len(past) - (cut + 1) + 1 = Len(past) - cut
      BY <1>1, <3>3
    <3>5. \A k \in 1..Len(kept) : cut + 1 + k - 1 = cut + k
      BY <1>1, <3>4
    <3> QED BY <3>3, <3>4, <3>5
  <2>7. Len(kept) <= HistoryLimit
    BY <1>0, <1>1, <2>1, <2>4, <2>6
  <2>8. ASSUME NEW k \in 1..Len(kept)
        PROVE  kept[k] = trail[k]
    <3>1. kept[k] = past[cut + k] /\ cut = drop
      BY <1>1, <2>1, <2>4, <2>6
    <3>2. k \in 1..HistoryLimit /\ drop + k \in 1..Len(past)
      BY <1>0, <1>1, <2>1, <2>4, <2>6, <2>7, <3>1
    <3> HIDE DEF trail
    <3> QED BY <1>1, <2>3, <3>1, <3>2
  <2>9. SubSeq(kept, 1, Len(kept)) = SubSeq(trail, 1, Len(kept))
    <3> HIDE DEF trail
    <3> QED BY <1>0, <2>3, <2>6, <2>7, <2>8
  <2>10. IsPrefix(SubSeq(past, cut + 1, Len(past)), trail)
    <3> HIDE DEF trail
    <3> QED BY <2>3, <2>5, <2>7, <2>9 DEF IsPrefix
  <2> HIDE DEF trail
  <2>11. Len(trail) <= HistoryLimit
    BY <1>0, <2>3
  <2> QED BY <2>3, <2>4, <2>10, <2>11 DEF trail
<1> QED BY <1>0, <1>1, <1>2, <1>3

-----------------------------------------------------------------------------
(***************************************************************************)
(* The invariant.  As one client's requests follow each other, what a      *)
(* transaction has read is what the row still holds when it writes.        *)
(***************************************************************************)
ReadIsCurrent ==
    /\ DOMAIN request = Clients
    /\ \A c \in Clients :
          IF request[c].open
            THEN /\ request[c].form = form
                 /\ request[c].history = history
                 /\ request[c].completed = completed
            ELSE request[c] = NoRequest

IInv ==
    /\ OneClient
    /\ ReadIsCurrent
    /\ Typed(form)
    /\ history \in Seq(Entry)
    /\ Len(history) <= HistoryLimit
    /\ SaysLatest(history, form)
    /\ completed \in BOOLEAN
    /\ NegativeDecisionBlocks
    /\ BlockedHasReason
    /\ SourceNamesTheNo

LEMMA InitIInv == OneClient /\ Init => IInv
<1> SUFFICES ASSUME OneClient, Init PROVE IInv
  OBVIOUS
<1>1. ReadIsCurrent
  BY DEF Init, ReadIsCurrent, NoRequest
<1>2. Typed(form)
  BY NothingSaid DEF Init
<1>3. history \in Seq(Entry) /\ SaysLatest(history, form) /\ Len(history) <= HistoryLimit
  <2>1. history = << >>
    BY DEF Init
  <2>2. history \in Seq(Entry) /\ Len(history) = 0 /\ DOMAIN history = {}
    BY <2>1
  <2> QED BY <2>2, HistoryLimitAssumption DEF SaysLatest
<1>4. NegativeDecisionBlocks /\ SourceNamesTheNo
  BY NothingSaid DEF Init, NegativeDecisionBlocks, SourceNamesTheNo
<1>5. BlockedHasReason
  BY DEF Init, BlockedHasReason, EmptyForm, None
<1> QED BY <1>1, <1>2, <1>3, <1>4, <1>5 DEF IInv, Init

\* A request that no other overlaps writes what it computed, from the row as
\* it is.
LEMMA SaveWritesAll ==
    ASSUME ReadIsCurrent, NEW c \in Clients, Save(c)
    PROVE  \E body \in Bodies :
              LET next == PatchedForm(form, Mandatory, body) IN
              /\ PatchAccepted(form, Mandatory, body)
              /\ form' = next
              /\ history' = NextHistory(form, next, history)
<1>1. PICK body \in Bodies :
        /\ request[c].open
        /\ PatchAccepted(request[c].form, Mandatory, body)
        /\ Written(request[c].form, PatchedForm(request[c].form, Mandatory, body),
                   request[c].history,
                   NextHistory(request[c].form,
                               PatchedForm(request[c].form, Mandatory, body),
                               request[c].history))
  BY DEF Save, Answers
<1>2. request[c].form = form /\ request[c].history = history
  BY <1>1 DEF ReadIsCurrent
<1>3. PICK next : next = PatchedForm(form, Mandatory, body)
  OBVIOUS
<1>4. PICK trail : trail = NextHistory(form, next, history)
  OBVIOUS
<1>5. Written(form, next, history, trail)
  BY <1>1, <1>2, <1>3, <1>4
<1>6. form' = next /\ history' = trail
  <2>1. next = [captured |-> next.captured, blocker |-> next.blocker,
                reason |-> next.reason, auto |-> next.auto]
    BY <1>3 DEF PatchedForm
  <2>2. /\ form' = [captured |-> next.captured, auto |-> next.auto,
                    blocker |-> next.blocker, reason |-> next.reason]
        /\ history' = trail
    BY <1>5 DEF Written, Column
  <2> QED BY <2>1, <2>2
<1>7. PatchAccepted(form, Mandatory, body)
  BY <1>1, <1>2
<1> QED BY <1>3, <1>4, <1>6, <1>7

\* Only a request with captured_data changes decisions, and it names the one
\* that blocks.
LEMMA PatchNamesTheNo ==
    ASSUME NEW body \in Bodies, Typed(form), SourceNamesTheNo
    PROVE  LET next == PatchedForm(form, Mandatory, body)
               negative == NegativeDecision(Mandatory, next.captured)
           IN  negative # None => next.auto = negative
<1>1. PICK merged : merged = Merged(form, body)
  OBVIOUS
<1>2. PICK auto : auto = NextAuto(form, Mandatory, body)
  OBVIOUS
<1>3. PICK next : next = PatchedForm(form, Mandatory, body)
  OBVIOUS
<1>4. next.captured = merged /\ next.auto = auto
  BY <1>1, <1>2, <1>3 DEF PatchedForm
<1>5. CASE ~ body.sent
  <2>1. DOMAIN body.capture = {}
    BY <1>5 DEF Bodies, PatchBodies
  <2>2. merged = form.captured
    BY <1>1, <2>1 DEF Merged, Typed, Form
  <2>3. auto = form.auto
    BY <1>2, <1>5 DEF NextAuto
  <2> QED BY <1>3, <1>4, <2>2, <2>3 DEF SourceNamesTheNo
<1>6. CASE body.sent
  <2>1. body.sent /\ NegativeDecision(Mandatory, merged) # None
          => auto = NegativeDecision(Mandatory, merged)
    BY <1>1, <1>2, <1>6 DEF NextAuto
  <2> QED BY <1>3, <1>4, <1>6, <2>1
<1> QED BY <1>5, <1>6

\* advance() to an outcome too writes what it computed from the row as it is.
LEMMA CompleteWritesAll ==
    ASSUME ReadIsCurrent, Typed(form), NEW c \in Clients, Complete(c)
    PROVE  \E asked \in ValuesOf("rfq_terminal_outcome") \cup {None} :
              LET next == OutcomeForm(form, asked) IN
              /\ OutcomeComplete(form, asked)
              /\ form' = next
              /\ \E why \in OutcomeReasons(next) :
                    history' = HistoryWithOutcome(next, why, history)
<1>1. PICK asked \in ValuesOf("rfq_terminal_outcome") \cup {None} :
        /\ request[c].open
        /\ OutcomeComplete(request[c].form, asked)
        /\ \E why \in OutcomeReasons(OutcomeForm(request[c].form, asked)) :
              Written(request[c].form, OutcomeForm(request[c].form, asked), request[c].history,
                      HistoryWithOutcome(OutcomeForm(request[c].form, asked), why,
                                         request[c].history))
  BY DEF Complete
<1>2. request[c].form = form /\ request[c].history = history
  BY <1>1 DEF ReadIsCurrent
<1>3. PICK next : next = OutcomeForm(form, asked)
  OBVIOUS
<1>4. PICK why \in OutcomeReasons(next) :
        Written(form, next, history, HistoryWithOutcome(next, why, history))
  BY <1>1, <1>2, <1>3
<1>5. PICK trail : trail = HistoryWithOutcome(next, why, history)
  OBVIOUS
<1>6. form' = next /\ history' = trail
  <2>1. next \in Form
    BY <1>3, OutcomeKeepsTheRest DEF Typed
  <2>2. /\ form' = [captured |-> next.captured, auto |-> next.auto,
                    blocker |-> next.blocker, reason |-> next.reason]
        /\ history' = trail
    BY <1>4, <1>5 DEF Written, Column
  <2>3. next = [captured |-> next.captured, auto |-> next.auto,
                blocker |-> next.blocker, reason |-> next.reason]
    BY <2>1 DEF Form
  <2> QED BY <2>2, <2>3
<1> QED BY <1>1, <1>2, <1>3, <1>5, <1>6

\* The trail after entries are added extends the one before, up to its limit,
\* and its latest entries are true of the row written.
LEMMA TrailExtended ==
    ASSUME history \in Seq(Entry), SaysLatest(history, form), NEW next,
           NEW new \in Seq(TrueOf(next)), Retold(new, form, next)
    PROVE  LET trail == LastEvents(history \o new) IN
           /\ trail \in Seq(Entry)
           /\ Len(trail) <= HistoryLimit
           /\ \E cut \in 0..Len(history) :
                 /\ IsPrefix(SubSeq(history, cut + 1, Len(history)), trail)
                 /\ cut > 0 => Len(trail) = HistoryLimit
           /\ SaysLatest(trail, next)
<1>1. PICK all : all = history \o new
  OBVIOUS
<1>2. new \in Seq(Entry) /\ all \in Seq(Entry)
  <2>1. new \in Seq(Entry)
    BY DEF TrueOf
  <2> QED BY <1>1, <2>1
<1>3. SaysLatest(LastEvents(all), next)
  <2>1. SaysLatest(all, next)
    BY <1>1, LatestExtended
  <2> QED BY <1>2, <2>1, LatestCut
<1>4. LET trail == LastEvents(all) IN
      /\ trail \in Seq(Entry)
      /\ Len(trail) <= HistoryLimit
      /\ \E cut \in 0..Len(history) :
            /\ IsPrefix(SubSeq(history, cut + 1, Len(history)), trail)
            /\ cut > 0 => Len(trail) = HistoryLimit
  BY <1>1, <1>2, CutKeepsTheLatest
<1> QED BY <1>1, <1>3, <1>4

\* A step that writes the row and adds entries to its trail.
WritesRow(next, new) ==
    /\ Typed(next)
    /\ NegativeDecision(Mandatory, next.captured) # None
          => /\ next.blocker = "Blocked" /\ next.reason # None
             /\ next.auto = NegativeDecision(Mandatory, next.captured)
    /\ next.blocker = "Blocked" => next.reason # None
    /\ new \in Seq(TrueOf(next))
    /\ Retold(new, form, next)
    /\ form' = next
    /\ history' = LastEvents(history \o new)

LEMMA SaveWrites ==
    ASSUME IInv, NEW c \in Clients, Save(c)
    PROVE  \E next, new : WritesRow(next, new)
<1>1. PICK body \in Bodies :
        LET next == PatchedForm(form, Mandatory, body) IN
        /\ PatchAccepted(form, Mandatory, body)
        /\ form' = next
        /\ history' = NextHistory(form, next, history)
  BY SaveWritesAll DEF IInv
<1>2. PICK next : next = PatchedForm(form, Mandatory, body)
  OBVIOUS
<1>3. /\ Typed(form) /\ Typed(next)
      /\ \A field \in Fields : form.captured[field] # None => next.captured[field] # None
  BY <1>2, PatchKeepsTypes DEF IInv
<1>4. /\ NegativeDecision(Mandatory, next.captured) # None
           => next.blocker = "Blocked" /\ next.reason # None
      /\ next.blocker = "Blocked" => next.reason # None
  BY <1>1, <1>2, PatchKeepsForm DEF IInv, BlockedHasReason
<1>5. NegativeDecision(Mandatory, next.captured) # None
        => next.auto = NegativeDecision(Mandatory, next.captured)
  BY <1>2, PatchNamesTheNo DEF IInv
<1>6. PICK new : new = DecisionEvents(form, next) \o BlockerEvents(form, next)
  OBVIOUS
<1>7. new \in Seq(TrueOf(next))
  BY <1>3, <1>6, EventsAreTrue
<1>8. Retold(new, form, next)
  BY <1>3, <1>4, <1>6, ChangesAreTold DEF Retold
<1>9. history' = LastEvents(history \o new)
  <2>1. /\ DecisionEvents(form, next) \in Seq(Entry) /\ BlockerEvents(form, next) \in Seq(Entry)
        /\ history \in Seq(Entry)
    BY <1>3, EventsAreTrue DEF IInv
  <2>2. (history \o DecisionEvents(form, next)) \o BlockerEvents(form, next) = history \o new
    BY <1>6, <2>1, ConcatAssociative
  <2> QED BY <1>1, <1>2, <2>2 DEF NextHistory
<1> QED BY <1>1, <1>2, <1>3, <1>4, <1>5, <1>7, <1>8, <1>9 DEF WritesRow

LEMMA CompleteWrites ==
    ASSUME IInv, NEW c \in Clients, Complete(c)
    PROVE  \E next, new : WritesRow(next, new)
<1>0. Typed(form) /\ ReadIsCurrent /\ history \in Seq(Entry) /\ SaysLatest(history, form)
  BY DEF IInv
<1>1. PICK asked \in ValuesOf("rfq_terminal_outcome") \cup {None} :
        LET next == OutcomeForm(form, asked) IN
        /\ OutcomeComplete(form, asked)
        /\ form' = next
        /\ \E why \in OutcomeReasons(next) :
              history' = HistoryWithOutcome(next, why, history)
  BY <1>0, CompleteWritesAll
<1>2. PICK next : next = OutcomeForm(form, asked)
  OBVIOUS
<1>3. PICK why \in OutcomeReasons(next) : history' = HistoryWithOutcome(next, why, history)
  BY <1>1, <1>2
<1>4. /\ Typed(next)
      /\ next.blocker = form.blocker /\ next.reason = form.reason /\ next.auto = form.auto
      /\ NegativeDecision(Mandatory, next.captured) = NegativeDecision(Mandatory, form.captured)
  BY <1>0, <1>2, OutcomeKeepsTheRest
<1>5. /\ NegativeDecision(Mandatory, next.captured) # None
           => /\ next.blocker = "Blocked" /\ next.reason # None
              /\ next.auto = NegativeDecision(Mandatory, next.captured)
      /\ next.blocker = "Blocked" => next.reason # None
  BY <1>4 DEF IInv, NegativeDecisionBlocks, SourceNamesTheNo, BlockedHasReason
<1>6. PICK e : e = OutcomeEvent(next, why)
  OBVIOUS
<1>7. e \in TrueOf(next) /\ Retold(<<e>>, form, next)
  BY <1>0, <1>1, <1>2, <1>6, OutcomeIsTold
<1>8. CASE history # << >> /\ Last(history) = e
  <2>1. history' = LastEvents(history)
    BY <1>3, <1>6, <1>8 DEF HistoryWithOutcome
  <2>2. Len(history) \in Nat /\ Len(history) # 0 /\ history[Len(history)] = e
    BY <1>0, <1>8, EmptySeq DEF Last
  <2>3. ASSUME NEW s \in Subjects, Tells(e, s)
        PROVE  Told(e, s, form)
    <3>1. Len(history) \in DOMAIN history /\ (Len(history) + 1)..Len(history) = {}
      BY <1>0, <2>2
    <3> QED BY <1>0, <2>2, <2>3, <3>1 DEF SaysLatest
  <2>4. next.captured["rfq_terminal_outcome"] = form.captured["rfq_terminal_outcome"]
    <3> DEFINE was == form.captured["rfq_terminal_outcome"]
               is == next.captured["rfq_terminal_outcome"]
    <3>1. /\ was \in {"awarded", "lost", "lost_other", None}
          /\ is \in {"awarded", "lost", "lost_other", None}
      BY <1>0, <1>4 DEF Typed, Fields, ValuesOf, YesNoFields
    <3>2. is # None
      BY <1>0, <1>1, <1>2, OutcomeKeepsTheRest DEF OutcomeComplete
    <3>3. /\ e.field = "rfq_terminal_outcome" /\ e.reason = why
          /\ e.value = IF is \in {"lost", "lost_other"} THEN "lost" ELSE is
      BY <1>6 DEF OutcomeEvent, Event, TrackedValue
    <3>4. e.value = IF was \in {"lost", "lost_other"} THEN "lost" ELSE was
      <4>1. Told(e, "rfq_terminal_outcome", form)
        BY <2>3, <3>3 DEF Tells, Subjects, TrackedFields
      <4> QED BY <4>1 DEF Told, TrackedValue
    <3>5. CASE is = "awarded"
      BY <3>1, <3>3, <3>4, <3>5
    <3>6. CASE is \in {"lost", "lost_other"}
      <4>1. why = is
        BY <3>6 DEF OutcomeReasons, TrackedValue
      <4>2. LostReasonTold(e, form)
        <5>1. Tells(e, "rfq_lost_reason_code")
          BY <3>3, <3>6, <4>1 DEF Tells, TellsLostReason, None
        <5> QED BY <2>3, <5>1 DEF Told, Subjects, TrackedFields
      <4>3. was \in {"lost", "lost_other"}
        BY <3>1, <3>3, <3>4, <3>6 DEF None
      <4> QED BY <3>3, <4>1, <4>2, <4>3 DEF LostReasonTold, TrackedValue
    <3> QED BY <3>1, <3>2, <3>5, <3>6
  <2>5. << >> \in Seq(TrueOf(next)) /\ Retold(<< >>, form, next)
    <3>1. \A field \in Fields : next.captured[field] = form.captured[field]
      BY <1>0, <1>2, <2>4, OutcomeKeepsTheRest
    <3>2. next = form
      BY <1>0, <1>4, <3>1 DEF Typed, Form
    <3> QED BY <3>2 DEF Retold
  <2>6. history \o << >> = history
    BY <1>0, ConcatEmptySeq
  <2> QED BY <1>1, <1>2, <1>4, <1>5, <2>1, <2>5, <2>6 DEF WritesRow
<1>9. CASE ~ (history # << >> /\ Last(history) = e)
  <2>1. history' = LastEvents(Append(history, e))
    BY <1>3, <1>6, <1>9 DEF HistoryWithOutcome
  <2>2. <<e>> \in Seq(TrueOf(next))
    BY <1>7
  <2>3. Append(history, e) = history \o <<e>>
    BY <1>0, <1>7 DEF TrueOf
  <2> QED BY <1>1, <1>2, <1>4, <1>5, <1>7, <2>1, <2>2, <2>3 DEF WritesRow
<1> QED BY <1>8, <1>9

LEMMA WriteKeepsIInv ==
    ASSUME IInv, NEW c \in Clients, Save(c) \/ Complete(c)
    PROVE  IInv'
<1>1. PICK next, new : WritesRow(next, new)
  BY SaveWrites, CompleteWrites
<1>2. form' = next
  BY <1>1 DEF WritesRow
<1>3. Typed(form)' /\ NegativeDecisionBlocks' /\ BlockedHasReason' /\ SourceNamesTheNo'
  BY <1>1, <1>2 DEF WritesRow, Typed, NegativeDecisionBlocks, BlockedHasReason, SourceNamesTheNo
<1>4. (history \in Seq(Entry) /\ Len(history) <= HistoryLimit /\ SaysLatest(history, form))'
  <2>1. LET trail == LastEvents(history \o new) IN
        trail \in Seq(Entry) /\ Len(trail) <= HistoryLimit /\ SaysLatest(trail, next)
    BY <1>1, TrailExtended DEF IInv, WritesRow
  <2>2. history' = LastEvents(history \o new)
    BY <1>1 DEF WritesRow
  <2>3. SaysLatest(history', form')
    BY <1>2, <2>1, <2>2
  <2> QED BY <2>1, <2>2, <2>3 DEF SaysLatest, Told, BlockerTold, LostReasonTold, TrackedValue
<1>5. (completed \in BOOLEAN)'
  BY DEF Save, Complete, IInv
<1>6. ReadIsCurrent'
  <2>1. request' = [request EXCEPT ![c] = NoRequest] /\ DOMAIN request = Clients
    BY DEF Save, Complete, IInv, ReadIsCurrent
  <2>2. \A d \in Clients : request'[d] = NoRequest /\ ~ request'[d].open
    BY <2>1 DEF OneClient, NoRequest, IInv
  <2> QED BY <2>1, <2>2 DEF ReadIsCurrent
<1> QED BY <1>3, <1>4, <1>5, <1>6 DEF IInv, OneClient

\* Reading the row, and giving up, change nothing in it.
LEMMA OtherStepsKeepIInv ==
    ASSUME IInv, NEW c \in Clients, Load(c) \/ Abandon(c)
    PROVE  IInv'
<1> DEFINE Snapshot == [open |-> TRUE, form |-> form, history |-> history,
                         completed |-> completed]
<1>1. form' = form /\ history' = history /\ completed' = completed
  BY DEF Load, Abandon
<1>2. /\ request' = [request EXCEPT ![c] = Snapshot]
         \/ request' = [request EXCEPT ![c] = NoRequest]
      /\ DOMAIN request = Clients
  BY DEF Load, Abandon, IInv, ReadIsCurrent
<1>3. ReadIsCurrent'
  <2>1. CASE request' = [request EXCEPT ![c] = Snapshot]
    <3>1. \A d \in Clients : request'[d] = Snapshot
      BY <1>2, <2>1 DEF OneClient, IInv
    <3> QED BY <1>1, <1>2, <2>1, <3>1 DEF ReadIsCurrent
  <2>2. CASE request' = [request EXCEPT ![c] = NoRequest]
    <3>1. \A d \in Clients : request'[d] = NoRequest /\ ~ request'[d].open
      BY <1>2, <2>2 DEF OneClient, IInv, NoRequest
    <3> QED BY <1>2, <2>2, <3>1 DEF ReadIsCurrent
  <2> QED BY <1>2, <2>1, <2>2
<1>4. Typed(form)' /\ (history \in Seq(Entry) /\ Len(history) <= HistoryLimit)'
                  /\ SaysLatest(history, form)'
  BY <1>1 DEF Typed, SaysLatest, Told, BlockerTold, LostReasonTold, IInv
<1>5. NegativeDecisionBlocks' /\ BlockedHasReason' /\ SourceNamesTheNo' /\ (completed \in BOOLEAN)'
  BY <1>1 DEF NegativeDecisionBlocks, BlockedHasReason, SourceNamesTheNo, IInv
<1> QED BY <1>3, <1>4, <1>5 DEF IInv, OneClient

LEMMA NextKeepsIInv == IInv /\ [Next]_vars => IInv'
<1> SUFFICES ASSUME IInv, [Next]_vars
             PROVE  IInv'
  OBVIOUS
<1>1. ASSUME UNCHANGED vars
      PROVE  IInv'
  BY <1>1 DEF vars, IInv, OneClient, ReadIsCurrent, Typed, SaysLatest, Told, BlockerTold,
            LostReasonTold, NegativeDecisionBlocks, BlockedHasReason, SourceNamesTheNo
<1>2. ASSUME NEW c \in Clients, Save(c) \/ Complete(c)
      PROVE  IInv'
  BY <1>2, WriteKeepsIInv
<1>3. ASSUME NEW c \in Clients, Load(c) \/ Abandon(c)
      PROVE  IInv'
  BY <1>3, OtherStepsKeepIInv
<1> QED BY <1>1, <1>2, <1>3 DEF Next

LEMMA Invariance == OneClient /\ Spec => []IInv
<1>1. OneClient /\ Init => IInv
  BY InitIInv
<1> QED BY <1>1, NextKeepsIInv, PTL DEF Spec

\* Whatever one client asks for, in any order, a stage whose mandatory decision
\* is "no" is Blocked and says why, so advance() refuses to complete it.
THEOREM DecisionAndBlockerAgree == OneClient /\ Spec => []NegativeDecisionBlocks
<1>1. IInv => NegativeDecisionBlocks
  BY DEF IInv
<1> QED BY <1>1, Invariance, PTL

\* A Blocked stage always has a reason to show, whichever request blocked it
\* and whichever followed.
THEOREM ReasonIsKept == OneClient /\ Spec => []BlockedHasReason
<1>1. IInv => BlockedHasReason
  BY DEF IInv
<1> QED BY <1>1, Invariance, PTL

\* The automatic source always names the decision that blocks.
THEOREM SourceIsTheNo == OneClient /\ Spec => []SourceNamesTheNo
<1>1. IInv => SourceNamesTheNo
  BY DEF IInv
<1> QED BY <1>1, Invariance, PTL

\* The trail agrees with the row after any number of PATCHes and an advance, cut or
\* not: its last entry on the blocker tells the blocker, its last one on a decision,
\* the outcome or the lost reason the value captured
\* (_append_decision_history_events, _append_blocker_history_events,
\* append_terminal_outcome_history_event).
THEOREM TrailIsTrue == OneClient /\ Spec => []TrailTellsTheRow
<1>1. IInv => TrailTellsTheRow
  BY DEF IInv, SaysLatest, TrailTellsTheRow
<1> QED BY <1>1, Invariance, PTL

\* Row, trail and the rows that requests have read keep their types.
THEOREM TypesCorrect == OneClient /\ Spec => []TypeOK
<1>1. ASSUME IInv
      PROVE  TypeOK
  <2>1. form \in Form /\ EmptyForm \in Form
    BY <1>1, NothingSaid DEF IInv, Typed
  <2>2. \A k \in DOMAIN history : history[k].type \in HistoryTypes
    <3>1. \A k \in DOMAIN history : history[k] \in Entry
      BY <1>1, ElementOfSeq DEF IInv
    <3> QED BY <3>1 DEF Entry
  <2>3. \A c \in Clients : request[c].form \in Form
    BY <1>1, <2>1 DEF IInv, ReadIsCurrent, NoRequest
  <2> QED BY <1>1, <2>1, <2>2, <2>3 DEF TypeOK, IInv
<1> QED BY <1>1, Invariance, PTL

\* No request drops or rewrites an entry of the audit trail but the oldest ones
\* of a full trail (_record_stage_history_events, _handle_terminal_outcome_completion).
THEOREM TrailOnlyGrows == OneClient /\ Spec => TrailIsAppendOnly
<1>1. ASSUME IInv, [Next]_vars, history' # history
      PROVE  \E cut \in 0..Len(history) :
                /\ IsPrefix(SubSeq(history, cut + 1, Len(history)), history')
                /\ cut > 0 => Len(history') = HistoryLimit
  <2>1. PICK c \in Clients : Save(c) \/ Complete(c)
    BY <1>1 DEF Next, Load, Abandon, vars
  <2>2. PICK next, new : WritesRow(next, new)
    BY <1>1, <2>1, SaveWrites, CompleteWrites
  <2>3. history' = LastEvents(history \o new)
    BY <2>2 DEF WritesRow
  <2> QED BY <1>1, <2>2, <2>3, TrailExtended DEF IInv, WritesRow
<1>2. IInv /\ [Next]_vars =>
        [\E cut \in 0..Len(history) :
            /\ IsPrefix(SubSeq(history, cut + 1, Len(history)), history')
            /\ cut > 0 => Len(history') = HistoryLimit]_history
  BY <1>1
<1> QED BY <1>2, Invariance, PTL DEF Spec, TrailIsAppendOnly

-----------------------------------------------------------------------------
(* A request made again.                                                   *)

\* A form compared with itself gives no entry of the trail.
LEMMA NothingToTell ==
    ASSUME NEW f
    PROVE  DecisionEvents(f, f) = <<>> /\ BlockerEvents(f, f) = <<>>
<1>1. \A k \in 1..5 : DecisionEvent(f, f, k) = <<>>
  BY DEF DecisionEvent
<1>2. DecisionEvents(f, f) = <<>>
  BY <1>1 DEF DecisionEvents
<1>3. BlockerEvents(f, f) = <<>>
  BY DEF BlockerEvents
<1> QED BY <1>2, <1>3

\* A PATCH made once more, because its answer was lost, is accepted once more,
\* leaves the form as the first one left it and adds nothing to the trail.  The
\* exception is a request with an explicit null for the status of a blocker it
\* lifts: the first time the code writes "Resolved", the second time the null.
THEOREM RetryChangesNothing ==
    ASSUME NEW old, NEW body \in Bodies,
           PatchAccepted(old, Mandatory, body),
           RequestedBlocker(body) = None => ~ LiftsAutoBlocker(old, body),
           NEW trail \in Seq(Entry), Len(trail) <= HistoryLimit
    PROVE  LET new == PatchedForm(old, Mandatory, body) IN
           /\ PatchAccepted(new, Mandatory, body)
           /\ PatchedForm(new, Mandatory, body) = new
           /\ NextHistory(new, PatchedForm(new, Mandatory, body), trail) = trail
<1> PICK merged : merged = Merged(old, body)
  OBVIOUS
<1> PICK negative : negative = NegativeDecision(Mandatory, merged)
  OBVIOUS
<1> PICK new : new = PatchedForm(old, Mandatory, body)
  OBVIOUS
<1>1. /\ new.captured = merged
      /\ new.blocker = NextBlocker(old, Mandatory, body)
      /\ new.reason = NextReason(old, Mandatory, body)
      /\ new.auto = NextAuto(old, Mandatory, body)
  BY DEF PatchedForm
<1>2. Merged(new, body) = merged
  BY <1>1 DEF Merged
<1>3. PatchAccepted(new, Mandatory, body)
  <2>1. negative # None => new.reason = EffectiveReason(old, body) /\ EffectiveReason(old, body) # None
    BY <1>1 DEF NextReason, PatchAccepted
  <2>2. negative # None => EffectiveReason(new, body) # None
    BY <2>1 DEF EffectiveReason
  <2> QED BY <1>2, <2>2 DEF PatchAccepted
<1>4. ASSUME negative # None
      PROVE  /\ NextBlocker(new, Mandatory, body) = new.blocker
             /\ NextReason(new, Mandatory, body) = new.reason
             /\ NextAuto(new, Mandatory, body) = new.auto
  <2>1. new.blocker = "Blocked" /\ NextBlocker(new, Mandatory, body) = "Blocked"
    BY <1>1, <1>2, <1>4 DEF NextBlocker
  <2>2. new.reason = EffectiveReason(old, body)
    BY <1>1, <1>4 DEF NextReason
  <2>3. NextReason(new, Mandatory, body) = EffectiveReason(new, body)
    BY <1>2, <1>4 DEF NextReason
  <2>4. EffectiveReason(new, body) = new.reason
    BY <2>2 DEF EffectiveReason
  <2>5. NextAuto(new, Mandatory, body) = IF body.sent THEN negative ELSE new.auto
    BY <1>2, <1>4 DEF NextAuto
  <2>6. new.auto = IF body.sent THEN negative ELSE old.auto
    BY <1>1, <1>4 DEF NextAuto
  <2> QED BY <2>1, <2>3, <2>4, <2>5, <2>6
<1>5. ASSUME negative = None, LiftsAutoBlocker(old, body)
      PROVE  /\ NextBlocker(new, Mandatory, body) = new.blocker
             /\ NextReason(new, Mandatory, body) = new.reason
             /\ NextAuto(new, Mandatory, body) = new.auto
  <2>1. new.blocker = "Resolved" /\ new.reason = None
    BY <1>1, <1>5 DEF NextBlocker, NextReason
  <2>2. RequestedBlocker(body) \notin {None, "Blocked"}
    BY <1>5 DEF LiftsAutoBlocker
  <2>3. ~ LiftsAutoBlocker(new, body)
    BY <2>1 DEF LiftsAutoBlocker
  <2>4. NextReason(new, Mandatory, body) = None
    BY <1>2, <1>5, <2>1, <2>2, <2>3 DEF NextReason
  <2>5. RequestedBlocker(body) \in {"unset", "Resolved"}
    <3>1. body.blocker \in BlockerStatuses \cup {"unset"}
      BY DEF Bodies, PatchBodies
    <3> QED BY <2>2, <3>1 DEF RequestedBlocker, BlockerStatuses
  <2>6. NextBlocker(new, Mandatory, body) = "Resolved"
    BY <1>2, <1>5, <2>1, <2>3, <2>5 DEF NextBlocker
  <2>7. body.sent => new.auto = None
    BY <1>1, <1>5, <2>1 DEF NextAuto
  <2>8. NextAuto(new, Mandatory, body) = IF body.sent THEN None ELSE new.auto
    BY <1>2, <1>5, <2>6 DEF NextAuto
  <2> QED BY <2>1, <2>4, <2>6, <2>7, <2>8
<1>6. ASSUME negative = None, ~ LiftsAutoBlocker(old, body)
      PROVE  /\ NextBlocker(new, Mandatory, body) = new.blocker
             /\ NextReason(new, Mandatory, body) = new.reason
             /\ NextAuto(new, Mandatory, body) = new.auto
  <2>1. new.blocker = IF RequestedBlocker(body) = "unset" THEN old.blocker ELSE RequestedBlocker(body)
    BY <1>1, <1>6 DEF NextBlocker
  <2>0. ~ body.sent => body.source = None
    BY DEF Bodies, PatchBodies
  <2>2. new.auto = IF ~ body.sent \/ new.blocker = "Blocked" THEN MergedSource(old, body) ELSE None
    BY <1>1, <1>6, <2>0 DEF NextAuto, MergedSource
  <2>3. ~ LiftsAutoBlocker(new, body)
    <3> SUFFICES ASSUME LiftsAutoBlocker(new, body) PROVE FALSE
      OBVIOUS
    <3>1. new.blocker = "Blocked" /\ RequestedBlocker(body) # "Blocked"
          /\ MergedSource(new, body) # None /\ merged[MergedSource(new, body)] = "yes"
      BY <1>2 DEF LiftsAutoBlocker
    <3>2. old.blocker = "Blocked" /\ MergedSource(old, body) = MergedSource(new, body)
      BY <2>1, <2>2, <3>1 DEF MergedSource
    <3> QED BY <1>6, <3>1, <3>2 DEF LiftsAutoBlocker
  <2>4. NextBlocker(new, Mandatory, body) = new.blocker
    BY <1>2, <1>6, <2>1, <2>3 DEF NextBlocker
  <2>5. NextReason(new, Mandatory, body) = new.reason
    BY <1>1, <1>2, <1>6, <2>3 DEF NextReason
  <2>6. NextAuto(new, Mandatory, body) = new.auto
    BY <1>2, <1>6, <2>2, <2>4 DEF NextAuto, MergedSource
  <2> QED BY <2>4, <2>5, <2>6
<1>7. PatchedForm(new, Mandatory, body) = new
  BY <1>2, <1>4, <1>5, <1>6 DEF PatchedForm
<1>8. NextHistory(new, new, trail) = trail
  <2>1. trail \o <<>> = trail
    BY ConcatEmptySeq
  <2>2. NextHistory(new, new, trail) = LastEvents(trail)
    BY <2>1, NothingToTell DEF NextHistory
  <2>3. Len(trail) \in Nat /\ HistoryLimit \in Nat /\ ~ Len(trail) > HistoryLimit
    BY LenProperties, HistoryLimitAssumption
  <2>4. LastEvents(trail) = SubSeq(trail, 1, Len(trail))
    BY <2>3 DEF LastEvents
  <2>5. SubSeq(trail, 1, Len(trail)) = trail
    OBVIOUS
  <2> QED BY <2>2, <2>4, <2>5
<1> QED BY <1>3, <1>7, <1>8
=============================================================================
