------------------------- MODULE RfqLifecycleProofs -------------------------
(***************************************************************************)
(* Proofs about RfqLifecycle, for every workflow: any number of stages,    *)
(* any mandatory fields, any set of subtasks, reasons and explanations;    *)
(* and, with any durations and deadlines, about Schedule, whose requests   *)
(* are those of RfqLifecycle with their dates.                             *)
(***************************************************************************)
EXTENDS Schedule, FiniteSetTheorems, SequenceTheorems, WellFoundedInduction, TLAPS

-----------------------------------------------------------------------------
(* Arithmetic and sets.                                                    *)

\* The percentage of stages done is the exact one rounded down, and below 100
\* as long as a stage is left (calculate_rfq_lifecycle_progress).
LEMMA PercentRoundsDown ==
    ASSUME NEW c \in Nat, NEW e \in Nat, c < e
    PROVE  /\ (c * 100) \div e \in 0..99
           /\ ((c * 100) \div e) * e <= c * 100
           /\ c * 100 < ((c * 100) \div e + 1) * e
  OBVIOUS

\* A set of naturals that is not empty has a least element; it names the first
\* negative decision of find_negative_blocking_decision.
LEMMA LeastExists ==
    ASSUME NEW S \in SUBSET Nat, S # {}
    PROVE  \E x \in S : \A y \in S : x <= y
<1> DEFINE upTo(n) == 1..n
           T == {upTo(n) : n \in S}
<1>1. \A n \in Nat : upTo(n) \in FiniteSubsetsOf(Nat)
  BY FS_Interval DEF FiniteSubsetsOf
<1>2. T \subseteq FiniteSubsetsOf(Nat) /\ T # {}
  BY <1>1
<1>3. \E t \in T : \A u \in T : <<u, t>> \notin StrictSubsetOrdering(Nat)
  BY <1>2, FS_StrictSubsetOrderingWellFounded, WFMin
<1>4. PICK x \in S : \A y \in S : <<upTo(y), upTo(x)>> \notin StrictSubsetOrdering(Nat)
  BY <1>3
<1>5. ASSUME NEW y \in S, y < x
      PROVE  FALSE
  <2>1. upTo(y) \subseteq upTo(x) /\ x \in upTo(x) /\ x \notin upTo(y)
    BY <1>5
  <2>2. upTo(y) # upTo(x)
    BY <2>1
  <2>3. upTo(x) \in SUBSET Nat /\ upTo(y) \in SUBSET Nat
    OBVIOUS
  <2>4. <<upTo(y), upTo(x)>> \in StrictSubsetOrdering(Nat)
    <3> HIDE DEF upTo
    <3> QED BY <2>1, <2>2, <2>3 DEF StrictSubsetOrdering
  <2> QED BY <1>4, <2>4
<1> QED BY <1>5

-----------------------------------------------------------------------------
(* Sums: MapThenSumSet adds up by choosing one element after another; what  *)
(* it adds up to is the number of units there are in all.                  *)

\* Among the subsets of a finite set that have a property, one has no smaller
\* one beside it.
LEMMA SmallestSubset ==
    ASSUME NEW S, IsFiniteSet(S), NEW F \in SUBSET SUBSET S, F # {}
    PROVE  \E A \in F : \A B \in F : B \subseteq A => B = A
<1>1. \E A \in F : \A B \in F : <<B, A>> \notin StrictSubsetOrdering(S)
  <2>1. F \subseteq FiniteSubsetsOf(S)
    BY FS_Subset DEF FiniteSubsetsOf
  <2> QED BY <2>1, FS_StrictSubsetOrderingWellFounded, WFMin
<1> QED BY <1>1 DEF StrictSubsetOrdering

\* The table of sums over the subsets of S, w[x] being what x adds, and its last
\* entry: MapThenSumSet spelled out.
SumTable(f, w, S) ==
    f = [s \in SUBSET S |-> IF s = {} THEN 0
                            ELSE w[CHOOSE x \in s : TRUE] + f[s \ {CHOOSE x \in s : TRUE}]]

SumOf(w, S) == (CHOOSE f : SumTable(f, w, S))[S]

\* The units of S: w[x] of them for each x.
Units(w, S) == UNION {{x} \X (1..w[x]) : x \in S}

\* An element has w[x] units, which are finitely many.
LEMMA UnitsOfOne ==
    ASSUME NEW S, NEW w \in [S -> Nat], NEW x \in S
    PROVE  /\ IsFiniteSet({x} \X (1..w[x]))
           /\ Cardinality({x} \X (1..w[x])) = w[x]
<1>1. IsFiniteSet({x}) /\ Cardinality({x}) = 1
  BY FS_Singleton
<1>2. IsFiniteSet(1..w[x]) /\ Cardinality(1..w[x]) = w[x]
  BY FS_Interval
<1>3. 1 * w[x] = w[x]
  OBVIOUS
<1> QED BY <1>1, <1>2, <1>3, FS_Product

\* A finite set has finitely many units.
LEMMA UnitsAreFinite ==
    ASSUME NEW S, IsFiniteSet(S), NEW w \in [S -> Nat]
    PROVE  IsFiniteSet(Units(w, S))
<1> DEFINE rows == {{x} \X (1..w[x]) : x \in S}
           row == [x \in S |-> {x} \X (1..w[x])]
<1>1. IsFiniteSet(rows)
  <2>1. row \in Surjection(S, rows)
    BY DEF Surjection
  <2> QED BY <2>1, FS_Surjection
<1> QED BY <1>1, UnitsOfOne, FS_UNION DEF Units

\* The units of a set are those of one element and those of the others.
LEMMA UnitsOfMore ==
    ASSUME NEW S, IsFiniteSet(S), NEW w \in [S -> Nat], NEW A \in SUBSET S, NEW x \in A
    PROVE  Cardinality(Units(w, A)) = w[x] + Cardinality(Units(w, A \ {x}))
<1> DEFINE own == {x} \X (1..w[x])
           rest == Units(w, A \ {x})
<1>1. Units(w, A) = own \cup rest
  BY DEF Units
<1>2. own \cap rest = {}
  BY DEF Units
<1>3. IsFiniteSet(rest)
  <2>1. IsFiniteSet(A \ {x}) /\ A \ {x} \subseteq S
    BY FS_Subset
  <2>2. PICK v \in [A \ {x} -> Nat] : \A y \in A \ {x} : v[y] = w[y]
    <3>1. [y \in A \ {x} |-> w[y]] \in [A \ {x} -> Nat]
      BY <2>1
    <3> QED BY <3>1
  <2>3. Units(w, A \ {x}) = Units(v, A \ {x})
    BY <2>2 DEF Units
  <2> QED BY <2>1, <2>3, UnitsAreFinite
<1>4. IsFiniteSet(own) /\ Cardinality(own) = w[x]
  BY UnitsOfOne
<1>5. Cardinality(own \cup rest) = Cardinality(own) + Cardinality(rest) - Cardinality(own \cap rest)
  BY <1>3, <1>4, FS_Union
<1>6. Cardinality(own \cap rest) = 0 /\ Cardinality(rest) \in Nat
  BY <1>2, <1>3, FS_EmptySet, FS_CardinalityType
<1>7. w[x] \in Nat
  OBVIOUS
<1> HIDE DEF own, rest
<1>8. Cardinality(own \cup rest) = w[x] + Cardinality(rest)
  BY <1>4, <1>5, <1>6, <1>7
<1> QED BY <1>1, <1>8 DEF rest

\* A sum is the number of units: a smallest subset for which it were not would
\* have a smaller one.
LEMMA SumCounts ==
    ASSUME NEW S, IsFiniteSet(S), NEW w \in [S -> Nat]
    PROVE  SumOf(w, S) = Cardinality(Units(w, S))
<1> DEFINE count == [s \in SUBSET S |-> Cardinality(Units(w, s))]
<1>1. count[{}] = 0
  BY FS_EmptySet DEF Units
<1>2. \A s \in SUBSET S : s # {} => (CHOOSE x \in s : TRUE) \in s
  OBVIOUS
<1>3. SumTable(count, w, S)
  <2>1. ASSUME NEW s \in SUBSET S, s # {}
        PROVE count[s] = w[CHOOSE x \in s : TRUE] + count[s \ {CHOOSE x \in s : TRUE}]
    <3> DEFINE x == CHOOSE x \in s : TRUE
    <3>1. x \in s /\ s \ {x} \in SUBSET S
      BY <1>2, <2>1
    <3>2. Cardinality(Units(w, s)) = w[x] + Cardinality(Units(w, s \ {x}))
      <4> HIDE DEF x
      <4> QED BY <3>1, UnitsOfMore
    <3> QED BY <3>1, <3>2
  <2> HIDE DEF count
  <2>2. count = [s \in SUBSET S |-> count[s]]
    BY DEF count
  <2> QED BY <1>1, <2>1, <2>2 DEF SumTable
<1> DEFINE f == CHOOSE f : SumTable(f, w, S)
<1>4. SumTable(f, w, S)
  BY <1>3
<1> HIDE DEF f, count
<1> DEFINE bad == {s \in SUBSET S : f[s] # count[s]}
<1>5. ASSUME bad # {} PROVE FALSE
  <2>1. PICK s \in bad : \A t \in bad : t \subseteq s => t = s
    <3>1. bad \in SUBSET SUBSET S
      OBVIOUS
    <3> HIDE DEF bad
    <3> QED BY <1>5, <3>1, SmallestSubset
  <2>2. s # {}
    BY <1>1, <1>4 DEF SumTable
  <2>3. PICK x : x = CHOOSE y \in s : TRUE
    OBVIOUS
  <2>4. x \in s /\ s \ {x} \in SUBSET S /\ s \ {x} # s
    BY <2>2, <2>3
  <2>5. f[s \ {x}] = count[s \ {x}]
    BY <2>1, <2>4
  <2>6. f[s] = w[x] + f[s \ {x}]
    BY <1>4, <2>2, <2>3 DEF SumTable
  <2>7. count[s] = w[x] + count[s \ {x}]
    BY <1>3, <2>2, <2>3 DEF SumTable
  <2> QED BY <2>5, <2>6, <2>7
<1>6. f[S] = count[S]
  BY <1>5
<1> QED BY <1>6 DEF f, count, SumOf

-----------------------------------------------------------------------------
(* The form of a stage.                                                    *)

\* find_negative_blocking_decision returns a mandatory yes/no field whose
\* captured value is "no", or nothing when there is none.
LEMMA NegativeDecisionValue ==
    ASSUME NEW mandatory, DOMAIN mandatory \subseteq Nat, NEW captured
    PROVE  LET d == NegativeDecision(mandatory, captured) IN
           /\ d = None <=> NegativeDecisions(mandatory, captured) = {}
           /\ d # None => d \in YesNoFields /\ captured[d] = "no"
<1> DEFINE negative == NegativeDecisions(mandatory, captured)
<1>1. CASE negative = {}
  BY <1>1 DEF NegativeDecision
<1>2. CASE negative # {}
  <2> DEFINE first == CHOOSE k \in negative : \A j \in negative : k <= j
  <2>1. negative \subseteq Nat
    BY DEF NegativeDecisions
  <2>2. first \in negative
    BY <1>2, <2>1, LeastExists
  <2>3. NegativeDecision(mandatory, captured) = mandatory[first]
    BY <1>2 DEF NegativeDecision
  <2>4. mandatory[first] \in YesNoFields /\ captured[mandatory[first]] = "no"
    BY <2>2 DEF NegativeDecisions
  <2> QED BY <1>2, <2>3, <2>4 DEF YesNoFields, None
<1> QED BY <1>1, <1>2

\* What a stage's form keeps true: it is well typed, and its blocker is up
\* whenever a mandatory decision is "no".
FormSound(form, mandatory) ==
    /\ form \in Form
    /\ NegativeDecision(mandatory, form.captured) # None => form.blocker = "Blocked"

LEMMA EmptyFormSound ==
    ASSUME NEW mandatory, DOMAIN mandatory \subseteq Nat,
           \A m \in DOMAIN mandatory : mandatory[m] \in Fields
    PROVE  FormSound(EmptyForm, mandatory)
<1>1. EmptyForm \in Form
  BY DEF EmptyForm, Form, BlockerStatuses
<1>2. NegativeDecisions(mandatory, EmptyForm.captured) = {}
  BY DEF NegativeDecisions, EmptyForm, None, Fields
<1> QED BY <1>1, <1>2, NegativeDecisionValue DEF FormSound

LEMMA PatchKeepsFormSound ==
    ASSUME NEW mandatory, DOMAIN mandatory \subseteq Nat,
           NEW form, FormSound(form, mandatory),
           NEW fields \in SUBSET Fields, NEW body \in PatchBodies(fields),
           PatchAccepted(form, mandatory, body)
    PROVE  FormSound(PatchedForm(form, mandatory, body), mandatory)
<1> DEFINE merged == Merged(form, body)
           negative == NegativeDecision(mandatory, merged)
           patched == PatchedForm(form, mandatory, body)
<1>1. /\ form.captured \in [Fields -> Values \cup {None}]
      /\ form.blocker \in BlockerStatuses
      /\ form.reason \in Reasons \cup {None}
      /\ form.auto \in YesNoFields \cup {None}
  BY DEF FormSound, Form
<1>2. /\ body.blocker \in BlockerStatuses \cup {"unset"}
      /\ body.reason \in Reasons \cup {None}
      /\ \A f \in DOMAIN body.capture : body.capture[f] \in Values
      /\ MergedSource(form, body) \in YesNoFields \cup {None}
  BY <1>1, SourcesAssumption DEF PatchBodies, Captures, MergedSource
<1>3. merged \in [Fields -> Values \cup {None}]
  BY <1>1, <1>2 DEF Merged
<1>4. negative \in YesNoFields \cup {None}
  BY NegativeDecisionValue
<1>5. /\ RequestedBlocker(body) \in BlockerStatuses \cup {"unset"}
      /\ RequestedReason(body) \in Reasons \cup {None}
      /\ EffectiveReason(form, body) \in Reasons \cup {None}
  BY <1>1, <1>2 DEF RequestedBlocker, RequestedReason, EffectiveReason, BlockerStatuses
<1>6. NextBlocker(form, mandatory, body) \in BlockerStatuses
  BY <1>1, <1>5 DEF NextBlocker, BlockerStatuses
<1>7. NextReason(form, mandatory, body) \in Reasons \cup {None}
  BY <1>1, <1>5 DEF NextReason
<1>8. NextAuto(form, mandatory, body) \in YesNoFields \cup {None}
  BY <1>1, <1>2, <1>4 DEF NextAuto
<1>9. patched \in Form
  BY <1>3, <1>6, <1>7, <1>8 DEF PatchedForm, Form
<1>10. negative # None => patched.blocker = "Blocked"
  BY DEF PatchedForm, NextBlocker
<1> QED BY <1>9, <1>10 DEF FormSound, PatchedForm

\* Recording the outcome of the last stage touches no yes/no decision.
LEMMA OutcomeKeepsFormSound ==
    ASSUME NEW mandatory, DOMAIN mandatory \subseteq Nat,
           NEW form, FormSound(form, mandatory),
           NEW asked \in ValuesOf("rfq_terminal_outcome") \cup {None}
    PROVE  FormSound(OutcomeForm(form, asked), mandatory)
<1> DEFINE recorded == OutcomeForm(form, asked)
<1>0. OutcomeOf(form, asked) \in Values \cup {None}
  <2>1. form.captured["rfq_terminal_outcome"] \in Values \cup {None}
    BY DEF FormSound, Form, Fields
  <2>2. asked \in Values \cup {None}
    BY DEF Values, Fields
  <2> QED BY <2>1, <2>2 DEF OutcomeOf
<1>1. recorded \in Form /\ recorded.blocker = form.blocker
  BY <1>0 DEF FormSound, Form, OutcomeForm
<1>2. \A f \in YesNoFields : recorded.captured[f] = form.captured[f]
  BY DEF FormSound, Form, YesNoFields, Fields, OutcomeForm
<1>3. NegativeDecisions(mandatory, recorded.captured) = NegativeDecisions(mandatory, form.captured)
  BY <1>2 DEF NegativeDecisions
<1> QED BY <1>1, <1>3, NegativeDecisionValue DEF FormSound

-----------------------------------------------------------------------------
(* The stage list.                                                         *)

\* With the first k of n stages Completed and none Skipped, the progress of an
\* open RFQ is k of n in per cent.
DonePrefix(rows, n, k) ==
    /\ DOMAIN rows = 1..n
    /\ \A i \in 1..n : /\ rows[i].status # "Skipped"
                       /\ rows[i].status = "Completed" <=> i <= k

LEMMA ProgressOfPrefix ==
    ASSUME NEW n \in Nat, NEW k \in 0..(n - 1), NEW rows, DonePrefix(rows, n, k)
    PROVE  /\ LifecycleProgress(rows, "InPreparation") = (k * 100) \div n
           /\ Cardinality(CompletedStages(rows)) = k
<1>1. EffectiveStages(rows) = 1..n
  BY DEF EffectiveStages, DonePrefix
<1>2. CompletedStages(rows) = 1..k
  BY DEF CompletedStages, DonePrefix
<1>3. Cardinality(1..n) = n /\ Cardinality(1..k) = k
  <2>1. \A m \in Nat : Cardinality(1..m) = m
    BY FS_Interval
  <2> QED BY <2>1
<1>4. n \in 1..n /\ n \notin 1..k
  OBVIOUS
<1> QED BY <1>1, <1>2, <1>3, <1>4 DEF LifecycleProgress, TerminalStatuses

\* The dates that create() and advance() write go with the status they write.
LEMMA NewStageDated ==
    ASSUME NEW first \in BOOLEAN
    PROVE  RowDated(NewStage(first)) /\ NewStage(first).status # "Skipped"
<1>1. CASE first
  BY <1>1 DEF NewStage, RowDated
<1>2. CASE ~ first
  BY <1>2 DEF NewStage, RowDated
<1> QED BY <1>1, <1>2

LEMMA CompletedDated ==
    ASSUME NEW row \in StageRow, row.status = "InProgress", RowDated(row)
    PROVE  /\ Completed(row) \in StageRow
           /\ Completed(row).status = "Completed"
           /\ RowDated(Completed(row))
  BY DEF StageRow, StageStatuses, Completed, RowDated

LEMMA StartedDated ==
    ASSUME NEW row \in StageRow, row.status = "NotStarted", RowDated(row)
    PROVE  /\ Started(row) \in StageRow
           /\ Started(row).status = "InProgress"
           /\ RowDated(Started(row))
  BY DEF StageRow, StageStatuses, Started, RowDated

(***************************************************************************)
(* apply_terminal_stage_freeze on an RFQ whose stage "current" is live:    *)
(* the done stages stay as they are, that one is dropped with its dates,   *)
(* the later ones without.                                                 *)
(***************************************************************************)
LEMMA FrozenRowDated ==
    ASSUME NEW row \in StageRow, RowDated(row), NEW order \in Nat, NEW current \in Nat,
           order < current => row.status = "Completed",
           order = current => row.status = "InProgress",
           order > current => row.status = "NotStarted"
    PROVE  LET frozen == FrozenRow(row, order, current) IN
           /\ frozen \in StageRow
           /\ RowDated(frozen)
           /\ order < current => frozen.status = "Completed"
           /\ order >= current => frozen.status = "Skipped"
           /\ order = current => frozen.started
           /\ order > current => ~ frozen.started
<1>1. CASE order < current
  BY <1>1 DEF FrozenRow, RowDated
<1>2. CASE order = current
  BY <1>2 DEF FrozenRow, RowDated, StageRow, StageStatuses
<1>3. CASE order > current
  BY <1>3 DEF FrozenRow, RowDated, StageRow, StageStatuses
<1> QED BY <1>1, <1>2, <1>3

(***************************************************************************)
(* The inductive invariant: the rows are typed, and the named invariants   *)
(* hold together with the soundness of every form.  The last is what lets  *)
(* advance() trust the blocker: it never looks at the yes/no decisions.    *)
(***************************************************************************)
FormsSound == \A i \in Stage : FormSound(forms[i], Mandatory(i))

IInv ==
    /\ RowsOK
    /\ LiveStageIsCurrent
    /\ DatesTellTheStory
    /\ ProgressTellsClosure
    /\ DecisionExplained
    /\ FormsSound

\* What RowsOK and the template's assumption give about stage i.
LEMMA StageFacts ==
    ASSUME RowsOK
    PROVE  \E n \in 0..Size :
              /\ Stage = 1..n
              /\ plan \in [1..n -> 1..Size]
              /\ stages \in [1..n -> StageRow]
              /\ forms \in [1..n -> Form]
              /\ \A i \in 1..n : /\ DOMAIN Mandatory(i) \subseteq Nat
                                 /\ \A m \in DOMAIN Mandatory(i) : Mandatory(i)[m] \in Fields
                                 /\ Template[plan[i]].form \subseteq Fields
  BY TemplateAssumption DEF RowsOK, Stage, Mandatory, Size

LEMMA InitIInv == Init => IInv
  BY DEF Init, IInv, RowsOK, LiveStageIsCurrent, DatesTellTheStory, ProgressTellsClosure,
         DecisionExplained, FormsSound, RfqStatuses, TerminalStatuses, NoStage, Size, Stage,
         Closed, None

-----------------------------------------------------------------------------
(* One lemma per action.                                                   *)

LEMMA CreateKeepsIInv == CreateRfq => IInv'
<1> SUFFICES ASSUME CreateRfq PROVE IInv'
  OBVIOUS
<1> USE DEF NoStage
<1>1. PICK kept \in ActiveTemplates :
         /\ plan' \in InOrder(kept)
         /\ stages' = [i \in DOMAIN plan' |-> NewStage(i = 1)]
         /\ forms' = [i \in DOMAIN plan' |-> EmptyForm]
  BY DEF CreateRfq
<1> DEFINE n == Cardinality(kept)
<1>2. kept \subseteq 1..Size /\ kept # {} /\ Size \in Nat
  BY TemplateAssumption DEF ActiveTemplates, Size
<1>3. n \in 0..Size /\ n \in Nat \ {0}
  <2>1. IsFiniteSet(1..Size) /\ Cardinality(1..Size) = Size
    BY <1>2, FS_Interval
  <2>2. IsFiniteSet(kept) /\ n <= Size
    BY <1>2, <2>1, FS_Subset
  <2>3. n \in Nat /\ n # 0
    BY <1>2, <2>2, FS_CardinalityType, FS_EmptySet
  <2> QED BY <1>2, <2>2, <2>3
<1> HIDE DEF n
<1>4. plan' \in [1..n -> 1..Size]
  BY <1>1, <1>2 DEF InOrder, n
<1>5. stages' = [i \in 1..n |-> NewStage(i = 1)] /\ forms' = [i \in 1..n |-> EmptyForm]
  BY <1>1, <1>4
<1>6. rfq' = [status |-> "InPreparation", current |-> 1, progress |-> 0, reason |-> None]
  BY DEF CreateRfq
<1>7. stages' \in [1..n -> StageRow] /\ Stage' = 1..n
  BY <1>5 DEF NewStage, StageRow, StageStatuses, Stage
<1>8. \A i \in 1..n : FormSound(forms'[i], Mandatory(i)')
  BY <1>4, <1>5, EmptyFormSound, TemplateAssumption DEF Mandatory, Size
<1>9. forms' \in [1..n -> Form]
  BY <1>5, <1>8 DEF FormSound
<1>10. RowsOK'
  <2>1. rfq' \in [status   : RfqStatuses \cup {"Absent"},
                  current  : Stage' \cup {NoStage},
                  progress : 0..100,
                  reason   : Explanations \cup {None}]
    BY <1>3, <1>6, <1>7 DEF RfqStatuses
  <2> QED BY <1>3, <1>4, <1>7, <1>9, <2>1 DEF RowsOK
<1>11. LiveStageIsCurrent' /\ DatesTellTheStory'
  <2>1. \A i \in 1..n : stages'[i] = NewStage(i = 1)
    BY <1>5
  <2>2. LiveStageIsCurrent'
    BY <1>3, <1>6, <1>7, <2>1 DEF LiveStageIsCurrent, NewStage
  <2>3. DatesTellTheStory'
    <3>1. \A i \in 1..n : RowDated(stages'[i]) /\ stages'[i].status # "Skipped"
      BY <2>1, NewStageDated
    <3> QED BY <1>7, <3>1 DEF DatesTellTheStory
  <2> QED BY <2>2, <2>3
<1>12. ProgressTellsClosure'
  <2>1. CompletedStages(stages') = {}
    BY <1>5, <1>7 DEF NewStage, CompletedStages
  <2>2. Cardinality(Stage') = n
    BY <1>3, <1>7, FS_Interval
  <2> QED BY <1>3, <1>6, <2>1, <2>2, FS_EmptySet DEF ProgressTellsClosure, Closed, TerminalStatuses
<1>13. DecisionExplained' /\ FormsSound'
  BY <1>6, <1>7, <1>8 DEF DecisionExplained, FormsSound
<1> QED BY <1>10, <1>11, <1>12, <1>13 DEF IInv

LEMMA UpdateStageKeepsIInv ==
    ASSUME IInv, NEW i \in Stage, UpdateStage(i)
    PROVE  IInv'
<1> USE DEF IInv
<1>1. PICK n \in 0..Size :
         /\ Stage = 1..n
         /\ plan \in [1..n -> 1..Size]
         /\ stages \in [1..n -> StageRow]
         /\ forms \in [1..n -> Form]
         /\ \A j \in 1..n : /\ DOMAIN Mandatory(j) \subseteq Nat
                            /\ Template[plan[j]].form \subseteq Fields
  BY StageFacts
<1>2. PICK body \in Bodies[plan[i]] :
         /\ PatchAccepted(forms[i], Mandatory(i), body)
         /\ forms' = [forms EXCEPT ![i] = PatchedForm(forms[i], Mandatory(i), body)]
  BY DEF UpdateStage, Answers
<1>3. body \in PatchBodies(Template[plan[i]].form)
  BY <1>1 DEF Bodies
<1>4. FormSound(PatchedForm(forms[i], Mandatory(i), body), Mandatory(i))
  BY <1>1, <1>2, <1>3, PatchKeepsFormSound DEF FormsSound
<1>5. UNCHANGED <<rfq, plan, stages>>
  BY DEF UpdateStage
<1>6. forms' \in [1..n -> Form]
  BY <1>1, <1>2, <1>4 DEF FormSound
<1>7. RowsOK'
  BY <1>1, <1>5, <1>6 DEF RowsOK, Stage
<1>8. FormsSound'
  BY <1>1, <1>2, <1>4, <1>5 DEF FormsSound, Stage, Mandatory
<1>9. LiveStageIsCurrent' /\ DatesTellTheStory' /\ ProgressTellsClosure' /\ DecisionExplained'
  BY <1>5 DEF LiveStageIsCurrent, DatesTellTheStory, ProgressTellsClosure, DecisionExplained,
              Stage, Closed
<1> QED BY <1>7, <1>8, <1>9

\* Steps that leave the rows alone: work on subtasks, and stuttering.
LEMMA SameRowsKeepIInv ==
    ASSUME IInv, UNCHANGED <<rfq, plan, stages, forms>>
    PROVE  IInv'
<1>1. RowsOK'
  BY DEF IInv, RowsOK, Stage
<1>2. LiveStageIsCurrent' /\ DatesTellTheStory'
  BY DEF IInv, LiveStageIsCurrent, DatesTellTheStory, Stage
<1>3. ProgressTellsClosure' /\ DecisionExplained'
  BY DEF IInv, ProgressTellsClosure, DecisionExplained, Stage, Closed
<1>4. FormsSound'
  BY DEF IInv, FormsSound, Stage, Mandatory
<1> QED BY <1>1, <1>2, <1>3, <1>4 DEF IInv

LEMMA AdvanceToNextKeepsIInv ==
    ASSUME IInv, NEW i \in Stage, AdvanceToNext(i)
    PROVE  IInv'
<1> USE DEF IInv, NoStage
<1>1. PICK n \in 0..Size :
         /\ Stage = 1..n
         /\ plan \in [1..n -> 1..Size]
         /\ stages \in [1..n -> StageRow]
         /\ forms \in [1..n -> Form]
  BY StageFacts
<1>2. Size \in Nat
  BY TemplateAssumption DEF Size
<1>3. /\ i = rfq.current /\ i \in 1..n /\ i + 1 \in 1..n
      /\ stages' = AdvancedRows(i)
      /\ rfq' = [rfq EXCEPT !.current  = i + 1,
                            !.progress = LifecycleProgress(AdvancedRows(i), rfq.status)]
      /\ UNCHANGED <<plan, forms>>
  BY <1>1 DEF AdvanceToNext, MayAdvance
<1>4. rfq.status = "InPreparation"
  BY <1>1, <1>2, <1>3 DEF LiveStageIsCurrent
<1>5. /\ \A j \in 1..n : j < i => stages[j].status = "Completed"
      /\ stages[i].status = "InProgress"
      /\ \A j \in 1..n : j > i => stages[j].status = "NotStarted"
  BY <1>1, <1>2, <1>3, <1>4 DEF LiveStageIsCurrent
<1>6. /\ stages'[i] = Completed(stages[i])
      /\ stages'[i + 1] = Started(stages[i + 1])
      /\ \A j \in 1..n : j # i /\ j # i + 1 => stages'[j] = stages[j]
      /\ DOMAIN stages' = 1..n
  BY <1>1, <1>2, <1>3 DEF AdvancedRows
<1>7. \A j \in 1..n : RowDated(stages[j]) /\ stages[j] \in StageRow
  BY <1>1 DEF DatesTellTheStory
<1>8. ASSUME NEW j \in 1..n
      PROVE  /\ stages'[j] \in StageRow
             /\ RowDated(stages'[j])
             /\ stages'[j].status = IF j <= i THEN "Completed"
                                    ELSE IF j = i + 1 THEN "InProgress" ELSE "NotStarted"
  <2>1. CASE j = i
    BY <1>2, <1>3, <1>5, <1>6, <1>7, <2>1, CompletedDated
  <2>2. CASE j = i + 1
    BY <1>2, <1>3, <1>5, <1>6, <1>7, <2>2, StartedDated
  <2>3. CASE j # i /\ j # i + 1
    BY <1>2, <1>3, <1>5, <1>6, <1>7, <2>3
  <2> QED BY <2>1, <2>2, <2>3
<1>9. Stage' = 1..n /\ stages' \in [1..n -> StageRow]
  BY <1>3, <1>6, <1>8 DEF Stage, AdvancedRows
<1> DEFINE percent == (i * 100) \div n
<1>10. LifecycleProgress(stages', "InPreparation") = percent /\ Cardinality(CompletedStages(stages')) = i
  <2>1. n \in Nat /\ i \in 0..(n - 1)
    BY <1>2, <1>3
  <2>2. DonePrefix(stages', n, i)
    BY <1>6, <1>8 DEF DonePrefix
  <2> HIDE DEF IInv
  <2> QED BY <2>1, <2>2, ProgressOfPrefix
<1>11. /\ percent \in 0..99
       /\ percent * n <= i * 100
       /\ i * 100 < (percent + 1) * n
  <2>1. n \in Nat /\ i \in Nat /\ i < n
    BY <1>2, <1>3
  <2> HIDE DEF IInv
  <2> QED BY <2>1, PercentRoundsDown
<1> HIDE DEF IInv, percent
<1>12. RowsOK'
  <2>1. rfq.reason \in Explanations \cup {None}
    BY DEF IInv, RowsOK
  <2>2. rfq' = [status |-> "InPreparation", current |-> i + 1, progress |-> percent,
                reason |-> rfq.reason]
    BY <1>3, <1>4, <1>10 DEF IInv, RowsOK
  <2>3. rfq' \in [status   : RfqStatuses \cup {"Absent"},
                  current  : Stage' \cup {NoStage},
                  progress : 0..100,
                  reason   : Explanations \cup {None}]
    BY <1>3, <1>9, <1>11, <2>1, <2>2 DEF RfqStatuses
  <2> QED BY <1>1, <1>3, <1>9, <2>3 DEF RowsOK
<1>13. rfq'.status = "InPreparation" /\ rfq'.current = i + 1 /\ rfq'.progress = percent
  BY <1>3, <1>4, <1>10 DEF IInv, RowsOK
<1>14. LiveStageIsCurrent'
  <2>1. i \in Nat /\ i >= 1 /\ 1..n \subseteq Nat
    BY <1>2, <1>3
  <2>2. \A j \in 1..n : /\ j < i + 1 => stages'[j].status = "Completed"
                        /\ j = i + 1 => stages'[j].status = "InProgress"
                        /\ j > i + 1 => stages'[j].status = "NotStarted"
    BY <1>8, <2>1
  <2>3. Stage' # {}
    BY <1>3, <1>9
  <2> QED BY <1>9, <1>13, <2>1, <2>2, <2>3 DEF LiveStageIsCurrent
<1>15. DatesTellTheStory'
  BY <1>2, <1>8, <1>9 DEF DatesTellTheStory
<1>16. ProgressTellsClosure'
  <2>1. Cardinality(Stage') = n
    <3>1. n \in Nat
      BY <1>2
    <3> QED BY <1>9, <3>1, FS_Interval
  <2> QED BY <1>10, <1>11, <1>13, <2>1 DEF ProgressTellsClosure, Closed, TerminalStatuses
<1>17. DecisionExplained' /\ FormsSound'
  BY <1>1, <1>3, <1>9, <1>13 DEF IInv, DecisionExplained, FormsSound, Mandatory
<1> QED BY <1>12, <1>14, <1>15, <1>16, <1>17 DEF IInv

\* Both ways to Cancelled: POST cancel and advance() with a "no-go".
LEMMA CancelKeepsIInv ==
    ASSUME IInv, rfq.status = "InPreparation", NEW why \in Explanations, CancelledRows(why),
           UNCHANGED <<plan, forms>>
    PROVE  IInv'
<1> USE DEF NoStage
<1>1. PICK n \in 0..Size :
         /\ Stage = 1..n
         /\ plan \in [1..n -> 1..Size]
         /\ stages \in [1..n -> StageRow]
         /\ forms \in [1..n -> Form]
  BY StageFacts DEF IInv
<1>2. Size \in Nat
  BY TemplateAssumption DEF Size
<1> DEFINE c == rfq.current
<1>3. /\ c \in 1..n
      /\ \A j \in 1..n : /\ j < c => stages[j].status = "Completed"
                         /\ j = c => stages[j].status = "InProgress"
                         /\ j > c => stages[j].status = "NotStarted"
  BY <1>1 DEF IInv, RowsOK, LiveStageIsCurrent
<1>4. /\ stages' = FreezeStages(stages, c)
      /\ rfq' = [status |-> "Cancelled", current |-> 0, progress |-> 100, reason |-> why]
  BY DEF CancelledRows, LifecycleProgress, TerminalStatuses
<1> HIDE DEF c
<1>5. ASSUME NEW j \in 1..n
      PROVE  /\ stages'[j] \in StageRow
             /\ RowDated(stages'[j])
             /\ stages'[j].status = IF j < c THEN "Completed" ELSE "Skipped"
             /\ j = c => stages'[j].started
             /\ j > c => ~ stages'[j].started
  <2>1. stages'[j] = FrozenRow(stages[j], j, c)
    BY <1>1, <1>4 DEF FreezeStages
  <2>2. stages[j] \in StageRow /\ RowDated(stages[j])
    BY <1>1 DEF IInv, DatesTellTheStory
  <2>3. j \in Nat /\ c \in Nat
    BY <1>2, <1>3
  <2> PICK row : row = stages[j]
    OBVIOUS
  <2>4. /\ row \in StageRow /\ RowDated(row)
        /\ j < c => row.status = "Completed"
        /\ j = c => row.status = "InProgress"
        /\ j > c => row.status = "NotStarted"
    BY <1>3, <2>2
  <2>5. LET frozen == FrozenRow(row, j, c) IN
        /\ frozen \in StageRow
        /\ RowDated(frozen)
        /\ j < c => frozen.status = "Completed"
        /\ j >= c => frozen.status = "Skipped"
        /\ j = c => frozen.started
        /\ j > c => ~ frozen.started
    BY <2>3, <2>4, FrozenRowDated
  <2> QED BY <2>1, <2>3, <2>5
<1>6. Stage' = 1..n /\ stages' \in [1..n -> StageRow]
  BY <1>1, <1>4, <1>5 DEF Stage, FreezeStages
<1>7. RowsOK'
  <2>1. rfq' \in [status   : RfqStatuses \cup {"Absent"},
                  current  : Stage' \cup {NoStage},
                  progress : 0..100,
                  reason   : Explanations \cup {None}]
    BY <1>4 DEF RfqStatuses, TerminalStatuses
  <2> QED BY <1>1, <1>6, <2>1 DEF RowsOK
<1>8. LiveStageIsCurrent'
  BY <1>2, <1>3, <1>4, <1>5, <1>6 DEF LiveStageIsCurrent
<1>9. DatesTellTheStory'
  <2> SUFFICES ASSUME NEW j \in 1..n, stages'[j].status = "Skipped"
               PROVE  stages'[j].started <=> (j = 1 \/ stages'[j - 1].status = "Completed")
    BY <1>5, <1>6 DEF DatesTellTheStory
  <2>1. j >= c
    BY <1>2, <1>3, <1>5
  <2>2. CASE j = c
    BY <1>2, <1>3, <1>5, <2>2
  <2>3. CASE j > c
    BY <1>2, <1>3, <1>5, <2>3
  <2> QED BY <1>2, <1>3, <2>1, <2>2, <2>3
<1>10. ProgressTellsClosure' /\ DecisionExplained'
  BY <1>4, ExplanationsAssumption
     DEF ProgressTellsClosure, DecisionExplained, Closed, TerminalStatuses
<1>11. FormsSound'
  BY <1>1, <1>6 DEF IInv, FormsSound, Mandatory
<1> QED BY <1>7, <1>8, <1>9, <1>10, <1>11 DEF IInv

LEMMA LiveWhenAdvanced ==
    ASSUME IInv, NEW i \in Stage, MayAdvance(i)
    PROVE  rfq.status = "InPreparation" /\ i = rfq.current
<1>1. \E n \in 0..Size : Stage = 1..n
  BY StageFacts DEF IInv
<1>2. Size \in Nat
  BY TemplateAssumption DEF Size
<1>3. i = rfq.current
  BY DEF MayAdvance
<1> QED BY <1>1, <1>2, <1>3 DEF IInv, LiveStageIsCurrent, NoStage

LEMMA AdvanceNoGoKeepsIInv ==
    ASSUME IInv, NEW i \in Stage, AdvanceNoGo(i)
    PROVE  IInv'
  BY LiveWhenAdvanced, CancelKeepsIInv DEF AdvanceNoGo

LEMMA AdvanceToOutcomeKeepsIInv ==
    ASSUME IInv, NEW i \in Stage, AdvanceToOutcome(i)
    PROVE  IInv'
<1> USE DEF NoStage
<1>1. PICK n \in 0..Size :
         /\ Stage = 1..n
         /\ plan \in [1..n -> 1..Size]
         /\ stages \in [1..n -> StageRow]
         /\ forms \in [1..n -> Form]
         /\ \A j \in 1..n : DOMAIN Mandatory(j) \subseteq Nat
  BY StageFacts DEF IInv
<1>2. Size \in Nat
  BY TemplateAssumption DEF Size
<1>3. PICK asked \in ValuesOf("rfq_terminal_outcome") \cup {None}, decision \in {"Awarded", "Lost"} :
         /\ MayAdvance(i)
         /\ i + 1 \notin Stage
         /\ forms' = [forms EXCEPT ![i] = OutcomeForm(forms[i], asked)]
         /\ stages' = [stages EXCEPT ![i] = Completed(@)]
         /\ \E why \in OutcomeReasons(decision) :
               rfq' = [status |-> decision, current |-> 0, progress |-> 100, reason |-> why]
         /\ UNCHANGED plan
  BY DEF AdvanceToOutcome
<1>4. i \in 1..n /\ i = n /\ i = rfq.current /\ rfq.status = "InPreparation"
  BY <1>1, <1>2, <1>3, LiveWhenAdvanced
<1>5. /\ \A j \in 1..n : j # i => stages[j].status = "Completed"
      /\ stages[i].status = "InProgress"
  BY <1>1, <1>2, <1>4 DEF IInv, LiveStageIsCurrent
<1>6. \A j \in 1..n : RowDated(stages[j]) /\ stages[j] \in StageRow
  BY <1>1 DEF IInv, DatesTellTheStory
<1>7. ASSUME NEW j \in 1..n
      PROVE  /\ stages'[j] \in StageRow
             /\ RowDated(stages'[j])
             /\ stages'[j].status = "Completed"
  <2>1. CASE j = i
    BY <1>1, <1>3, <1>5, <1>6, <2>1, CompletedDated
  <2>2. CASE j # i
    BY <1>1, <1>3, <1>5, <1>6, <2>2
  <2> QED BY <2>1, <2>2
<1>8. Stage' = 1..n /\ stages' \in [1..n -> StageRow]
  BY <1>1, <1>3, <1>7 DEF Stage
<1>9. ASSUME NEW j \in 1..n
      PROVE  FormSound(forms'[j], Mandatory(j)')
  <2>1. Mandatory(j)' = Mandatory(j) /\ FormSound(forms[j], Mandatory(j))
    BY <1>1, <1>3 DEF Mandatory, IInv, FormsSound
  <2>2. CASE j = i
    <3>1. forms'[i] = OutcomeForm(forms[i], asked)
      BY <1>1, <1>3, <1>4
    <3>2. FormSound(OutcomeForm(forms[i], asked), Mandatory(i))
      <4>1. DOMAIN Mandatory(i) \subseteq Nat /\ FormSound(forms[i], Mandatory(i))
        BY <1>1, <2>1, <2>2
      <4> QED BY <1>3, <4>1, OutcomeKeepsFormSound
    <3> QED BY <2>1, <2>2, <3>1, <3>2
  <2>3. CASE j # i
    BY <1>1, <1>3, <2>1, <2>3
  <2> QED BY <2>2, <2>3
<1>10. forms' \in [1..n -> Form]
  BY <1>1, <1>3, <1>9 DEF FormSound
<1>11. PICK why \in Explanations \cup {None} :
          /\ decision = "Lost" => why # None
          /\ rfq' = [status |-> decision, current |-> 0, progress |-> 100, reason |-> why]
  BY <1>3, ExplanationsAssumption DEF OutcomeReasons
<1>12. RowsOK'
  <2>1. rfq' \in [status   : RfqStatuses \cup {"Absent"},
                  current  : Stage' \cup {NoStage},
                  progress : 0..100,
                  reason   : Explanations \cup {None}]
    BY <1>3, <1>11 DEF RfqStatuses, TerminalStatuses
  <2> QED BY <1>1, <1>3, <1>8, <1>10, <2>1 DEF RowsOK
<1>13. LiveStageIsCurrent' /\ DatesTellTheStory'
  BY <1>3, <1>7, <1>8 DEF LiveStageIsCurrent, DatesTellTheStory
<1>14. ProgressTellsClosure' /\ DecisionExplained'
  BY <1>3, <1>11 DEF ProgressTellsClosure, DecisionExplained, Closed, TerminalStatuses
<1> QED BY <1>8, <1>9, <1>12, <1>13, <1>14 DEF IInv, FormsSound

LEMMA CancelRfqKeepsIInv == IInv /\ CancelRfq => IInv'
<1> SUFFICES ASSUME IInv, CancelRfq PROVE IInv'
  OBVIOUS
<1>1. rfq.status = "InPreparation"
  BY DEF IInv, RowsOK, CancelRfq, CancelledRows, ValidTransition, ValidTransitions,
         RfqStatuses, TerminalStatuses
<1> QED BY <1>1, CancelKeepsIInv DEF CancelRfq

LEMMA AmendKeepsIInv == IInv /\ AmendCancellation => IInv'
<1> SUFFICES ASSUME IInv, AmendCancellation PROVE IInv'
  OBVIOUS
<1>1. PICK why \in Explanations : rfq' = [rfq EXCEPT !.reason = why]
  BY DEF AmendCancellation
<1>2. rfq.status = "Cancelled" /\ UNCHANGED <<plan, stages, forms>>
  BY DEF AmendCancellation
<1>3. RowsOK'
  BY <1>1, <1>2 DEF IInv, RowsOK, Stage
<1>4. rfq' = [rfq EXCEPT !.reason = why] /\ rfq'.reason = why /\ rfq'.status = rfq.status
      /\ rfq'.current = rfq.current /\ rfq'.progress = rfq.progress
  BY <1>1 DEF IInv, RowsOK
<1>5. LiveStageIsCurrent' /\ DatesTellTheStory' /\ ProgressTellsClosure' /\ FormsSound'
  BY <1>2, <1>4 DEF IInv, LiveStageIsCurrent, DatesTellTheStory, ProgressTellsClosure,
                    FormsSound, Mandatory, Stage, Closed
<1>6. DecisionExplained'
  BY <1>4, ExplanationsAssumption DEF DecisionExplained
<1> QED BY <1>3, <1>5, <1>6 DEF IInv

LEMMA SetSubtaskKeepsTypes ==
    ASSUME SubtasksOK, NEW i \in Stage, NEW k \in Subtasks, NEW task \in SubtaskRow,
           SetSubtask(i, k, task)
    PROVE  SubtasksOK' /\ UNCHANGED <<rfq, plan, stages, forms>>
  BY DEF SubtasksOK, SetSubtask, Stage

LEMMA SubtaskStepsKeepTypes ==
    ASSUME SubtasksOK, NEW i \in Stage, NEW k \in Subtasks,
           CreateSubtask(i, k) \/ UpdateSubtask(i, k) \/ DeleteSubtask(i, k)
    PROVE  SubtasksOK' /\ UNCHANGED <<rfq, plan, stages, forms>>
<1>1. CASE CreateSubtask(i, k)
  <2>1. [live |-> TRUE, progress |-> 0, status |-> "Open"] \in SubtaskRow
    BY DEF SubtaskRow
  <2> QED BY <1>1, <2>1, SetSubtaskKeepsTypes DEF CreateSubtask
<1>2. CASE UpdateSubtask(i, k)
  <2>1. PICK p \in ProgressSteps \cup {subtasks[i][k].progress} :
           SetSubtask(i, k, [live |-> TRUE, progress |-> p, status |-> DeriveStatus(p)])
    BY <1>2 DEF UpdateSubtask
  <2>2. p \in 0..100
    <3>1. subtasks[i][k] \in SubtaskRow
      BY DEF SubtasksOK
    <3>2. subtasks[i][k].progress \in 0..100
      BY <3>1 DEF SubtaskRow
    <3> QED BY <3>2, ProgressAssumption
  <2>3. [live |-> TRUE, progress |-> p, status |-> DeriveStatus(p)] \in SubtaskRow
    BY <2>2 DEF SubtaskRow, DeriveStatus
  <2> QED BY <2>1, <2>3, SetSubtaskKeepsTypes
<1>3. CASE DeleteSubtask(i, k)
  <2>1. NoSubtask \in SubtaskRow
    BY DEF NoSubtask, SubtaskRow
  <2> QED BY <1>3, <2>1, SetSubtaskKeepsTypes DEF DeleteSubtask
<1> QED BY <1>1, <1>2, <1>3

\* Every other step touches the subtasks of no stage, and at most one stage's
\* progress column, but create(), which starts all of them from nothing.
LEMMA OtherStepsKeepTypes ==
    ASSUME SubtasksOK, UNCHANGED subtasks, Stage' = Stage,
           DOMAIN stageProgress' = DOMAIN stageProgress
    PROVE  SubtasksOK'
  BY DEF SubtasksOK

-----------------------------------------------------------------------------
(* The theorems.                                                           *)

LEMMA NextKeepsIInv == IInv /\ [Next]_vars => IInv'
<1> SUFFICES ASSUME IInv, [Next]_vars PROVE IInv'
  OBVIOUS
<1>1. CASE CreateRfq
  BY <1>1, CreateKeepsIInv
<1>2. CASE CancelRfq
  BY <1>2, CancelRfqKeepsIInv
<1>3. CASE AmendCancellation
  BY <1>3, AmendKeepsIInv
<1>4. ASSUME NEW i \in Stage, UpdateStage(i) PROVE IInv'
  BY <1>4, UpdateStageKeepsIInv
<1>5. ASSUME NEW i \in Stage, Advance(i) PROVE IInv'
  BY <1>5, AdvanceToNextKeepsIInv, AdvanceNoGoKeepsIInv, AdvanceToOutcomeKeepsIInv DEF Advance
<1>6. ASSUME NEW i \in Stage, NEW k \in Subtasks,
             CreateSubtask(i, k) \/ UpdateSubtask(i, k) \/ DeleteSubtask(i, k)
      PROVE  IInv'
  <2>1. UNCHANGED <<rfq, plan, stages, forms>>
    BY <1>6 DEF CreateSubtask, UpdateSubtask, DeleteSubtask, SetSubtask
  <2> QED BY <2>1, SameRowsKeepIInv
<1>7. CASE UNCHANGED vars
  BY <1>7, SameRowsKeepIInv DEF vars
<1> QED BY <1>1, <1>2, <1>3, <1>4, <1>5, <1>6, <1>7 DEF Next

LEMMA InductiveInvariant == Spec => []IInv
<1> QED BY InitIInv, NextKeepsIInv, PTL DEF Spec

LEMMA SameStages ==
    ASSUME IInv, [Next]_vars, ~ CreateRfq
    PROVE  Stage' = Stage
<1>1. PICK n \in 0..Size : Stage = 1..n /\ stages \in [1..n -> StageRow]
  BY StageFacts DEF IInv
<1>2. ASSUME NEW why, CancelledRows(why) PROVE DOMAIN stages' = DOMAIN stages
  BY <1>2 DEF CancelledRows, FreezeStages
<1>3. ASSUME NEW i \in Stage, Advance(i) PROVE DOMAIN stages' = DOMAIN stages
  <2>1. CASE AdvanceToNext(i)
    BY <2>1, <1>1 DEF AdvanceToNext, AdvancedRows
  <2>2. CASE AdvanceNoGo(i)
    BY <2>2, <1>2 DEF AdvanceNoGo
  <2>3. CASE AdvanceToOutcome(i)
    BY <2>3, <1>1 DEF AdvanceToOutcome
  <2> QED BY <1>3, <2>1, <2>2, <2>3 DEF Advance
<1>4. CASE CancelRfq
  BY <1>2, <1>4 DEF CancelRfq, Stage
<1>5. CASE \/ AmendCancellation
           \/ \E i \in Stage : UpdateStage(i)
           \/ \E i \in Stage, k \in Subtasks :
                 CreateSubtask(i, k) \/ UpdateSubtask(i, k) \/ DeleteSubtask(i, k)
           \/ UNCHANGED vars
  BY <1>5 DEF AmendCancellation, UpdateStage, CreateSubtask, UpdateSubtask, DeleteSubtask,
              SetSubtask, vars, Stage
<1> QED BY <1>3, <1>4, <1>5 DEF Next, Stage

LEMMA NextKeepsSubtasksOK == IInv /\ SubtasksOK /\ [Next]_vars => SubtasksOK'
<1> SUFFICES ASSUME IInv, SubtasksOK, [Next]_vars PROVE SubtasksOK'
  OBVIOUS
<1>1. CASE CreateRfq
  <2>1. NoSubtask \in SubtaskRow
    BY DEF NoSubtask, SubtaskRow
  <2> QED BY <1>1, <2>1 DEF CreateRfq, SubtasksOK, Stage
<1>2. ASSUME NEW i \in Stage, NEW k \in Subtasks,
             CreateSubtask(i, k) \/ UpdateSubtask(i, k) \/ DeleteSubtask(i, k)
      PROVE  SubtasksOK'
  BY <1>2, SubtaskStepsKeepTypes
<1>3. ASSUME ~ CreateRfq, UNCHANGED subtasks, DOMAIN stageProgress' = DOMAIN stageProgress
      PROVE  SubtasksOK'
  BY <1>3, SameStages, OtherStepsKeepTypes
<1>4. CASE ~ CreateRfq /\ (CancelRfq \/ AmendCancellation \/ UNCHANGED vars)
  BY <1>3, <1>4 DEF CancelRfq, AmendCancellation, vars
<1>5. ASSUME ~ CreateRfq, NEW i \in Stage, UpdateStage(i) \/ Advance(i) PROVE SubtasksOK'
  BY <1>3, <1>5 DEF UpdateStage, Advance, AdvanceToNext, AdvanceNoGo, AdvanceToOutcome
<1> QED BY <1>1, <1>2, <1>4, <1>5 DEF Next

\* Every row and column keeps its type, for every workflow.
THEOREM TypesCorrect == Spec => []TypeOK
<1>1. Init => SubtasksOK
  BY DEF Init, SubtasksOK, Stage
<1>2. IInv => RowsOK
  BY DEF IInv
<1> QED BY <1>1, <1>2, NextKeepsSubtasksOK, InductiveInvariant, PTL DEF Spec, TypeOK

\* The RFQ row and the stage list tell the same story, whatever the number of
\* stages and the requests that led there.
THEOREM OneLiveStage == Spec => []LiveStageIsCurrent
<1>1. IInv => LiveStageIsCurrent
  BY DEF IInv
<1> QED BY <1>1, InductiveInvariant, PTL

\* The dates tell which stages were live, and when each left that state.
THEOREM DatesTrue == Spec => []DatesTellTheStory
<1>1. IInv => DatesTellTheStory
  BY DEF IInv
<1> QED BY <1>1, InductiveInvariant, PTL

\* The progress is the percentage of stages done, and 100 means decided.
THEOREM ProgressTrue == Spec => []ProgressTellsClosure
<1>1. IInv => ProgressTellsClosure
  BY DEF IInv
<1> QED BY <1>1, InductiveInvariant, PTL

\* A Lost or Cancelled RFQ says why.
THEOREM Explained == Spec => []DecisionExplained
<1>1. IInv => DecisionExplained
  BY DEF IInv
<1> QED BY <1>1, InductiveInvariant, PTL

-----------------------------------------------------------------------------
(* The progress of a stage.                                                *)

\* The average of percentages is a percentage; the average of nothing but 100s
\* is 100.
LEMMA RollupValue ==
    ASSUME NEW tasks, IsFiniteSet(Active(tasks)),
           \A k \in Active(tasks) : tasks[k].progress \in 0..100
    PROVE  /\ Rollup(tasks) \in 0..100
           /\ Active(tasks) # {} /\ (\A k \in Active(tasks) : tasks[k].progress = 100)
                 => Rollup(tasks) = 100
<1> DEFINE A == Active(tasks)
           w == [k \in A |-> tasks[k].progress]
           n == Cardinality(A)
           sum == MapThenSumSet(LAMBDA k : tasks[k].progress, A)
<1>1. CASE A = {}
  BY <1>1 DEF Rollup
<1>2. CASE A # {}
  <2>1. w \in [A -> Nat]
    OBVIOUS
  <2>2. sum = SumOf(w, A)
    BY DEF MapThenSumSet, MapThenFoldSet, SumTable, SumOf
  <2>3. /\ Units(w, A) \subseteq A \X (1..100)
        /\ (\A k \in A : tasks[k].progress = 100) => Units(w, A) = A \X (1..100)
    BY DEF Units
  <2>4. IsFiniteSet(A \X (1..100)) /\ Cardinality(A \X (1..100)) = n * 100
    <3> HIDE DEF A, w, n, sum
    <3>1. \A b \in Nat : IsFiniteSet(1..b) /\ Cardinality(1..b) = b
      BY FS_Interval
    <3>2. IsFiniteSet(1..100) /\ Cardinality(1..100) = 100
      BY <3>1
    <3>3. IsFiniteSet(A)
      BY DEF A
    <3> QED BY <3>2, <3>3, FS_Product DEF n
  <2>5. n \in Nat \ {0}
    BY <1>2, FS_CardinalityType, FS_EmptySet
  <2>6. IsFiniteSet(Units(w, A)) /\ Cardinality(Units(w, A)) \in Nat
    BY <2>1, UnitsAreFinite, FS_CardinalityType
  <2>7. sum = Cardinality(Units(w, A))
    <3> HIDE DEF w, sum, A
    <3> QED BY <2>1, <2>2, SumCounts DEF A
  <2> HIDE DEF w, sum, n
  <2>8. /\ sum \in Nat /\ sum <= n * 100
        /\ (\A k \in A : tasks[k].progress = 100) => sum = n * 100
    <3>1. Cardinality(Units(w, A)) <= Cardinality(A \X (1..100))
      BY <2>3, <2>4, FS_Subset
    <3>2. (\A k \in A : tasks[k].progress = 100)
             => Cardinality(Units(w, A)) = Cardinality(A \X (1..100))
      BY <2>3
    <3> QED BY <2>4, <2>6, <2>7, <3>1, <3>2
  <2>9. /\ sum \div n \in 0..100
        /\ sum = n * 100 => sum \div n = 100
    <3> HIDE DEF A
    <3> QED BY <2>5, <2>8
  <2>10. Rollup(tasks) = sum \div n
    BY <1>2 DEF Rollup, sum, n, A
  <2> QED BY <2>8, <2>9, <2>10
<1> QED BY <1>1, <1>2

\* A stage has as many undeleted subtasks as requests have created, whatever
\* the set of identities: always a finite number.
FiniteWork == \A i \in Stage : IsFiniteSet(Active(subtasks[i]))

ProgressOK == FiniteWork /\ StageProgressIsRollup

\* The subtasks of a stage have percentages.
LEMMA TasksOfStage ==
    ASSUME SubtasksOK, NEW i \in Stage
    PROVE  /\ subtasks[i] \in [Subtasks -> SubtaskRow]
           /\ \A k \in Active(subtasks[i]) : subtasks[i][k].progress \in 0..100
BY DEF SubtasksOK, SubtaskRow, Active

\* A stage none of whose subtasks, progress and Completed status changes keeps
\* what is said of its progress.
LEMMA SameStageProgress ==
    ASSUME ProgressOK, Stage' = Stage, UNCHANGED <<subtasks, stageProgress>>,
           \A i \in Stage : stages[i].status = "Completed" => stages'[i].status = "Completed"
    PROVE  ProgressOK'
BY DEF ProgressOK, FiniteWork, StageProgressIsRollup

\* Adding, changing or deleting a subtask stores the new average.
LEMMA SetSubtaskKeepsProgress ==
    ASSUME SubtasksOK, ProgressOK, NEW i \in Stage, NEW k \in Subtasks, NEW task \in SubtaskRow,
           SetSubtask(i, k, task)
    PROVE  ProgressOK'
<1> DEFINE tasks == [subtasks[i] EXCEPT ![k] = task]
<1>1. Stage' = Stage /\ stages' = stages
  BY DEF SetSubtask, Stage
<1>2. /\ subtasks \in [Stage -> [Subtasks -> SubtaskRow]] /\ DOMAIN stageProgress = Stage
      /\ subtasks' = [subtasks EXCEPT ![i][k] = task]
      /\ stageProgress' = [stageProgress EXCEPT ![i] = Rollup(tasks)]
  BY DEF SubtasksOK, SetSubtask
<1>3. subtasks'[i] = tasks /\ tasks \in [Subtasks -> SubtaskRow] /\ stageProgress'[i] = Rollup(tasks)
  BY <1>2
<1>4. IsFiniteSet(Active(tasks))
  <2>1. Active(tasks) \subseteq Active(subtasks[i]) \cup {k}
    BY <1>2 DEF Active
  <2>2. IsFiniteSet(Active(subtasks[i]) \cup {k})
    BY FS_AddElement DEF ProgressOK, FiniteWork
  <2> QED BY <2>1, <2>2, FS_Subset
<1>5. Rollup(tasks) \in 0..100
  <2>1. \A l \in Active(tasks) : tasks[l].progress \in 0..100
    BY <1>3 DEF Active, SubtaskRow
  <2> QED BY <1>4, <2>1, RollupValue
<1>6. \A j \in Stage : j # i => subtasks'[j] = subtasks[j] /\ stageProgress'[j] = stageProgress[j]
  BY <1>2
<1> HIDE DEF tasks
<1> QED BY <1>1, <1>3, <1>4, <1>5, <1>6 DEF ProgressOK, FiniteWork, StageProgressIsRollup

\* The 100 that advance() writes is the average of the subtasks, which are all
\* done, if the stage has any.
LEMMA HandOverKeepsProgress ==
    ASSUME SubtasksOK, ProgressOK, Stage' = Stage, NEW i \in Stage, SubtasksDone(subtasks[i]),
           subtasks' = subtasks, stageProgress' = [stageProgress EXCEPT ![i] = 100],
           stages'[i].status = "Completed",
           \A j \in Stage : stages[j].status = "Completed" => stages'[j].status = "Completed"
    PROVE  ProgressOK'
<1>1. DOMAIN stageProgress = Stage
  BY DEF SubtasksOK
<1>2. \A k \in Active(subtasks[i]) : subtasks[i][k].progress = 100
  <2>1. \A k \in Active(subtasks[i]) : subtasks[i][k].progress \in 0..100
    BY TasksOfStage
  <2> QED BY <2>1 DEF SubtasksDone
<1>3. Active(subtasks[i]) # {} => Rollup(subtasks[i]) = 100
  <2>1. \A k \in Active(subtasks[i]) : subtasks[i][k].progress \in 0..100
    BY TasksOfStage
  <2>2. IsFiniteSet(Active(subtasks[i]))
    BY DEF ProgressOK, FiniteWork
  <2> QED BY <1>2, <2>1, <2>2, RollupValue
<1>4. stageProgress'[i] = 100
  BY <1>1
<1>5. \A j \in Stage : j # i => stageProgress'[j] = stageProgress[j]
  BY <1>1
<1> QED BY <1>3, <1>4, <1>5 DEF ProgressOK, FiniteWork, StageProgressIsRollup

\* A new RFQ has no subtasks and no progress.
LEMMA CreateKeepsProgress == CreateRfq => ProgressOK'
<1> SUFFICES ASSUME CreateRfq PROVE ProgressOK'
  OBVIOUS
<1>1. Active([k \in Subtasks |-> NoSubtask]) = {}
  BY DEF Active, NoSubtask
<1>2. Rollup([k \in Subtasks |-> NoSubtask]) = 0
  BY <1>1 DEF Rollup
<1>3. \A i \in Stage' : subtasks'[i] = [k \in Subtasks |-> NoSubtask] /\ stageProgress'[i] = 0
  BY DEF CreateRfq, Stage
<1> QED BY <1>1, <1>2, <1>3, FS_EmptySet DEF ProgressOK, FiniteWork, StageProgressIsRollup

\* No request leaves a stage with another progress than it should have.
LEMMA NextKeepsProgress == IInv /\ SubtasksOK /\ ProgressOK /\ [Next]_vars => ProgressOK'
<1> SUFFICES ASSUME IInv, SubtasksOK, ProgressOK, [Next]_vars PROVE ProgressOK'
  OBVIOUS
<1>1. PICK n \in 0..Size : Stage = 1..n /\ stages \in [1..n -> StageRow]
  BY StageFacts DEF IInv
<1>2. CASE CreateRfq
  BY <1>2, CreateKeepsProgress
<1>3. ASSUME NEW i \in Stage, NEW k \in Subtasks,
             CreateSubtask(i, k) \/ UpdateSubtask(i, k) \/ DeleteSubtask(i, k)
      PROVE  ProgressOK'
  <2>1. subtasks[i][k] \in SubtaskRow
    BY DEF SubtasksOK
  <2>2. PICK task \in SubtaskRow : SetSubtask(i, k, task)
    <3>1. [live |-> TRUE, progress |-> 0, status |-> "Open"] \in SubtaskRow /\ NoSubtask \in SubtaskRow
      BY DEF SubtaskRow, NoSubtask
    <3>2. \A p \in ProgressSteps \cup {subtasks[i][k].progress} :
             [live |-> TRUE, progress |-> p, status |-> DeriveStatus(p)] \in SubtaskRow
      BY <2>1, ProgressAssumption DEF SubtaskRow, DeriveStatus
    <3> QED BY <1>3, <3>1, <3>2 DEF CreateSubtask, UpdateSubtask, DeleteSubtask
  <2> QED BY <2>2, SetSubtaskKeepsProgress
<1>4. ASSUME NEW why, CancelledRows(why), UNCHANGED <<subtasks, stageProgress>>
      PROVE  ProgressOK'
  <2>1. Stage' = Stage /\ \A i \in Stage : stages'[i] = FrozenRow(stages[i], i, rfq.current)
    BY <1>4 DEF CancelledRows, FreezeStages, Stage
  <2>2. \A i \in Stage : stages[i].status = "Completed" => stages'[i].status = "Completed"
    BY <2>1 DEF FrozenRow
  <2> QED BY <1>4, <2>1, <2>2, SameStageProgress
<1>5. CASE CancelRfq
  BY <1>4, <1>5 DEF CancelRfq
<1>6. CASE AmendCancellation \/ UNCHANGED vars \/ \E i \in Stage : UpdateStage(i)
  BY <1>6, SameStageProgress DEF AmendCancellation, UpdateStage, vars, Stage
<1>7. ASSUME NEW i \in Stage, Advance(i)
      PROVE  ProgressOK'
  <2>1. CASE AdvanceNoGo(i)
    BY <1>4, <2>1 DEF AdvanceNoGo
  <2>2. CASE AdvanceToNext(i)
    <3>1. /\ i + 1 \in Stage /\ stages[i + 1].status = "NotStarted" /\ i # i + 1
          /\ stages' = [stages EXCEPT ![i] = Completed(@), ![i + 1] = Started(@)]
      BY <1>1, <2>2, LiveWhenAdvanced DEF AdvanceToNext, AdvancedRows, IInv, LiveStageIsCurrent
    <3>2. /\ Stage' = Stage /\ stages'[i] = Completed(stages[i])
          /\ \A j \in Stage : j # i /\ j # i + 1 => stages'[j] = stages[j]
      BY <1>1, <3>1 DEF Stage
    <3>3. stages'[i].status = "Completed"
      BY <1>1, <3>2 DEF Completed, StageRow
    <3>4. \A j \in Stage : stages[j].status = "Completed" => stages'[j].status = "Completed"
      BY <3>1, <3>2, <3>3
    <3> QED BY <2>2, <3>2, <3>3, <3>4, HandOverKeepsProgress DEF AdvanceToNext, MayAdvance
  <2>3. CASE AdvanceToOutcome(i)
    <3>1. stages' = [stages EXCEPT ![i] = Completed(@)]
      BY <2>3 DEF AdvanceToOutcome
    <3>2. /\ Stage' = Stage /\ stages'[i] = Completed(stages[i])
          /\ \A j \in Stage : j # i => stages'[j] = stages[j]
      BY <1>1, <3>1 DEF Stage
    <3>3. stages'[i].status = "Completed"
      BY <1>1, <3>2 DEF Completed, StageRow
    <3>4. \A j \in Stage : stages[j].status = "Completed" => stages'[j].status = "Completed"
      BY <3>2, <3>3
    <3> QED BY <2>3, <3>2, <3>3, <3>4, HandOverKeepsProgress DEF AdvanceToOutcome, MayAdvance
  <2> QED BY <1>7, <2>1, <2>2, <2>3 DEF Advance
<1> QED BY <1>2, <1>3, <1>5, <1>6, <1>7 DEF Next

\* The progress of a stage is the average over its undeleted subtasks, however
\* many there are and whatever steps they take; where it is not, the stage was
\* completed with none.
THEOREM ProgressIsAverage == Spec => []StageProgressIsRollup
<1>1. Init => SubtasksOK /\ ProgressOK
  BY DEF Init, SubtasksOK, ProgressOK, FiniteWork, StageProgressIsRollup, Stage
<1>2. ProgressOK => StageProgressIsRollup
  BY DEF ProgressOK
<1> QED
  BY <1>1, <1>2, NextKeepsSubtasksOK, NextKeepsProgress, InductiveInvariant, PTL DEF Spec

-----------------------------------------------------------------------------
(* What a step may never do.                                               *)

\* A decided RFQ only ever changes its reason.
LEMMA StepOfClosed ==
    ASSUME IInv, Closed, [Next]_vars
    PROVE  /\ rfq' = [rfq EXCEPT !.reason = rfq'.reason]
           /\ UNCHANGED <<plan, stages, events>>
<1>1. rfq = [rfq EXCEPT !.reason = rfq.reason]
  BY DEF IInv, RowsOK
<1>2. rfq.status \in TerminalStatuses
  BY DEF Closed
<1>3. ~ CreateRfq
  BY <1>2 DEF CreateRfq, TerminalStatuses
<1>4. ~ CancelRfq
  BY <1>2 DEF CancelRfq, CancelledRows, ValidTransition, ValidTransitions, RfqStatuses,
              TerminalStatuses
<1>5. ASSUME NEW i \in Stage PROVE ~ Advance(i)
  BY <1>2, LiveWhenAdvanced
     DEF Advance, AdvanceToNext, AdvanceNoGo, AdvanceToOutcome, TerminalStatuses
<1>6. CASE AmendCancellation
  BY <1>6 DEF AmendCancellation, IInv, RowsOK
<1>7. CASE \/ \E i \in Stage : UpdateStage(i)
           \/ \E i \in Stage, k \in Subtasks :
                 CreateSubtask(i, k) \/ UpdateSubtask(i, k) \/ DeleteSubtask(i, k)
           \/ UNCHANGED vars
  BY <1>1, <1>7 DEF UpdateStage, CreateSubtask, UpdateSubtask, DeleteSubtask, SetSubtask, vars
<1> QED BY <1>3, <1>4, <1>5, <1>6, <1>7 DEF Next

\* Nothing reopens a decided RFQ.
THEOREM ClosedForGood == Spec => TerminalIsFinal
<1>1. IInv /\ [Next]_vars =>
        [Closed => /\ rfq' = [rfq EXCEPT !.reason = rfq'.reason]
                   /\ UNCHANGED <<plan, stages, events>>]_vars
  BY StepOfClosed
<1> QED BY <1>1, InductiveInvariant, PTL DEF Spec, TerminalIsFinal

LEMMA StepThatCompletes ==
    ASSUME IInv, SubtasksOK, [Next]_vars,
           NEW i \in Stage, stages[i].status # "Completed", stages'[i].status = "Completed"
    PROVE  /\ MandatoryCaptured(forms[i], Mandatory(i))
           /\ NegativeDecision(Mandatory(i), forms[i].captured) = None
           /\ ~ NoGo(i)
           /\ \A k \in Subtasks : subtasks[i][k].live => subtasks[i][k].progress = 100
<1>1. PICK n \in 0..Size : Stage = 1..n /\ stages \in [1..n -> StageRow]
  BY StageFacts DEF IInv
<1>2. ~ CreateRfq
  BY DEF CreateRfq, IInv, LiveStageIsCurrent
<1>3. stages' # stages
  OBVIOUS
<1>4. ASSUME NEW why, CancelledRows(why) PROVE FALSE
  <2>1. stages'[i] = FrozenRow(stages[i], i, rfq.current)
    BY <1>4 DEF CancelledRows, FreezeStages, Stage
  <2>2. stages[i] \in StageRow
    BY <1>1
  <2> QED BY <2>1, <2>2 DEF FrozenRow, StageRow
<1>5. PICK j \in Stage : AdvanceToNext(j) \/ AdvanceToOutcome(j)
  BY <1>2, <1>3, <1>4
     DEF Next, vars, CancelRfq, AmendCancellation, UpdateStage, CreateSubtask, UpdateSubtask,
         DeleteSubtask, SetSubtask, Advance, AdvanceNoGo
<1>6. i = j
  <2>1. CASE AdvanceToNext(j)
    <3>1. stages' = [stages EXCEPT ![j] = Completed(@), ![j + 1] = Started(@)]
      BY <2>1 DEF AdvanceToNext, AdvancedRows
    <3>2. i = j + 1 => stages'[i].status = "InProgress"
      BY <1>1, <3>1 DEF Started, Completed, StageRow
    <3> QED BY <1>1, <3>1, <3>2
  <2>2. CASE AdvanceToOutcome(j)
    <3>1. stages' = [stages EXCEPT ![j] = Completed(@)]
      BY <2>2 DEF AdvanceToOutcome
    <3> QED BY <1>1, <3>1
  <2> QED BY <1>5, <2>1, <2>2
<1>7. MayAdvance(i) /\ ~ NoGo(i)
  BY <1>5, <1>6 DEF AdvanceToNext, AdvanceToOutcome
<1>8. NegativeDecision(Mandatory(i), forms[i].captured) = None
  BY <1>7 DEF IInv, FormsSound, FormSound, MayAdvance
<1>9. ASSUME NEW k \in Subtasks, subtasks[i][k].live PROVE subtasks[i][k].progress = 100
  <2>1. subtasks[i][k].progress >= 100
    BY <1>7, <1>9 DEF MayAdvance, SubtasksDone, Active
  <2>2. subtasks[i][k].progress \in 0..100
    BY DEF SubtasksOK, SubtaskRow
  <2> QED BY <2>1, <2>2
<1> QED BY <1>7, <1>8, <1>9 DEF MayAdvance

\* No stage is completed against a "no": the blocker that advance() looks at
\* stands for the decisions it does not look at.
THEOREM NoCompletionAgainstNo == Spec => CompletedStageWasClear
<1> DEFINE Clear == \A i \in Stage :
              stages[i].status # "Completed" /\ stages'[i].status = "Completed" =>
                 /\ MandatoryCaptured(forms[i], Mandatory(i))
                 /\ NegativeDecision(Mandatory(i), forms[i].captured) = None
                 /\ ~ NoGo(i)
                 /\ \A k \in Subtasks : subtasks[i][k].live => subtasks[i][k].progress = 100
<1>1. IInv /\ SubtasksOK /\ [Next]_vars => [Clear]_vars
  BY StepThatCompletes
<1>2. TypeOK => SubtasksOK
  BY DEF TypeOK
<1> QED BY <1>1, <1>2, InductiveInvariant, TypesCorrect, PTL DEF Spec, CompletedStageWasClear

-----------------------------------------------------------------------------
(* RfqLifecycle implements RfqWalk.                                        *)

Ahead == {i \in Stage : stages[i].status \in {"NotStarted", "InProgress"}}
Done == {i \in Stage : stages[i].status = "Completed"}
Dropped == {i \in Stage : stages[i].status = "Skipped"}

LEMMA InitWalks == Init => Walk!WalkInit
  BY DEF Init, Walk!WalkInit, Stage

LEMMA CreateWalks ==
    ASSUME IInv, CreateRfq, IInv'
    PROVE  Walk!Begin
<1>1. rfq.status = "Absent" /\ Stage = {}
  BY DEF CreateRfq, IInv, LiveStageIsCurrent
<1>2. rfq'.status = "InPreparation" /\ rfq'.current = 1
  BY DEF CreateRfq
<1>3. PICK n \in 0..Size : Stage' = 1..n
  BY DEF IInv, RowsOK, Stage
<1>4. \A i \in Stage' : stages'[i].status \in {"NotStarted", "InProgress"}
  BY DEF CreateRfq, NewStage, Stage
<1>5. Stage' # {}
  BY <1>2 DEF IInv, LiveStageIsCurrent
<1>6. Size \in Nat /\ n \in 1..Size
  BY <1>3, <1>5, TemplateAssumption DEF Size
<1>7. Ahead' = 1..n /\ Done' = {} /\ Dropped' = {} /\ Done = {} /\ Dropped = {}
  BY <1>1, <1>3, <1>4 DEF Ahead, Done, Dropped
<1> QED BY <1>1, <1>2, <1>6, <1>7 DEF Walk!Begin, Ahead, Done, Dropped

LEMMA AdvanceToNextWalks ==
    ASSUME IInv, NEW i \in Stage, AdvanceToNext(i), IInv'
    PROVE  Walk!Step
<1>1. PICK n \in 0..Size : Stage = 1..n /\ stages \in [1..n -> StageRow]
  BY StageFacts DEF IInv
<1>2. Size \in Nat /\ n \in Nat
  BY TemplateAssumption DEF Size
<1>3. rfq.status = "InPreparation" /\ rfq.current = i /\ i + 1 \in Stage
  BY LiveWhenAdvanced DEF AdvanceToNext
<1>4. rfq'.status = "InPreparation" /\ rfq'.current = i + 1
  BY <1>3 DEF AdvanceToNext, IInv, RowsOK
<1>5. Stage' = Stage
  BY DEF AdvanceToNext, AdvancedRows, Stage
<1>6. Ahead = i..n /\ Done = 1..(i - 1) /\ Dropped = {}
  BY <1>1, <1>2, <1>3 DEF Ahead, Done, Dropped, IInv, LiveStageIsCurrent
<1>7. Ahead' = (i + 1)..n /\ Done' = 1..i /\ Dropped' = {}
  BY <1>1, <1>2, <1>3, <1>4, <1>5 DEF Ahead, Done, Dropped, IInv, LiveStageIsCurrent
<1>8. /\ i \in Ahead /\ \A j \in Ahead : i <= j
      /\ Ahead # {i}
      /\ Ahead' = Ahead \ {i}
      /\ Done' = Done \cup {i}
  <2>1. i \in 1..n /\ i + 1 \in 1..n
    BY <1>1, <1>3
  <2> QED BY <1>2, <1>6, <1>7, <2>1
<1> QED BY <1>3, <1>4, <1>6, <1>7, <1>8 DEF Walk!Step, Walk!Live, Ahead, Done, Dropped

LEMMA AdvanceToOutcomeWalks ==
    ASSUME IInv, NEW i \in Stage, AdvanceToOutcome(i), IInv'
    PROVE  Walk!Decide
<1>1. PICK n \in 0..Size : Stage = 1..n /\ stages \in [1..n -> StageRow]
  BY StageFacts DEF IInv
<1>2. Size \in Nat /\ n \in Nat
  BY TemplateAssumption DEF Size
<1>3. rfq.status = "InPreparation" /\ rfq.current = i /\ i + 1 \notin Stage
  BY LiveWhenAdvanced DEF AdvanceToOutcome
<1>4. rfq'.status \in {"Awarded", "Lost"}
  BY DEF AdvanceToOutcome
<1>5. Stage' = Stage
  BY DEF AdvanceToOutcome, Stage
<1>6. i = n
  BY <1>1, <1>2, <1>3
<1>7. Ahead = {i} /\ Done = Stage \ {i} /\ Dropped = {}
  BY <1>1, <1>2, <1>3, <1>6 DEF Ahead, Done, Dropped, IInv, LiveStageIsCurrent
<1>8. Ahead' = {} /\ Done' = Stage /\ Dropped' = {}
  BY <1>4, <1>5 DEF Ahead, Done, Dropped, IInv, LiveStageIsCurrent
<1> QED BY <1>3, <1>4, <1>7, <1>8 DEF Walk!Decide, Ahead, Done, Dropped

LEMMA CancelWalks ==
    ASSUME IInv, rfq.status = "InPreparation", NEW why, CancelledRows(why), IInv'
    PROVE  Walk!Cancel
<1>1. PICK n \in 0..Size : Stage = 1..n /\ stages \in [1..n -> StageRow]
  BY StageFacts DEF IInv
<1> DEFINE c == rfq.current
<1>2. /\ Size \in Nat /\ n \in Nat
      /\ c \in 1..n
      /\ \A j \in 1..n : /\ j < c => stages[j].status = "Completed"
                         /\ j = c => stages[j].status = "InProgress"
                         /\ j > c => stages[j].status = "NotStarted"
  BY <1>1, TemplateAssumption DEF IInv, RowsOK, LiveStageIsCurrent, Size, NoStage
<1>3. Stage' = Stage /\ rfq'.status = "Cancelled"
  BY DEF CancelledRows, FreezeStages, Stage
<1>4. \A j \in Stage : stages'[j] = FrozenRow(stages[j], j, c)
  BY DEF CancelledRows, FreezeStages, Stage
<1> HIDE DEF c
<1>5. ASSUME NEW j \in 1..n
      PROVE  stages'[j].status = IF j < c THEN "Completed" ELSE "Skipped"
  <2>1. stages[j] \in StageRow /\ RowDated(stages[j])
    BY <1>1 DEF IInv, DatesTellTheStory
  <2>2. j \in Nat /\ c \in Nat
    BY <1>2
  <2>3. stages'[j] = FrozenRow(stages[j], j, c)
    BY <1>1, <1>4
  <2> QED BY <1>2, <2>1, <2>2, <2>3, FrozenRowDated
<1>6. Ahead = c..n /\ Done = 1..(c - 1) /\ Dropped = {}
  BY <1>1, <1>2 DEF Ahead, Done, Dropped
<1>7. Ahead' = {} /\ Done' = 1..(c - 1) /\ Dropped' = c..n
  BY <1>1, <1>2, <1>3, <1>5 DEF Ahead, Done, Dropped
<1> QED BY <1>3, <1>6, <1>7 DEF Walk!Cancel, Ahead, Done, Dropped

LEMMA NextWalks ==
    ASSUME IInv, [Next]_vars, IInv'
    PROVE  [Walk!WalkNext]_(Walk!walkVars)
<1>1. CASE CreateRfq
  BY <1>1, CreateWalks DEF Walk!WalkNext
<1>2. CASE CancelRfq
  <2>1. rfq.status = "InPreparation"
    BY <1>2 DEF IInv, RowsOK, CancelRfq, CancelledRows, ValidTransition, ValidTransitions,
                RfqStatuses, TerminalStatuses
  <2> QED BY <1>2, <2>1, CancelWalks DEF CancelRfq, Walk!WalkNext
<1>3. ASSUME NEW i \in Stage, Advance(i) PROVE Walk!WalkNext
  <2>1. CASE AdvanceNoGo(i)
    BY <2>1, LiveWhenAdvanced, CancelWalks DEF AdvanceNoGo, Walk!WalkNext
  <2> QED BY <1>3, <2>1, AdvanceToNextWalks, AdvanceToOutcomeWalks DEF Advance, Walk!WalkNext
<1>4. ASSUME UNCHANGED <<rfq, stages>> PROVE UNCHANGED Walk!walkVars
  BY <1>4 DEF Walk!walkVars, Stage
<1>5. ASSUME UNCHANGED stages, rfq'.status = rfq.status PROVE UNCHANGED Walk!walkVars
  BY <1>5 DEF Walk!walkVars, Stage
<1>6. CASE AmendCancellation
  BY <1>5, <1>6 DEF AmendCancellation, IInv, RowsOK
<1>7. CASE \/ \E i \in Stage : UpdateStage(i)
           \/ \E i \in Stage, k \in Subtasks :
                 CreateSubtask(i, k) \/ UpdateSubtask(i, k) \/ DeleteSubtask(i, k)
           \/ UNCHANGED vars
  BY <1>4, <1>7 DEF UpdateStage, CreateSubtask, UpdateSubtask, DeleteSubtask, SetSubtask, vars
<1> QED BY <1>1, <1>2, <1>3, <1>6, <1>7 DEF Next

\* Every behaviour of the handlers is a walk through the stages: done strictly
\* in order, closed by one final decision, nothing done ever dropped.
THEOREM ImplementsWalk == Spec => WalksThroughStages
<1>1. Init => Walk!WalkInit
  BY InitWalks
<1>2. IInv /\ [Next]_vars /\ IInv' => [Walk!WalkNext]_(Walk!walkVars)
  BY NextWalks
<1> QED BY <1>1, <1>2, InductiveInvariant, PTL DEF Spec, WalksThroughStages, Walk!WalkSpec

-----------------------------------------------------------------------------
(* The publications.                                                       *)

\* The stages done are the first ones, up to the current one or to the end.
LEMMA DoneCount ==
    ASSUME IInv
    PROVE  /\ rfq.status = "InPreparation" =>
                 /\ Cardinality(CompletedStages(stages)) = rfq.current - 1
                 /\ rfq.current \in Nat \ {0}
                 /\ rfq.current - 1 \in Nat
           /\ rfq.status \in {"Awarded", "Lost"} =>
                 \E n \in Nat : Stage = 1..n /\ Cardinality(CompletedStages(stages)) = n
<1>1. PICK n \in 0..Size : Stage = 1..n /\ stages \in [1..n -> StageRow]
  BY StageFacts DEF IInv
<1>2. n \in Nat /\ Size \in Nat
  BY TemplateAssumption DEF Size
<1>3. \A m \in Nat : Cardinality(1..m) = m
  BY FS_Interval
<1>4. ASSUME rfq.status = "InPreparation"
      PROVE  /\ Cardinality(CompletedStages(stages)) = rfq.current - 1
             /\ rfq.current \in Nat \ {0}
             /\ rfq.current - 1 \in Nat
  <2>1. rfq.current \in 1..n
    BY <1>1, <1>4 DEF IInv, RowsOK, LiveStageIsCurrent, NoStage
  <2>2. CompletedStages(stages) = 1..(rfq.current - 1)
    BY <1>1, <1>4, <2>1 DEF IInv, LiveStageIsCurrent, CompletedStages, Stage
  <2>3. rfq.current \in Nat \ {0} /\ rfq.current - 1 \in Nat
    BY <1>2, <2>1
  <2> QED BY <1>3, <2>2, <2>3
<1>5. ASSUME rfq.status \in {"Awarded", "Lost"}
      PROVE  Cardinality(CompletedStages(stages)) = n
  <2>1. CompletedStages(stages) = 1..n
    BY <1>1, <1>5 DEF IInv, LiveStageIsCurrent, CompletedStages, Stage
  <2> QED BY <1>2, <1>3, <2>1
<1> QED BY <1>1, <1>2, <1>4, <1>5

\* Cancelling undoes no stage.
LEMMA CancelKeepsDone ==
    ASSUME IInv, NEW why, CancelledRows(why)
    PROVE  CompletedStages(stages') = CompletedStages(stages)
<1>1. PICK n \in 0..Size : Stage = 1..n /\ stages \in [1..n -> StageRow]
  BY StageFacts DEF IInv
<1>2. stages' = FreezeStages(stages, rfq.current)
  BY DEF CancelledRows
<1>3. DOMAIN stages' = DOMAIN stages
  BY <1>2 DEF FreezeStages
<1>4. ASSUME NEW i \in DOMAIN stages
      PROVE  stages'[i].status = "Completed" <=> stages[i].status = "Completed"
  <2>1. stages'[i] = FrozenRow(stages[i], i, rfq.current) /\ stages[i] \in StageRow
    BY <1>1, <1>2 DEF FreezeStages, Stage
  <2> QED BY <2>1 DEF FrozenRow, StageRow
<1> QED BY <1>3, <1>4 DEF CompletedStages

\* The events up to and with the n-th stage.
Told(n) == <<RfqCreated>> \o [k \in 1..n |-> StageAdvanced(k)]

LEMMA ToldGrows ==
    ASSUME NEW n \in Nat
    PROVE  /\ Told(0) = <<RfqCreated>>
           /\ Append(Told(n), StageAdvanced(n + 1)) = Told(n + 1)
<1> DEFINE E == {RfqCreated} \cup {StageAdvanced(k) : k \in Nat}
           steps(m) == [k \in 1..m |-> StageAdvanced(k)]
<1>1. \A m \in Nat : steps(m) \in Seq(E) /\ Len(steps(m)) = m
  OBVIOUS
<1>2. Append(steps(n), StageAdvanced(n + 1)) = steps(n + 1)
  <2>1. steps(n) \in Seq(E) /\ Len(steps(n)) = n /\ steps(n + 1) \in Seq(E) /\ Len(steps(n + 1)) = n + 1
    BY <1>1
  <2>2. Append(steps(n), StageAdvanced(n + 1)) \in Seq(E) /\ Len(Append(steps(n), StageAdvanced(n + 1))) = n + 1
    BY <2>1
  <2>3. \A k \in 1..(n + 1) : Append(steps(n), StageAdvanced(n + 1))[k] = steps(n + 1)[k]
    BY <2>1
  <2> HIDE DEF steps, E
  <2> QED BY <2>1, <2>2, <2>3, SeqEqual
<1> QED BY <1>1, <1>2 DEF Told

\* What the events are, in terms of Told.
EventsTold ==
    LET done == Cardinality(CompletedStages(stages)) IN
    /\ rfq.status = "Absent" => events = <<>>
    /\ rfq.status = "InPreparation" => events = Told(done)
    /\ rfq.status = "Cancelled"
          => events = Append(Told(done), StatusChanged("InPreparation", "Cancelled"))
    /\ rfq.status \in {"Awarded", "Lost"}
          => events = Told(done - 1) \o <<StatusChanged("InPreparation", rfq.status),
                                          StageAdvanced(done)>>

LEMMA ToldIsTheProperty ==
    ASSUME IInv
    PROVE  EventsTold <=> EventsTellTheLife
<1>1. rfq.status \in {"Absent", "InPreparation", "Cancelled", "Awarded", "Lost"}
  BY DEF IInv, RowsOK, RfqStatuses, TerminalStatuses
<1> QED BY <1>1 DEF EventsTold, EventsTellTheLife, Told

\* An RFQ in preparation moves to the next stage or is decided, and publishes
\* just that; nothing else publishes.
LEMMA StepTells ==
    ASSUME IInv, EventsTold, [Next]_vars, IInv'
    PROVE  EventsTold'
<1> DEFINE done == Cardinality(CompletedStages(stages))
<1>0. rfq.status \in {"Absent", "InPreparation", "Cancelled", "Awarded", "Lost"}
  BY DEF IInv, RowsOK, RfqStatuses, TerminalStatuses
<1>after. /\ rfq'.status = "InPreparation" => done' = rfq'.current - 1
          /\ rfq'.status \in {"Awarded", "Lost"} => \E n \in Nat : Stage' = 1..n /\ done' = n
  <2>1. (IInv => /\ rfq.status = "InPreparation" => done = rfq.current - 1
                 /\ rfq.status \in {"Awarded", "Lost"} => \E n \in Nat : Stage = 1..n /\ done = n)'
    BY DoneCount, PTL
  <2> QED BY <2>1
<1>1. CASE CreateRfq
  <2>1. rfq'.status = "InPreparation" /\ events' = <<RfqCreated>> /\ rfq'.current = 1
    BY <1>1 DEF CreateRfq
  <2>2. done' = 0
    BY <1>after, <2>1
  <2> QED BY <2>1, <2>2, ToldGrows DEF EventsTold
<1>2. ASSUME NEW i \in Stage, AdvanceToNext(i)
      PROVE  EventsTold'
  <2>1. rfq.status = "InPreparation" /\ rfq.current = i
    BY <1>2, LiveWhenAdvanced DEF AdvanceToNext
  <2>2. rfq'.status = "InPreparation" /\ rfq'.current = i + 1
    BY <1>2, <2>1 DEF AdvanceToNext, IInv, RowsOK
  <2>3. events' = Append(events, StageAdvanced(i))
    BY <1>2 DEF AdvanceToNext
  <2>4. done = i - 1 /\ i - 1 \in Nat /\ i \in Nat
    BY <2>1, DoneCount
  <2>5. done' = i
    <3>1. done' = rfq'.current - 1
      BY <1>after, <2>2
    <3> QED BY <2>2, <2>4, <3>1
  <2>6. events' = Append(Told(i - 1), StageAdvanced((i - 1) + 1))
    BY <2>1, <2>3, <2>4 DEF EventsTold
  <2>7. events' = Told(i)
    <3>1. PICK n \in Nat : n = i - 1
      BY <2>4
    <3>2. n + 1 = i
      BY <2>4, <3>1
    <3>3. Append(Told(n), StageAdvanced(n + 1)) = Told(n + 1)
      BY ToldGrows
    <3> QED BY <2>6, <3>1, <3>2, <3>3
  <2> QED BY <2>2, <2>5, <2>7 DEF EventsTold
<1>3. ASSUME NEW why, CancelledRows(why), rfq.status = "InPreparation",
             events' = Append(events, StatusChanged(rfq.status, "Cancelled"))
      PROVE  EventsTold'
  <2>1. done' = done
    BY <1>3, CancelKeepsDone
  <2>2. rfq'.status = "Cancelled"
    BY <1>3 DEF CancelledRows
  <2> QED BY <1>3, <2>1, <2>2 DEF EventsTold
<1>4. CASE CancelRfq
  <2>1. rfq.status = "InPreparation"
    BY <1>0, <1>4 DEF CancelRfq, CancelledRows, ValidTransition, ValidTransitions,
                      RfqStatuses, TerminalStatuses
  <2> QED BY <1>3, <1>4, <2>1 DEF CancelRfq
<1>5. ASSUME NEW i \in Stage, AdvanceNoGo(i)
      PROVE  EventsTold'
  BY <1>3, <1>5, LiveWhenAdvanced DEF AdvanceNoGo
<1>6. ASSUME NEW i \in Stage, AdvanceToOutcome(i)
      PROVE  EventsTold'
  <2>1. rfq.status = "InPreparation" /\ rfq.current = i /\ i + 1 \notin Stage
    BY <1>6, LiveWhenAdvanced DEF AdvanceToOutcome
  <2>2. /\ rfq'.status \in {"Awarded", "Lost"}
        /\ events' = events \o <<StatusChanged("InPreparation", rfq'.status), StageAdvanced(i)>>
        /\ Stage' = Stage
    BY <1>6, <2>1 DEF AdvanceToOutcome, Stage
  <2>3. done = i - 1
    BY <2>1, DoneCount
  <2>4. done' = i
    <3>1. PICK n \in Nat : Stage' = 1..n /\ done' = n
      BY <1>after, <2>2
    <3>2. i \in 1..n /\ i + 1 \notin 1..n
      BY <2>1, <2>2, <3>1
    <3> QED BY <3>1, <3>2
  <2> QED BY <2>1, <2>2, <2>3, <2>4 DEF EventsTold
<1>7. ASSUME rfq'.status = rfq.status, UNCHANGED <<stages, events>>
      PROVE  EventsTold'
  BY <1>7 DEF EventsTold
<1>8. CASE AmendCancellation
  BY <1>7, <1>8 DEF AmendCancellation, IInv, RowsOK
<1>9. CASE \/ \E i \in Stage : UpdateStage(i)
           \/ \E i \in Stage, k \in Subtasks :
                 CreateSubtask(i, k) \/ UpdateSubtask(i, k) \/ DeleteSubtask(i, k)
           \/ UNCHANGED vars
  BY <1>7, <1>9 DEF UpdateStage, CreateSubtask, UpdateSubtask, DeleteSubtask, SetSubtask, vars
<1> QED BY <1>1, <1>2, <1>4, <1>5, <1>6, <1>8, <1>9 DEF Next, Advance

\* The publications, in order, are the whole life of the RFQ: a consumer never
\* hears of a stage twice, out of order, or after a cancellation, and never of
\* a second decision.
THEOREM EventsTrue == Spec => []EventsTellTheLife
<1>1. Init => EventsTold
  BY DEF Init, EventsTold
<1>2. IInv /\ EventsTold /\ [Next]_vars /\ IInv' => EventsTold'
  BY StepTells
<1>3. IInv /\ EventsTold => EventsTellTheLife
  BY ToldIsTheProperty
<1> QED BY <1>1, <1>2, <1>3, InductiveInvariant, PTL DEF Spec

-----------------------------------------------------------------------------
(* The calendar.                                                           *)

\* With or without dates, the requests are the same.
LEMMA ScheduleRefines == ScheduleSpec => Spec
<1>1. ScheduleInit => Init
  BY DEF ScheduleInit
<1>2. [ScheduleNext]_scheduleVars => [Next]_vars
  BY DEF ScheduleNext, scheduleVars, CreateScheduled, ChangeDeadline, AdvanceScheduled,
         CancelScheduled, Undated, NextDay, Next, Advance
<1> QED BY <1>1, <1>2, PTL DEF ScheduleSpec, Spec

\* What the calendar of a stage looks like.
Dated(row, dates, day) ==
    /\ dates \in [start : Int, end : Int]
    /\ IF row.started THEN dates.start \in 0..day ELSE dates.start = NoDate
    /\ IF row.ended THEN dates.end \in dates.start..day ELSE dates.end = NoDate

LEMMA CalendarDated ==
    CalendarOK <=> /\ today \in Nat
                   /\ DOMAIN planned = Stage
                   /\ actual \in [Stage -> [start : Int, end : Int]]
                   /\ \A i \in Stage : Dated(stages[i], actual[i], today)
BY DEF CalendarOK, Dated

\* Cancelling ends the live stage today and dates no other.
LEMMA CancelDates ==
    ASSUME IInv, CalendarOK, NEW why, CancelledRows(why), actual' = FrozenDates,
           UNCHANGED <<today, planned>>
    PROVE  /\ CalendarOK'
           /\ \A i \in Stage : ~ Open(stages[i]) => actual'[i] = actual[i]
<1>1. PICK n \in 0..Size : Stage = 1..n /\ stages \in [1..n -> StageRow]
  BY StageFacts DEF IInv
<1>2. stages' = FreezeStages(stages, rfq.current) /\ Stage' = Stage
  BY DEF CancelledRows, FreezeStages, Stage
<1>3. actual \in [Stage -> [start : Int, end : Int]] /\ today \in Nat
  BY DEF CalendarOK
<1>4. ASSUME NEW i \in Stage
      PROVE  actual'[i] = IF i = rfq.current /\ stages[i].status = "InProgress"
                            THEN [actual[i] EXCEPT !.end = today] ELSE actual[i]
  <2>1. i # NoStage
    BY <1>1 DEF NoStage
  <2>2. CASE rfq.current # NoStage /\ stages[rfq.current].status = "InProgress"
    <3>1. actual' = [actual EXCEPT ![rfq.current].end = today]
      BY <2>2 DEF FrozenDates, EndedToday
    <3> QED BY <1>3, <2>2, <3>1
  <2>3. CASE ~ (rfq.current # NoStage /\ stages[rfq.current].status = "InProgress")
    <3>1. actual' = actual
      BY <2>3 DEF FrozenDates
    <3> QED BY <2>1, <2>3, <3>1
  <2> QED BY <2>2, <2>3
<1>5. actual' \in [Stage -> [start : Int, end : Int]]
  <2>1. DOMAIN actual' = Stage /\ actual' = [i \in DOMAIN actual' |-> actual'[i]]
    BY <1>3 DEF FrozenDates, EndedToday
  <2>2. ASSUME NEW i \in Stage
        PROVE  actual'[i] \in [start : Int, end : Int]
    <3>1. /\ actual[i] \in [start : Int, end : Int]
          /\ [actual[i] EXCEPT !.end = today] \in [start : Int, end : Int]
      BY <1>3
    <3> QED BY <1>4, <3>1
  <2> QED BY <2>1, <2>2
<1>6. ASSUME NEW i \in Stage
      PROVE  Dated(stages'[i], actual'[i], today)
  <2>1. /\ stages'[i] = FrozenRow(stages[i], i, rfq.current)
        /\ stages[i] \in StageRow
        /\ RowDated(stages[i])
        /\ Dated(stages[i], actual[i], today)
        /\ actual[i] \in [start : Int, end : Int]
    BY <1>1, <1>2, <1>3, CalendarDated DEF FreezeStages, Stage, IInv, DatesTellTheStory
  <2>2. CASE i = rfq.current /\ stages[i].status = "InProgress"
    <3>1. stages'[i] = [stages[i] EXCEPT !.status = "Skipped", !.ended = TRUE]
      <4>1. ~ (i > rfq.current) /\ stages[i].status # "NotStarted"
        BY <1>1, <2>2
      <4> QED BY <2>1, <2>2, <4>1 DEF FrozenRow
    <3>2. actual'[i] = [actual[i] EXCEPT !.end = today]
      BY <1>4, <2>2
    <3>3. stages[i].started
      BY <2>1, <2>2 DEF RowDated
    <3> QED BY <1>3, <2>1, <3>1, <3>2, <3>3 DEF Dated, StageRow
  <2>3. CASE ~ (i = rfq.current /\ stages[i].status = "InProgress")
    <3>1. stages'[i].started = stages[i].started /\ stages'[i].ended = stages[i].ended
      BY <2>1, <2>3 DEF FrozenRow, StageRow
    <3>2. actual'[i] = actual[i]
      BY <1>4, <2>3
    <3> QED BY <2>1, <3>1, <3>2 DEF Dated
  <2> QED BY <2>2, <2>3
<1>7. \A i \in Stage : ~ Open(stages[i]) => actual'[i] = actual[i]
  BY <1>4 DEF Open
<1>8. CalendarOK'
  BY <1>2, <1>3, <1>5, <1>6 DEF CalendarOK, Dated
<1> QED BY <1>7, <1>8

\* Handing over ends the current stage and starts the next one today.
LEMMA HandOverDates ==
    ASSUME IInv, CalendarOK, NEW i \in Stage, AdvanceToNext(i), actual' = HandedOver(i),
           UNCHANGED <<today, planned>>
    PROVE  /\ CalendarOK'
           /\ \A j \in Stage : ~ Open(stages[j]) => actual'[j] = actual[j]
<1>1. PICK n \in 0..Size : Stage = 1..n /\ stages \in [1..n -> StageRow]
  BY StageFacts DEF IInv
<1>2. stages' = [stages EXCEPT ![i] = Completed(@), ![i + 1] = Started(@)] /\ Stage' = Stage
  BY DEF AdvanceToNext, AdvancedRows, Stage
<1>3. actual \in [Stage -> [start : Int, end : Int]] /\ today \in Nat
  BY DEF CalendarOK
<1>4. /\ i + 1 \in Stage /\ i # i + 1 /\ rfq.status = "InPreparation" /\ rfq.current = i
      /\ stages[i].status = "InProgress" /\ stages[i + 1].status = "NotStarted"
  BY <1>1, LiveWhenAdvanced DEF AdvanceToNext, IInv, LiveStageIsCurrent
<1>5. actual' = [actual EXCEPT ![i].end = today, ![i + 1].start = today]
  BY DEF HandedOver, EndedToday
<1>6. actual' \in [Stage -> [start : Int, end : Int]]
  <2>1. [actual EXCEPT ![i].end = today] \in [Stage -> [start : Int, end : Int]]
    BY <1>3
  <2>2. PICK ended \in [Stage -> [start : Int, end : Int]] :
          ended = [actual EXCEPT ![i].end = today]
    BY <2>1
  <2>3. actual' = [ended EXCEPT ![i + 1].start = today]
    BY <2>2 DEF HandedOver, EndedToday
  <2>4. [ended[i + 1] EXCEPT !.start = today] \in [start : Int, end : Int]
    <3>1. ended[i + 1] \in [start : Int, end : Int]
      BY <1>4
    <3> QED BY <1>3, <3>1
  <2>5. actual' = [ended EXCEPT ![i + 1] = [ended[i + 1] EXCEPT !.start = today]]
    BY <2>3
  <2> QED BY <1>4, <2>4, <2>5
<1>7. ASSUME NEW j \in Stage
      PROVE  Dated(stages'[j], actual'[j], today)
  <2>1. /\ stages[j] \in StageRow
        /\ RowDated(stages[j])
        /\ Dated(stages[j], actual[j], today)
        /\ actual[j] \in [start : Int, end : Int]
    BY <1>1, <1>3, CalendarDated DEF IInv, DatesTellTheStory
  <2>2. CASE j = i
    <3>1. stages'[j] = [stages[j] EXCEPT !.status = "Completed", !.ended = TRUE]
      BY <1>1, <1>2, <1>4, <2>2 DEF Completed
    <3>2. actual'[j] = [actual[j] EXCEPT !.end = today]
      BY <1>3, <1>4, <1>5, <2>2
    <3>3. stages[j].started
      BY <1>4, <2>1, <2>2 DEF RowDated
    <3> QED BY <1>3, <2>1, <3>1, <3>2, <3>3 DEF Dated, StageRow
  <2>3. CASE j = i + 1
    <3>1. stages'[j] = [stages[j] EXCEPT !.status = "InProgress", !.started = TRUE]
      BY <1>1, <1>2, <1>4, <2>3 DEF Started
    <3>2. actual'[j] = [actual[j] EXCEPT !.start = today]
      BY <1>3, <1>4, <1>5, <2>3
    <3>3. ~ stages[j].ended
      BY <1>4, <2>1, <2>3 DEF RowDated
    <3> QED BY <1>3, <2>1, <3>1, <3>2, <3>3 DEF Dated, StageRow, NoDate
  <2>4. CASE j # i /\ j # i + 1
    <3>1. stages'[j] = stages[j] /\ actual'[j] = actual[j]
      BY <1>1, <1>2, <1>3, <1>5, <2>4
    <3> QED BY <2>1, <3>1
  <2> QED BY <2>2, <2>3, <2>4
<1>8. \A j \in Stage : ~ Open(stages[j]) => actual'[j] = actual[j]
  BY <1>3, <1>4, <1>5 DEF Open
<1>9. CalendarOK'
  BY <1>2, <1>3, <1>6, <1>7 DEF CalendarOK, Dated
<1> QED BY <1>8, <1>9

\* The outcome ends the last stage today.
LEMMA OutcomeDates ==
    ASSUME IInv, CalendarOK, NEW i \in Stage, AdvanceToOutcome(i), actual' = EndedToday(i),
           UNCHANGED <<today, planned>>
    PROVE  /\ CalendarOK'
           /\ \A j \in Stage : ~ Open(stages[j]) => actual'[j] = actual[j]
<1>1. PICK n \in 0..Size : Stage = 1..n /\ stages \in [1..n -> StageRow]
  BY StageFacts DEF IInv
<1>2. stages' = [stages EXCEPT ![i] = Completed(@)] /\ Stage' = Stage
  BY DEF AdvanceToOutcome, Stage
<1>3. actual \in [Stage -> [start : Int, end : Int]] /\ today \in Nat
  BY DEF CalendarOK
<1>4. stages[i].status = "InProgress"
  BY LiveWhenAdvanced DEF AdvanceToOutcome, IInv, LiveStageIsCurrent
<1>5. actual' = [actual EXCEPT ![i].end = today]
  BY DEF EndedToday
<1>6. actual' \in [Stage -> [start : Int, end : Int]]
  BY <1>3, <1>5
<1>7. ASSUME NEW j \in Stage
      PROVE  Dated(stages'[j], actual'[j], today)
  <2>1. /\ stages[j] \in StageRow
        /\ RowDated(stages[j])
        /\ Dated(stages[j], actual[j], today)
        /\ actual[j] \in [start : Int, end : Int]
    BY <1>1, <1>3, CalendarDated DEF IInv, DatesTellTheStory
  <2>2. CASE j = i
    <3>1. stages'[j] = [stages[j] EXCEPT !.status = "Completed", !.ended = TRUE]
      BY <1>1, <1>2, <2>2 DEF Completed
    <3>2. actual'[j] = [actual[j] EXCEPT !.end = today]
      BY <1>3, <1>5, <2>2
    <3>3. stages[j].started
      BY <1>4, <2>1, <2>2 DEF RowDated
    <3> QED BY <1>3, <2>1, <3>1, <3>2, <3>3 DEF Dated, StageRow
  <2>3. CASE j # i
    <3>1. stages'[j] = stages[j] /\ actual'[j] = actual[j]
      BY <1>1, <1>2, <1>3, <1>5, <2>3
    <3> QED BY <2>1, <3>1
  <2> QED BY <2>2, <2>3
<1>8. \A j \in Stage : ~ Open(stages[j]) => actual'[j] = actual[j]
  BY <1>3, <1>4, <1>5 DEF Open
<1>9. CalendarOK'
  BY <1>2, <1>3, <1>6, <1>7 DEF CalendarOK, Dated
<1> QED BY <1>8, <1>9

\* A creation dates the first stage.
LEMMA CreateDates ==
    ASSUME CalendarOK, CreateScheduled
    PROVE  CalendarOK'
<1>1. /\ stages' = [i \in DOMAIN plan' |-> NewStage(i = 1)]
      /\ actual' = [i \in DOMAIN plan' |-> [NoDates EXCEPT !.start = IF i = 1 THEN today ELSE NoDate]]
      /\ today' = today /\ today \in Nat
      /\ \E day \in Deadlines : planned' = StageDates(day, plan')
  BY DEF CreateScheduled, CreateRfq, CalendarOK
<1>2. Stage' = DOMAIN plan' /\ DOMAIN planned' = DOMAIN plan'
  BY <1>1 DEF Stage, StageDates
<1>3. ASSUME NEW i \in Stage'
      PROVE  Dated(stages'[i], actual'[i], today)
  <2>1. stages'[i] = NewStage(i = 1)
    BY <1>1, <1>2
  <2>2. actual'[i] = [start |-> IF i = 1 THEN today ELSE NoDate, end |-> NoDate]
    BY <1>1, <1>2 DEF NoDates
  <2>3. CASE i = 1
    <3>1. actual'[i] = [start |-> today, end |-> -1]
      BY <2>2, <2>3 DEF NoDate
    <3>2. stages'[i].started /\ ~ stages'[i].ended
      <4>1. stages'[i] = NewStage(TRUE)
        BY <2>1, <2>3
      <4> QED BY <4>1 DEF NewStage
    <3> QED BY <1>1, <3>1, <3>2 DEF Dated, NoDate
  <2>4. CASE i # 1
    <3>1. actual'[i] = [start |-> -1, end |-> -1]
      BY <2>2, <2>4 DEF NoDate
    <3>2. ~ stages'[i].started /\ ~ stages'[i].ended
      <4>1. stages'[i] = NewStage(FALSE)
        BY <2>1, <2>4
      <4> QED BY <4>1 DEF NewStage
    <3> QED BY <3>1, <3>2 DEF Dated, NoDate
  <2> QED BY <2>3, <2>4
<1>4. actual' \in [Stage' -> [start : Int, end : Int]]
  <2>1. \A i \in Stage' : actual'[i] \in [start : Int, end : Int]
    BY <1>3 DEF Dated
  <2>2. actual' = [i \in Stage' |-> actual'[i]]
    BY <1>1, <1>2
  <2> QED BY <2>1, <2>2
<1> QED BY <1>1, <1>2, <1>3, <1>4 DEF CalendarOK, Dated

\* Every request keeps the calendar and, once there are stages, the dates of
\* those that are over.
LEMMA CalendarStep ==
    ASSUME IInv, CalendarOK, [ScheduleNext]_scheduleVars
    PROVE  /\ CalendarOK'
           /\ \A i \in Stage : ~ Open(stages[i]) =>
                 planned'[i] = planned[i] /\ actual'[i] = actual[i]
<1>1. CASE CreateScheduled
  <2>1. Stage = {}
    BY <1>1 DEF CreateScheduled, CreateRfq, IInv, LiveStageIsCurrent
  <2> QED BY <1>1, <2>1, CreateDates
<1>2. CASE ChangeDeadline
  <2>1. /\ UNCHANGED <<stages, today, actual>>
        /\ \E day \in Deadlines : planned' = Recalculated(day)
    BY <1>2 DEF ChangeDeadline, vars
  <2>2. DOMAIN planned' = Stage
    BY <2>1 DEF Recalculated
  <2>3. \A i \in Stage : ~ Open(stages[i]) => planned'[i] = planned[i]
    BY <2>1 DEF Recalculated
  <2> QED BY <2>1, <2>2, <2>3 DEF CalendarOK, Stage
<1>3. ASSUME NEW i \in Stage, AdvanceScheduled(i)
      PROVE  /\ CalendarOK'
             /\ \A j \in Stage : ~ Open(stages[j]) =>
                   planned'[j] = planned[j] /\ actual'[j] = actual[j]
  <2>1. UNCHANGED <<today, planned>>
    BY <1>3 DEF AdvanceScheduled
  <2>2. CASE AdvanceToNext(i) /\ actual' = HandedOver(i)
    BY <2>1, <2>2, HandOverDates
  <2>3. CASE AdvanceNoGo(i) /\ actual' = FrozenDates
    BY <2>1, <2>3, CancelDates DEF AdvanceNoGo
  <2>4. CASE AdvanceToOutcome(i) /\ actual' = EndedToday(i)
    BY <2>1, <2>4, OutcomeDates
  <2> QED BY <1>3, <2>2, <2>3, <2>4 DEF AdvanceScheduled
<1>4. CASE CancelScheduled
  BY <1>4, CancelDates DEF CancelScheduled, CancelRfq
<1>5. CASE Undated \/ UNCHANGED scheduleVars
  <2>1. UNCHANGED <<stages, today, planned, actual>>
    BY <1>5 DEF Undated, scheduleVars, calendar, vars, AmendCancellation, UpdateStage, CreateSubtask,
                UpdateSubtask, DeleteSubtask, SetSubtask
  <2> QED BY <2>1 DEF CalendarOK, Stage
<1>6. CASE NextDay
  <2>1. UNCHANGED <<stages, planned, actual>> /\ today' = today + 1
    BY <1>6 DEF NextDay, calendar, vars
  <2>2. \A i \in Stage : actual[i].start \in Int /\ actual[i].end \in Int
    BY DEF CalendarOK
  <2> QED BY <2>1, <2>2 DEF CalendarOK, Stage
<1> QED BY <1>1, <1>2, <1>3, <1>4, <1>5, <1>6 DEF ScheduleNext

LEMMA CalendarInvariant == ScheduleSpec => [](IInv /\ CalendarOK)
<1>1. ScheduleInit => CalendarOK
  BY DEF ScheduleInit, Init, CalendarOK, Stage
<1>2. IInv /\ CalendarOK /\ [ScheduleNext]_scheduleVars => CalendarOK'
  BY CalendarStep
<1> QED BY <1>1, <1>2, ScheduleRefines, InductiveInvariant, PTL DEF ScheduleSpec

\* The dates of a stage are those of its history: set when it was started and
\* when it left the live state, in this order and never in the future, whatever
\* days the requests are made on.
THEOREM DatesInOrder == ScheduleSpec => []CalendarOK
BY CalendarInvariant, PTL

\* Neither the planned nor the actual dates of a stage that is over change, by
\* a new deadline, an advance, a freeze or anything else.
THEOREM RecordStands == ScheduleSpec => PastStands
<1>1. IInv /\ CalendarOK /\ [ScheduleNext]_scheduleVars =>
        [\A i \in Stage : ~ Open(stages[i]) =>
            planned'[i] = planned[i] /\ actual'[i] = actual[i]]_scheduleVars
  BY CalendarStep
<1> QED BY <1>1, CalendarInvariant, PTL DEF ScheduleSpec, PastStands
-----------------------------------------------------------------------------
(* The days of work on a set of stages.                                    *)

\* The days of work on a set of templates.
WorkDays(templates) == UNION {{t} \X (1..Duration(t)) : t \in templates}

\* TotalDuration, the sum of durations, counts the days of work.
LEMMA TotalCounts ==
    ASSUME NEW T \in SUBSET (1..Size)
    PROVE  /\ IsFiniteSet(T) /\ IsFiniteSet(WorkDays(T))
           /\ TotalDuration(T) = Cardinality(WorkDays(T))
<1> DEFINE w == [t \in T |-> Duration(t)]
<1>1. IsFiniteSet(T)
  <2>1. IsFiniteSet(1..Size)
    BY FS_Interval, TemplateAssumption DEF Size
  <2> QED BY <2>1, FS_Subset
<1>2. w \in [T -> Nat]
  BY CalendarAssumption, TemplateAssumption DEF Size, Duration
<1>3. Units(w, T) = WorkDays(T)
  BY DEF Units, WorkDays
<1>4. TotalDuration(T) = SumOf(w, T)
  BY DEF TotalDuration, MapThenSumSet, MapThenFoldSet, SumTable, SumOf
<1> HIDE DEF w
<1> QED BY <1>1, <1>2, <1>3, <1>4, SumCounts, UnitsAreFinite

\* No stages take no time.
LEMMA TotalOfNone == TotalDuration({}) = 0
<1>1. WorkDays({}) = {}
  BY DEF WorkDays
<1>2. {} \in SUBSET (1..Size)
  OBVIOUS
<1> QED BY <1>1, <1>2, TotalCounts, FS_EmptySet

\* The durations of two separate sets of stages add up.
LEMMA TotalSplits ==
    ASSUME NEW A \in SUBSET (1..Size), NEW B \in SUBSET (1..Size), A \cap B = {}
    PROVE  TotalDuration(A \cup B) = TotalDuration(A) + TotalDuration(B)
<1>1. WorkDays(A \cup B) = WorkDays(A) \cup WorkDays(B)
  BY DEF WorkDays
<1>2. WorkDays(A) \cap WorkDays(B) = {}
  BY DEF WorkDays
<1>3. Cardinality({}) = 0
  BY FS_EmptySet
<1>4. A \cup B \in SUBSET (1..Size)
  OBVIOUS
<1>5. Cardinality(WorkDays(A)) \in Nat /\ Cardinality(WorkDays(B)) \in Nat
  BY TotalCounts, FS_CardinalityType
<1>6. /\ TotalDuration(A) = Cardinality(WorkDays(A)) /\ IsFiniteSet(WorkDays(A))
      /\ TotalDuration(B) = Cardinality(WorkDays(B)) /\ IsFiniteSet(WorkDays(B))
      /\ TotalDuration(A \cup B) = Cardinality(WorkDays(A) \cup WorkDays(B))
  BY <1>1, <1>4, TotalCounts
<1>7. Cardinality(WorkDays(A) \cup WorkDays(B)) = Cardinality(WorkDays(A)) + Cardinality(WorkDays(B))
  <2>1. Cardinality(WorkDays(A) \cup WorkDays(B)) = Cardinality(WorkDays(A)) + Cardinality(WorkDays(B)) - 0
    BY <1>2, <1>3, <1>6, FS_Union
  <2> QED BY <1>5, <2>1
<1> QED BY <1>6, <1>7

\* Fewer stages take no longer.
LEMMA TotalGrows ==
    ASSUME NEW A \in SUBSET (1..Size), NEW B \in SUBSET A
    PROVE  /\ TotalDuration(A) \in Nat /\ TotalDuration(B) \in Nat
           /\ TotalDuration(B) <= TotalDuration(A)
<1>1. WorkDays(B) \subseteq WorkDays(A)
  BY DEF WorkDays
<1> QED BY <1>1, TotalCounts, FS_Subset, FS_CardinalityType

\* A stage takes its duration.
LEMMA TotalOfOne ==
    ASSUME NEW t \in 1..Size
    PROVE  TotalDuration({t}) = Duration(t) /\ Duration(t) \in Nat
<1>1. WorkDays({t}) = {t} \X (1..Duration(t))
  BY DEF WorkDays
<1>2. Duration(t) \in Nat
  BY CalendarAssumption, TemplateAssumption DEF Size, Duration
<1>3. Cardinality({t} \X (1..Duration(t))) = Duration(t)
  <2>1. IsFiniteSet({t}) /\ Cardinality({t}) = 1
    BY FS_Singleton
  <2>2. IsFiniteSet(1..Duration(t)) /\ Cardinality(1..Duration(t)) = Duration(t)
    BY <1>2, FS_Interval
  <2>3. Cardinality({t} \X (1..Duration(t))) = Cardinality({t}) * Cardinality(1..Duration(t))
    BY <2>1, <2>2, FS_Product
  <2>4. 1 * Duration(t) = Duration(t)
    BY <1>2
  <2> QED BY <2>1, <2>2, <2>3, <2>4
<1> QED BY <1>1, <1>2, <1>3, TotalCounts

-----------------------------------------------------------------------------
(* The plan.                                                               *)

\* The stages kept are a selection of the templates in their order.
Selection(kept, n) ==
    /\ n \in 0..Size
    /\ kept \in [1..n -> 1..Size]
    /\ \A i, j \in 1..n : i < j => kept[i] < kept[j]

\* The work planned from stage i on.
From(kept, i) == {kept[j] : j \in {k \in DOMAIN kept : k >= i}}

\* A planned stage ends where the work after it begins and starts its duration
\* before (the planning of create() and of a changed deadline).
LEMMA PlanOfStage ==
    ASSUME NEW n, NEW kept, Selection(kept, n), NEW day \in Int, NEW i \in 1..n
    PROVE  /\ PlannedStage(day, kept, i) \in [start : Int, end : Int]
           /\ PlannedStage(day, kept, i).start = day - TotalDuration(From(kept, i))
           /\ PlannedStage(day, kept, i).end = day - TotalDuration(From(kept, i + 1))
           /\ PlannedStage(day, kept, i).start + Duration(kept[i]) = PlannedStage(day, kept, i).end
<1>1. /\ n \in Nat /\ kept \in [1..n -> 1..Size] /\ kept[i] \in 1..Size
      /\ \A j, k \in 1..n : j < k => kept[j] < kept[k]
  BY DEF Selection
<1>2. From(kept, i + 1) \in SUBSET (1..Size)
  BY <1>1 DEF From
<1>3. From(kept, i) = {kept[i]} \cup From(kept, i + 1) /\ {kept[i]} \cap From(kept, i + 1) = {}
  BY <1>1 DEF From
<1>4. {kept[j] : j \in {k \in DOMAIN kept : k > i}} = From(kept, i + 1)
  BY <1>1 DEF From
<1>5. TotalDuration({kept[i]}) = Duration(kept[i]) /\ Duration(kept[i]) \in Nat
  BY <1>1, TotalOfOne
<1>6. TotalDuration(From(kept, i + 1)) \in Nat
  BY <1>2, TotalGrows
<1>7. TotalDuration(From(kept, i)) = Duration(kept[i]) + TotalDuration(From(kept, i + 1))
  <2>1. {kept[i]} \in SUBSET (1..Size)
    BY <1>1
  <2> QED BY <1>2, <1>3, <1>5, <2>1, TotalSplits
<1>8. PlannedStage(day, kept, i) =
         [start |-> day - TotalDuration(From(kept, i + 1)) - Duration(kept[i]),
          end   |-> day - TotalDuration(From(kept, i + 1))]
  BY <1>4 DEF PlannedStage
<1> QED BY <1>5, <1>6, <1>7, <1>8

\* No work is left after the last stage.
LEMMA NothingAfterTheLast ==
    ASSUME NEW n, NEW kept, Selection(kept, n)
    PROVE  TotalDuration(From(kept, n + 1)) = 0
<1>1. From(kept, n + 1) = {}
  BY DEF From, Selection
<1> QED BY <1>1, TotalOfNone

\* A deadline that leaves room for a set of templates leaves room for every
\* selection of them, from any stage on.
LEMMA PlanLeavesRoom ==
    ASSUME NEW n, NEW kept, Selection(kept, n), NEW day \in Int, NEW i \in 1..n,
           NEW templates \in SUBSET (1..Size), \A j \in 1..n : kept[j] \in templates,
           today \in Int, Acceptable(day, templates)
    PROVE  PlannedStage(day, kept, i).start >= today
<1>1. From(kept, i) \in SUBSET templates
  BY DEF From, Selection
<1>2. /\ TotalDuration(From(kept, i)) \in Nat /\ TotalDuration(templates) \in Nat
      /\ TotalDuration(From(kept, i)) <= TotalDuration(templates)
  BY <1>1, TotalGrows
<1>3. day >= today + TotalDuration(templates)
  BY DEF Acceptable, MinimumFeasibleDeadline
<1>4. PlannedStage(day, kept, i).start = day - TotalDuration(From(kept, i))
  BY PlanOfStage
<1> QED BY <1>2, <1>3, <1>4

\* What holds of the plan: the stages kept are in the order of their
\* templates, each is planned for its duration, and those still to be done
\* fill the time to the deadline.
PlanOK ==
    /\ deadline \in Int
    /\ planned \in [Stage -> [start : Int, end : Int]]
    /\ \A i, j \in Stage : i < j => plan[i] < plan[j]
    /\ \A i \in Stage : planned[i].start + Duration(plan[i]) = planned[i].end
    /\ OpenStagesReachDeadline

\* Nothing is planned at first.
LEMMA InitPlan == ScheduleInit => PlanOK
BY DEF ScheduleInit, Init, PlanOK, OpenStagesReachDeadline, Stage

\* The plan of an RFQ is a selection of the templates.
LEMMA PlanSelects ==
    ASSUME IInv, PlanOK
    PROVE  \E n \in 0..Size : Stage = 1..n /\ Selection(plan, n)
<1>1. PICK n \in 0..Size : Stage = 1..n /\ plan \in [1..n -> 1..Size]
  BY StageFacts DEF IInv
<1> QED BY <1>1 DEF PlanOK, Selection

\* The open stages are the last ones.
LEMMA OpenOnwards ==
    ASSUME IInv, NEW i \in Stage, Open(stages[i]), i + 1 \in Stage
    PROVE  Open(stages[i + 1])
<1>1. PICK n \in 0..Size : Stage = 1..n /\ stages \in [1..n -> StageRow]
  BY StageFacts DEF IInv
<1>2. rfq.status \in RfqStatuses \cup {"Absent"} /\ rfq.current \in Stage \cup {NoStage}
  BY DEF IInv, RowsOK
<1>3. rfq.status = "InPreparation"
  BY <1>1, <1>2 DEF IInv, LiveStageIsCurrent, Open, RfqStatuses, TerminalStatuses
<1>4. i >= rfq.current
  BY <1>1, <1>2, <1>3 DEF IInv, LiveStageIsCurrent, Open, NoStage
<1> QED BY <1>1, <1>2, <1>3, <1>4 DEF IInv, LiveStageIsCurrent, Open, NoStage

\* create() plans every stage, from today on.
LEMMA CreatePlans ==
    ASSUME today \in Int, CreateScheduled
    PROVE  /\ PlanOK'
           /\ \A i \in DOMAIN planned' : planned'[i].start >= today
<1>1. PICK kept \in ActiveTemplates :
         /\ plan' \in InOrder(kept)
         /\ stages' = [i \in DOMAIN plan' |-> NewStage(i = 1)]
  BY DEF CreateScheduled, CreateRfq
<1>2. PICK day \in Deadlines :
         /\ Acceptable(day, {plan'[i] : i \in DOMAIN plan'})
         /\ deadline' = day
         /\ planned' = StageDates(day, plan')
  BY DEF CreateScheduled
<1> DEFINE n == Cardinality(kept)
<1>3. kept \subseteq 1..Size /\ Size \in Nat
  BY TemplateAssumption DEF ActiveTemplates, Size
<1>4. n \in 0..Size
  <2>1. IsFiniteSet(1..Size) /\ Cardinality(1..Size) = Size
    BY <1>3, FS_Interval
  <2>2. IsFiniteSet(kept) /\ n <= Size
    BY <1>3, <2>1, FS_Subset
  <2>3. n \in Nat
    BY <2>2, FS_CardinalityType
  <2> QED BY <1>3, <2>2, <2>3
<1> HIDE DEF n
<1>5. Selection(plan', n)
  <2>1. plan' \in [1..n -> kept] /\ \A i, j \in DOMAIN plan' : i < j => plan'[i] < plan'[j]
    BY <1>1 DEF InOrder, n
  <2> QED BY <1>3, <1>4, <2>1 DEF Selection
<1>6. DOMAIN plan' = 1..n /\ Stage' = 1..n /\ n \in Nat /\ DOMAIN planned' = 1..n
  BY <1>1, <1>2, <1>5 DEF Selection, Stage, StageDates
<1>7. day \in Int
  BY CalendarAssumption
<1>8. \A i \in 1..n : planned'[i] = PlannedStage(day, plan', i)
  BY <1>2, <1>6 DEF StageDates
<1>9. planned' \in [Stage' -> [start : Int, end : Int]]
  <2>1. planned' = [i \in 1..n |-> PlannedStage(day, plan', i)]
    BY <1>2, <1>6 DEF StageDates
  <2> QED BY <1>5, <1>6, <1>7, <2>1, PlanOfStage
<1>10. \A i \in Stage' : planned'[i].start + Duration(plan'[i]) = planned'[i].end
  BY <1>5, <1>6, <1>7, <1>8, PlanOfStage
<1>11. OpenStagesReachDeadline'
  <2>1. ASSUME NEW i \in 1..n
        PROVE  planned'[i].end = IF i + 1 \in 1..n THEN planned'[i + 1].start ELSE day
    <3>1. planned'[i].end = day - TotalDuration(From(plan', i + 1))
      <4>1. PlannedStage(day, plan', i).end = day - TotalDuration(From(plan', i + 1))
        BY <1>5, <1>7, PlanOfStage
      <4> QED BY <1>8, <4>1
    <3>2. CASE i + 1 \in 1..n
      BY <1>5, <1>7, <1>8, <3>1, <3>2, PlanOfStage
    <3>3. CASE i + 1 \notin 1..n
      <4>1. i + 1 = n + 1
        BY <1>6, <3>3
      <4> QED BY <1>5, <1>7, <3>1, <3>3, <4>1, NothingAfterTheLast
    <3> QED BY <3>2, <3>3
  <2> QED BY <1>2, <1>6, <2>1 DEF OpenStagesReachDeadline
<1>12. \A i \in DOMAIN planned' : planned'[i].start >= today
  <2>1. {plan'[i] : i \in DOMAIN plan'} \in SUBSET (1..Size)
    BY <1>5, <1>6 DEF Selection
  <2> QED BY <1>2, <1>5, <1>6, <1>7, <1>8, <2>1, PlanLeavesRoom
<1> QED BY <1>2, <1>5, <1>6, <1>7, <1>9, <1>10, <1>11, <1>12 DEF PlanOK, Selection

\* A changed deadline plans the open stages again, from today on.
LEMMA ChangePlans ==
    ASSUME IInv, PlanOK, today \in Int, ChangeDeadline
    PROVE  /\ PlanOK'
           /\ \A i \in DOMAIN planned' : Open(stages'[i]) => planned'[i].start >= today
<1>1. PICK n \in 0..Size : Stage = 1..n /\ Selection(plan, n)
  BY PlanSelects
<1>2. PICK day \in Deadlines :
         Acceptable(day, 1..Size) /\ deadline' = day /\ planned' = Recalculated(day)
  BY DEF ChangeDeadline
<1>3. UNCHANGED <<rfq, plan, stages>> /\ Stage' = Stage
  BY DEF ChangeDeadline, vars, Stage
<1>4. day \in Int /\ n \in Nat
  <2>1. Size \in Nat
    BY TemplateAssumption DEF Size
  <2>2. day \in Int
    BY CalendarAssumption
  <2> QED BY <2>1, <2>2
<1>5. \A i \in 1..n : planned'[i] = IF Open(stages[i]) THEN PlannedStage(day, plan, i) ELSE planned[i]
  BY <1>1, <1>2 DEF Recalculated
<1>6. planned' \in [Stage' -> [start : Int, end : Int]]
  <2>1. planned' = [i \in 1..n |-> IF Open(stages[i]) THEN PlannedStage(day, plan, i) ELSE planned[i]]
    BY <1>1, <1>2 DEF Recalculated
  <2> QED BY <1>1, <1>3, <1>4, <2>1, PlanOfStage DEF PlanOK
<1>7. \A i \in Stage' : planned'[i].start + Duration(plan'[i]) = planned'[i].end
  BY <1>1, <1>3, <1>4, <1>5, PlanOfStage DEF PlanOK
<1>8. OpenStagesReachDeadline'
  <2>1. ASSUME NEW i \in 1..n, Open(stages[i])
        PROVE  planned'[i].end = IF i + 1 \in 1..n THEN planned'[i + 1].start ELSE day
    <3>1. planned'[i].end = day - TotalDuration(From(plan, i + 1))
      <4>1. PlannedStage(day, plan, i).end = day - TotalDuration(From(plan, i + 1))
        BY <1>1, <1>4, PlanOfStage
      <4> QED BY <1>5, <2>1, <4>1
    <3>2. CASE i + 1 \in 1..n
      <4>1. Open(stages[i + 1])
        BY <1>1, <2>1, <3>2, OpenOnwards
      <4> QED BY <1>1, <1>4, <1>5, <3>1, <3>2, <4>1, PlanOfStage
    <3>3. CASE i + 1 \notin 1..n
      <4>1. i + 1 = n + 1
        BY <1>4, <3>3
      <4> QED BY <1>1, <1>4, <3>1, <3>3, <4>1, NothingAfterTheLast
    <3> QED BY <3>2, <3>3
  <2> QED BY <1>1, <1>2, <1>3, <2>1 DEF OpenStagesReachDeadline
<1>9. \A i \in DOMAIN planned' : Open(stages'[i]) => planned'[i].start >= today
  <2>1. \A i \in 1..n : plan[i] \in 1..Size
    BY <1>1 DEF Selection
  <2>2. DOMAIN planned' = 1..n
    BY <1>1, <1>2 DEF Recalculated
  <2>3. \A i \in 1..n : PlannedStage(day, plan, i).start >= today
    BY <1>1, <1>2, <1>4, <2>1, PlanLeavesRoom
  <2> QED BY <1>3, <1>5, <2>2, <2>3
<1> QED BY <1>2, <1>3, <1>4, <1>6, <1>7, <1>8, <1>9 DEF PlanOK

\* A request that plans nothing leaves the plan as it is; the stages that are
\* open after it were open before.
LEMMA UnplannedKeepsPlan ==
    ASSUME IInv, PlanOK, UNCHANGED <<deadline, planned, plan>>, Stage' = Stage,
           \A i \in Stage : Open(stages'[i]) => Open(stages[i])
    PROVE  PlanOK'
BY DEF PlanOK, OpenStagesReachDeadline

\* A freeze opens no stage.
LEMMA CancelCloses ==
    ASSUME IInv, NEW why, CancelledRows(why), NEW i \in Stage, Open(stages'[i])
    PROVE  Open(stages[i])
<1>1. stages'[i] = FrozenRow(stages[i], i, rfq.current)
  BY DEF CancelledRows, FreezeStages, Stage
<1>2. stages[i] \in StageRow
  BY StageFacts DEF IInv
<1> QED BY <1>1, <1>2 DEF FrozenRow, Open, StageRow

\* The plan stays sound, and a new one starts no open stage before today.
LEMMA PlanStep ==
    ASSUME IInv, CalendarOK, PlanOK, [ScheduleNext]_scheduleVars
    PROVE  /\ PlanOK'
           /\ planned' # planned => \A i \in DOMAIN planned' : Open(stages'[i]) => planned'[i].start >= today
<1>0. today \in Int /\ [Next]_vars
  <2>1. today \in Int
    BY DEF CalendarOK
  <2>2. [Next]_vars
    BY DEF ScheduleNext, scheduleVars, CreateScheduled, ChangeDeadline, AdvanceScheduled,
           CancelScheduled, Undated, NextDay, Next, Advance
  <2> QED BY <2>1, <2>2
<1>1. CASE CreateScheduled
  BY <1>0, <1>1, CreatePlans
<1>2. CASE ChangeDeadline
  BY <1>0, <1>2, ChangePlans
<1>3. ASSUME NEW i \in Stage, AdvanceScheduled(i)
      PROVE  PlanOK' /\ planned' = planned
  <2>1. PICK n \in 0..Size : Stage = 1..n /\ stages \in [1..n -> StageRow]
    BY StageFacts DEF IInv
  <2>2. UNCHANGED <<deadline, planned, plan>> /\ Advance(i) /\ rfq.status # "Absent"
    BY <1>3 DEF AdvanceScheduled, Advance, AdvanceToNext, AdvanceNoGo, AdvanceToOutcome, IInv,
                LiveStageIsCurrent
  <2>3. Stage' = Stage
    BY <1>0, <2>2, SameStages DEF CreateRfq
  <2>4. ASSUME NEW j \in Stage, Open(stages'[j]) PROVE Open(stages[j])
    <3>1. CASE AdvanceToNext(i)
      <4>1. /\ i + 1 \in Stage /\ i # i + 1 /\ stages[i + 1].status = "NotStarted"
            /\ stages' = [stages EXCEPT ![i] = Completed(@), ![i + 1] = Started(@)]
        BY <2>1, <3>1, LiveWhenAdvanced DEF AdvanceToNext, AdvancedRows, IInv, LiveStageIsCurrent
      <4>2. CASE j = i
        <5>1. stages'[j] = Completed(stages[j])
          BY <2>1, <4>1, <4>2
        <5> QED BY <2>1, <2>4, <5>1 DEF Open, Completed, StageRow
      <4>3. CASE j = i + 1
        BY <4>1, <4>3 DEF Open
      <4>4. CASE j # i /\ j # i + 1
        BY <2>1, <2>4, <4>1, <4>4
      <4> QED BY <4>2, <4>3, <4>4
    <3>2. CASE AdvanceNoGo(i)
      BY <2>4, <3>2, CancelCloses DEF AdvanceNoGo
    <3>3. CASE AdvanceToOutcome(i)
      <4>1. stages' = [stages EXCEPT ![i] = Completed(@)]
        BY <3>3 DEF AdvanceToOutcome
      <4>2. CASE j = i
        <5>1. stages'[j] = Completed(stages[j])
          BY <2>1, <4>1, <4>2
        <5> QED BY <2>1, <2>4, <5>1 DEF Open, Completed, StageRow
      <4> QED BY <2>1, <2>4, <4>1, <4>2
    <3> QED BY <2>2, <3>1, <3>2, <3>3 DEF Advance
  <2> QED BY <2>2, <2>3, <2>4, UnplannedKeepsPlan
<1>4. CASE CancelScheduled
  <2>1. UNCHANGED <<deadline, planned, plan>> /\ Stage' = Stage
    BY <1>4 DEF CancelScheduled, CancelRfq, CancelledRows, FreezeStages, Stage
  <2>2. PICK why : CancelledRows(why)
    BY <1>4 DEF CancelScheduled, CancelRfq
  <2> QED BY <2>1, <2>2, CancelCloses, UnplannedKeepsPlan
<1>5. CASE Undated \/ NextDay \/ UNCHANGED scheduleVars
  <2>1. UNCHANGED <<stages, plan, deadline, planned>>
    BY <1>5 DEF Undated, NextDay, scheduleVars, calendar, vars, AmendCancellation, UpdateStage,
                CreateSubtask, UpdateSubtask, DeleteSubtask, SetSubtask
  <2> QED BY <2>1, UnplannedKeepsPlan DEF Stage
<1> QED BY <1>1, <1>2, <1>3, <1>4, <1>5 DEF ScheduleNext

\* The plan is sound at every moment.
LEMMA PlanInvariant == ScheduleSpec => [](IInv /\ CalendarOK /\ PlanOK)
<1>1. IInv /\ CalendarOK /\ PlanOK /\ [ScheduleNext]_scheduleVars => PlanOK'
  BY PlanStep
<1> QED BY <1>1, InitPlan, CalendarInvariant, PTL DEF ScheduleSpec

\* The open stages fill the time to the deadline, for any durations and
\* selection of the stages, and however often the deadline moved.
THEOREM OpenStagesMeetDeadline == ScheduleSpec => []OpenStagesReachDeadline
<1>1. PlanOK => OpenStagesReachDeadline
  BY DEF PlanOK
<1> QED BY <1>1, PlanInvariant, PTL

\* A plan is never made for days that are over.
THEOREM PlansForTheFuture == ScheduleSpec => NeverPlannedIntoThePast
<1>1. IInv /\ CalendarOK /\ PlanOK /\ [ScheduleNext]_scheduleVars =>
        [planned' # planned =>
            \A i \in DOMAIN planned' : Open(stages'[i]) => planned'[i].start >= today]_scheduleVars
  BY PlanStep
<1> QED BY <1>1, PlanInvariant, PTL DEF ScheduleSpec, NeverPlannedIntoThePast

-----------------------------------------------------------------------------
(* Windows.                                                                *)

\* Durations are naturals.
LEMMA DurationIsNat ==
    ASSUME NEW t \in 1..Size PROVE Duration(t) \in Nat
BY TotalOfOne

\* The three kinds of stages a window distinguishes.
LEMMA WindowOfStage ==
    ASSUME IInv, CalendarOK, PlanOK, NEW i \in Stage
    PROVE  /\ planned[i] \in [start : Int, end : Int] /\ Duration(plan[i]) \in Nat
           /\ planned[i].start + Duration(plan[i]) = planned[i].end
           /\ ~ stages[i].started => Window(i) = planned[i]
           /\ stages[i].started /\ stages[i].ended =>
                 Window(i) = actual[i] /\ actual[i].start <= actual[i].end
           /\ stages[i].started /\ ~ stages[i].ended =>
                 /\ actual[i].start \in 0..today
                 /\ Window(i).start = actual[i].start
                 /\ Window(i).end >= actual[i].start + Duration(plan[i])
                 /\ Window(i).end >= planned[i].end
                 /\ Window(i).end \in Int
<1>1. PICK n \in 0..Size : Stage = 1..n /\ plan \in [1..n -> 1..Size]
  BY StageFacts DEF IInv
<1>2. /\ today \in Nat /\ actual[i] \in [start : Int, end : Int]
      /\ Dated(stages[i], actual[i], today)
  BY CalendarDated
<1>3. planned[i] \in [start : Int, end : Int] /\ planned[i].start + Duration(plan[i]) = planned[i].end
  BY DEF PlanOK
<1>4. Duration(plan[i]) \in Nat
  BY <1>1, DurationIsNat
<1>5. Days(planned[i]) = Duration(plan[i])
  BY <1>3, <1>4 DEF Days
<1>6. CASE ~ stages[i].started
  BY <1>2, <1>3, <1>4, <1>6 DEF Dated, Window
<1>7. CASE stages[i].started /\ stages[i].ended
  <2>1. actual[i].start # NoDate /\ actual[i].end # NoDate /\ actual[i].start <= actual[i].end
    BY <1>2, <1>7 DEF Dated, NoDate
  <2> QED BY <1>3, <1>4, <1>7, <2>1 DEF Window
<1>8. CASE stages[i].started /\ ~ stages[i].ended
  <2>1. actual[i].start # NoDate /\ actual[i].end = NoDate /\ actual[i].start \in 0..today
    BY <1>2, <1>8 DEF Dated, NoDate
  <2> DEFINE shifted == actual[i].start + Days(planned[i])
  <2>2. Window(i) = [start |-> actual[i].start,
                     end   |-> IF shifted > planned[i].end THEN shifted ELSE planned[i].end]
    BY <2>1 DEF Window
  <2>3. shifted = actual[i].start + Duration(plan[i]) /\ shifted \in Int /\ planned[i].end \in Int
    BY <1>2, <1>3, <1>4, <1>5
  <2> HIDE DEF shifted
  <2> QED BY <1>3, <1>4, <1>8, <2>1, <2>2, <2>3
<1> QED BY <1>6, <1>7, <1>8

\* What WindowsLeaveRoom says follows from the plan and the dates.
LEMMA RoomInWindows == IInv /\ CalendarOK /\ PlanOK => WindowsLeaveRoom
<1> SUFFICES ASSUME IInv, CalendarOK, PlanOK PROVE WindowsLeaveRoom
  OBVIOUS
<1>1. PICK n \in 0..Size : Stage = 1..n /\ stages \in [1..n -> StageRow]
  BY StageFacts DEF IInv
<1>2. today \in Nat /\ deadline \in Int
  BY DEF CalendarOK, PlanOK
<1>3. ASSUME NEW i \in Stage
      PROVE  /\ stages[i] \in StageRow /\ RowDated(stages[i])
             /\ Window(i).start <= Window(i).end
  <2>1. stages[i] \in StageRow /\ RowDated(stages[i])
    BY <1>1 DEF IInv, DatesTellTheStory
  <2>2. actual[i].start \in Int
    BY DEF CalendarOK
  <2> QED BY <2>1, <2>2, WindowOfStage DEF RowDated, StageRow, StageStatuses
<1>4. ASSUME NEW i \in Stage, i = rfq.current
      PROVE  Days(Window(i)) >= Duration(plan[i])
  <2>1. stages[i].status = "InProgress"
    <3>1. rfq.current # NoStage
      BY <1>1, <1>4 DEF NoStage
    <3> QED BY <1>4, <3>1 DEF IInv, LiveStageIsCurrent
  <2>2. stages[i].started /\ ~ stages[i].ended
    BY <1>3, <2>1 DEF RowDated
  <2>3. /\ Window(i).start \in Int /\ Window(i).end \in Int /\ Duration(plan[i]) \in Nat
        /\ Window(i).end >= Window(i).start + Duration(plan[i])
    BY <1>2, <2>2, WindowOfStage
  <2> QED BY <2>3 DEF Days
<1>5. ASSUME NEW i \in Stage, i + 1 \in Stage, stages[i].status = "NotStarted"
      PROVE  Window(i).end <= Window(i + 1).start
  <2>1. stages[i + 1].status = "NotStarted"
    <3>1. rfq.status \in RfqStatuses \cup {"Absent"} /\ rfq.current \in Stage \cup {NoStage}
      BY DEF IInv, RowsOK
    <3>2. rfq.status = "InPreparation"
      BY <1>1, <1>5, <3>1 DEF IInv, LiveStageIsCurrent, RfqStatuses, TerminalStatuses
    <3>3. i > rfq.current
      BY <1>1, <1>5, <3>1, <3>2 DEF IInv, LiveStageIsCurrent, NoStage
    <3> QED BY <1>1, <1>5, <3>1, <3>2, <3>3 DEF IInv, LiveStageIsCurrent, NoStage
  <2>2. ~ stages[i].started /\ ~ stages[i + 1].started
    BY <1>3, <1>5, <2>1 DEF RowDated
  <2>3. Window(i) = planned[i] /\ Window(i + 1) = planned[i + 1]
    BY <1>5, <2>2, WindowOfStage
  <2>4. planned[i].end = planned[i + 1].start /\ planned[i].end \in Int
    BY <1>5 DEF PlanOK, OpenStagesReachDeadline, Open
  <2> QED BY <2>3, <2>4
<1>6. ASSUME NEW i \in Stage, i + 1 \notin Stage, Open(stages[i]), today <= deadline
      PROVE  SubtaskMayBeDue(i, deadline) /\ ReminderMayBeDue(i, deadline)
  <2>1. planned[i].end = deadline
    BY <1>6 DEF PlanOK, OpenStagesReachDeadline
  <2>2. Window(i).start <= deadline /\ deadline <= Window(i).end
    <3>1. CASE stages[i].started
      <4>1. ~ stages[i].ended
        BY <1>3, <1>6 DEF RowDated, Open
      <4>2. /\ actual[i].start \in 0..today /\ Window(i).start = actual[i].start
            /\ Window(i).end >= planned[i].end
        BY <3>1, <4>1, WindowOfStage
      <4> QED BY <1>2, <1>6, <2>1, <4>2
    <3>2. CASE ~ stages[i].started
      <4>1. Window(i) = planned[i]
        BY <3>2, WindowOfStage
      <4>2. /\ planned[i] \in [start : Int, end : Int] /\ Duration(plan[i]) \in Nat
            /\ planned[i].start + Duration(plan[i]) = planned[i].end
        BY WindowOfStage
      <4> QED BY <1>2, <2>1, <4>1, <4>2
    <3> QED BY <3>1, <3>2
  <2>3. SubtaskMayBeDue(i, deadline)
    BY <2>2 DEF SubtaskMayBeDue
  <2>4. i # NoStage
    BY <1>1 DEF NoStage
  <2> QED BY <1>2, <1>6, <2>3, <2>4 DEF ReminderMayBeDue
<1> QED BY <1>3, <1>4, <1>5, <1>6 DEF WindowsLeaveRoom

\* Every stage has a window in which work on it may be due, with room for the
\* live stage and for the deadline in the last one.
THEOREM WindowsHaveRoom == ScheduleSpec => []WindowsLeaveRoom
BY PlanInvariant, RoomInWindows, PTL
=============================================================================
