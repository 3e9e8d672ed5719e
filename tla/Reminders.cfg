SPECIFICATION Spec
CONSTANTS
    Rfqs = {f}
    f = f
    Situations <- SomeSituations
    Rules = {"all_rfqs", "stage_overdue"}
    Scope <- SomeScopes
    NoRule = NoRule
    NoStage = NoStage
    Slots = {s1, s2}
    s1 = s1
    s2 = s2
    Batches = {b1, b2}
    b1 = b1
    b2 = b2
    Dues = {0}
    MaxSends = 2
    LastDay = 2
    MaxTrouble = 1
SYMMETRY AnyIdentity
INVARIANTS
    OncePerDay
    NeverOverLimit
    OneActivePerContext
PROPERTY LoneBatchReconciles
