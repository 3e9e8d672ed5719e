SPECIFICATION Spec
CONSTANTS
    Rfqs = {f}
    f = f
    Situations <- MoreSituations
    Rules = {"critical_only", "external_followup"}
    Scope <- SomeScopes
    NoRule = NoRule
    NoStage = NoStage
    Slots = {s1, s2}
    s1 = s1
    s2 = s2
    Batches = {b1}
    b1 = b1
    Dues = {1}
    MaxSends = 2
    LastDay = 1
    MaxTrouble = 0
SYMMETRY AnyIdentity
PROPERTY ResolvedIsNotSent
