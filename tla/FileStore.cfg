SPECIFICATION FairSpec
CONSTANTS
    Requests = {p, q, r}
    p = p
    q = q
    r = r
    PoolSize = 2
    Nobody = Nobody
    Legacy = {old}
    old = old
    Kinds <- SomeKinds
    Sanitized <- SafeNames
    Invalid = Invalid
    StageTeam = "engineering"
    Principals <- SomePrincipals
    Bypass = FALSE
    BypassContext <- DemoUser
    NoTeam = NoTeam
INVARIANTS
    RowsHaveTheirBytes
    AcceptedIsDelivered
    StrayBytesFailed
PROPERTIES
    NewFileMovesMilestone
    RequestsEnd
CHECK_DEADLOCK FALSE
