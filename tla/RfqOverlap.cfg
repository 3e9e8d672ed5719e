SPECIFICATION FairSpec
CONSTANTS
    Size = 3
    Requests = {p, q, r}
    p = p
    q = q
    r = r
    Nobody = Nobody
    Kinds <- EveryKind
INVARIANTS
    OpenRfqLooksOpen
    AnnouncedOnlyCommitted
    NothingSkipped
PROPERTIES
    DecidedStaysDecided
    RequestsFinish
CHECK_DEADLOCK FALSE
