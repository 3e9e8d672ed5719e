SPECIFICATION FairSpec
CONSTANTS
    Requests = {p, q, r}
    p = p
    q = q
    r = r
    Prefixes <- BothPrefixes
    Legacy <- OldCodes
    Base <- OldTop
    Migrated <- OneMigrated
    NoCode = NoCode
    Nobody = Nobody
INVARIANTS
    CodesNeverCollide
    CounterIsTop
PROPERTIES
    DispensesInOrder
    CreationsEnd
CHECK_DEADLOCK FALSE
