SPECIFICATION Spec
CONSTANTS
    Requests = {p, q}
    Tasks = {k1, k2}
    p = p
    q = q
    k1 = k1
    k2 = k2
    Nobody = Nobody
    Steps <- FewSteps
SYMMETRY AnyIdentity
INVARIANT SomeoneProceeds
PROPERTIES
    LoneRequestSettles
    LoneRequestKeepsProgress
    LoneUpdateRepairsStatus
    DeletedStaysDeleted
CHECK_DEADLOCK FALSE
