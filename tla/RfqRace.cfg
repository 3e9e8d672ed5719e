SPECIFICATION Spec
CONSTANTS
    Size = 2
    Requests = {p, q}
    p = p
    q = q
    Nobody = Nobody
    Kinds <- AdvanceOrCancel
SYMMETRY AnyRequest
PROPERTY DecidedIsReadOnly
CHECK_DEADLOCK FALSE
