SPECIFICATION Spec
CONSTANTS
    Workflows = {long, short, custom}
    long = long
    Defined = {long, short, custom}
    SeedDefault = long
    Requests = {p, q}
    Bodies <- SomeBodies
INVARIANT OneDefault
CHECK_DEADLOCK FALSE
