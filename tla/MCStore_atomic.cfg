SPECIFICATION Spec
CONSTANTS
    Callers = {c1, c2}
    Kinds = {"insert", "replace", "put", "remove", "erase", "read"}
    Values = {v1, v2}
    None = None
    Lifetimes = {2}
    Lag = 1
    MaxTime = 3
    OvertakenGets = FALSE
SYMMETRY Symmetry
INVARIANTS
    TypeOK
    CheckStillHolds
PROPERTIES
    ImplementsConditionalStore
