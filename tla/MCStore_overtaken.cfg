SPECIFICATION Spec
CONSTANTS
    Callers = {c1, c2, c3}
    Kinds = {"insert", "read"}
    Values = {v1}
    None = None
    Lifetimes = {2}
    Lag = 1
    MaxTime = 3
    OvertakenGets = TRUE
SYMMETRY Symmetry
INVARIANTS
    OneWinner
