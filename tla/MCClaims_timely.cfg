SPECIFICATION Spec
CONSTANTS
    Procs = {p1, p2}
    Tasks = {t1}
    None = None
    TTL = 3
    RenewEvery = 1
    Waits = {0, 2, 4}
    MaxMisses = 1
    MayGiveUp = FALSE
SYMMETRY ProcSymmetry
INVARIANTS
    TypeOK
    RunsUnderClaim
    LeftAloneUntilDue
PROPERTIES
    ImplementsExclusiveRuns
