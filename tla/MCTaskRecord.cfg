SPECIFICATION FairSpec
CONSTANTS
    Aborters = {a1, a2}
    None = None
    MaxIterations = 2
    MaxFaults = 2
CHECK_DEADLOCK FALSE
INVARIANTS
    TypeOK
PROPERTIES
    SettledStaysSettled
    OutcomeUndoneOnlyHalfWay
    EndsForGood
