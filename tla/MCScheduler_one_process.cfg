SPECIFICATION FairSpec
CONSTANTS
    Actions = {a1}
    Procs = {p1}
    None = None
    Horizon = 2
    Early = 0
    RunClaim = 1
    RetryAfter = 2
    MaxRequests = 1
    MaxFaults = 1
INVARIANTS
    TypeOK
    OneCoveredRun
PROPERTIES
    ImplementsExclusiveRuns
    EveryActionEnds
