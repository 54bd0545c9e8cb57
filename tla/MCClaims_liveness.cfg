SPECIFICATION FairSpec
CONSTANTS
    Procs = {p1, p2}
    Tasks = {t1}
    None = None
    TTL = 3
    RenewEvery = 1
    Waits = {0}
    MaxMisses = 2
    MayGiveUp = TRUE
PROPERTIES
    DeadOwnersClaimEnds
    OverlapEnds
    ClaimNotStolen
