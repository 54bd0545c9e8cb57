SPECIFICATION FairSpec
CONSTANTS
    Procs = {p1, p2}
    Tasks = {t1}
    None = None
    TTL = 1
    Slots = 1
    Crowded = FALSE
    MaxRecoveries = 1
    MaxIterations = 1
    Delays = {0, 2}
    Waits = {0, 2}
    Faults = {"crash", "write"}
    Survivor = p2
PROPERTIES
    TasksFinish
