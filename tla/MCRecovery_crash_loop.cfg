SPECIFICATION Spec
CONSTANTS
    Procs = {p1, p2, p3}
    Tasks = {t1}
    None = None
    TTL = 1
    Slots = 1
    Crowded = FALSE
    MaxRecoveries = 1
    MaxIterations = 3
    Delays = {0}
    Waits = {}
    Faults = {"crash"}
    Survivor = None
SYMMETRY ProcSymmetry
INVARIANTS
    CrashLoopEnds
