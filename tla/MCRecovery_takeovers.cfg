SPECIFICATION Spec
CONSTANTS
    Procs = {p1, p2}
    Tasks = {t1}
    None = None
    TTL = 1
    Slots = 1
    Crowded = TRUE
    MaxRecoveries = 1
    MaxIterations = 2
    Delays = {0}
    Waits = {0, 1}
    Faults = {"crash"}
    Survivor = None
SYMMETRY ProcSymmetry
INVARIANTS
    TypeOK
    RunningIsClaimed
    DrivenIsNotGivenUp
PROPERTIES
    FinishedStaysFinished
    ImplementsExclusiveRuns
CONSTRAINT NotSelfTaken
VIEW View
