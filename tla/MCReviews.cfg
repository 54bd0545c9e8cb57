SPECIFICATION FairSpec
CONSTANTS
    NumSteps = 2
    RunSteps = {1}
    Reviewers = {r1, r2}
    Clients = {c1, c2}
    MaxTasks = 2
    MaxWaits = 1
    MaxIterations = 2
    MaxRequests = 3
    MaxFaults = 1
    None = None
    Gone = Gone
INVARIANTS
    TypeOK
    ReviewIsSound
PROPERTIES
    OnlyOverlapsLose
    RunsAreSettled
CHECK_DEADLOCK FALSE
