SPECIFICATION FairSpec
CONSTANTS
    Callers = {c1, c2, c3, c4, c5}
    Size = 2
INVARIANTS
    TypeOK
    CountIsExact
    NoIdleSlot
PROPERTIES
    FirstComeFirstServed
    EveryoneIsAnswered
