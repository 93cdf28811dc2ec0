SPECIFICATION Spec
CONSTANTS
    Callers = {c1, c2}
    Walkers = {c1}
    MaxWalk = 2
    MaxOther = 1
    INT_RANGE = 6
    SNDBUF = 10
    Results = {0, 3}
    Batch = 2
    NameSize = 2
    QuerySize = 5
    SelectorSize = 7
    DocSize = 6
INVARIANTS
    OwnAnswer
    RequestsHeard
    FailsOnlyDisturbed
    CursorWalks
    NoCallStranded
CHECK_DEADLOCK FALSE
