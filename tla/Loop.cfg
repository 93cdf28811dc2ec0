SPECIFICATION Spec
CONSTANTS
    Timer = {t1, t2}
    Stream = {s1}
    MaxCallbacks = 3
INVARIANTS
    TypeOK
    RefAccounting
    PendingHasCallback
PROPERTIES
    NoEarlyReturn
    IdleLoopReturns
    CallbacksRun
    ImplementsEventLoop
