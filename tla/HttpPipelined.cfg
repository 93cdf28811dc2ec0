SPECIFICATION Spec
CONSTANTS
    MsgLen = 2
    MaxRequests = 2
    MaxConns = 1
    Pipelining = TRUE
INVARIANTS
    ParsedOnce
CHECK_DEADLOCK FALSE
