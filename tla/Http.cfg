SPECIFICATION Spec
CONSTANTS
    MsgLen = 3
    MaxRequests = 4
    MaxConns = 2
    Pipelining = FALSE
INVARIANTS
    RequestsHandledInOrder
    ResponsesMatchRequests
CHECK_DEADLOCK FALSE
