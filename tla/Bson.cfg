SPECIFICATION Spec
CONSTANTS
    DEFAULT_CAP = 8
    INT_RANGE = 4096
    MAX_DEPTH = 2
    Tables <- MCTables
    Arguments <- MCArguments
    Values <- MCValues
    MaxReplaces = 2
INVARIANTS
    DecodesBack
    RefusesUnencodable
    BufferHolds
    IndexFindsValues
CHECK_DEADLOCK FALSE
