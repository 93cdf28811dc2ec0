SPECIFICATION Spec
CONSTANTS
    Co = {c1, c2, c3}
    NoCo = NoCo
    MaxWaits = 1
    MaxKills = 1
    Timed = TRUE
    Item = {i1}
    MaxSize = 1
INVARIANTS
    NoLostWakeup
    WithinCapacity
    ListsAreParked
    FlagMeansEmpty
PROPERTIES
    BlockedAreServed
