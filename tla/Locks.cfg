SPECIFICATION LocksSpec
CONSTANTS
    Co = {c1, c2, c3}
    NoCo = NoCo
    MaxWaits = 2
    MaxKills = 0
    Timed = TRUE
    MaxSets = 2
INVARIANTS
    LinksAreParked
    EventCoversWaiters
    AsyncLeavesNobody
PROPERTIES
    WaitersWoken
