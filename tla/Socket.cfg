SPECIFICATION Spec
CONSTANTS
    Co = {c1, c2}
    NoCo = NoCo
    MaxWaits = 2
    MaxKills = 1
    Timed = TRUE
    MaxSocks = 2
    MaxFds = 2
    MaxChanges = 1
INVARIANTS
    WatchersMatchCalls
    NoClosedSocketPolled
    OwnDescriptor
PROPERTIES
    CloseReleases
