SPECIFICATION Spec
CONSTANTS
    Co = {c1, c2}
    NoCo = NoCo
    MaxWaits = 2
    MaxKills = 0
    Timed = TRUE
    Value = 0
    MaxReleases = 2
INVARIANTS
    NotifySwitchesUnresolved
