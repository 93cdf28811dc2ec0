SPECIFICATION Spec
CONSTANTS
    Co = {c1, c2}
    NoCo = NoCo
    MaxWaits = 3
    MaxKills = 1
    Timed = TRUE
    MaxSets = 2
PROPERTIES
    SetWakesWaiters
