SPECIFICATION Spec
CONSTANTS
    Co = {c1, c2}
    NoCo = NoCo
    MaxWaits = 2
    MaxTasks = 3
    MaxDepth = 2
    MaxKills = 1
INVARIANTS
    ParkedOnce
    TimersInScope
    KillsItsTarget
    PoolSound
PROPERTIES
    SpawnedTaskRuns
    SleeperWakes
