SPECIFICATION FairSpec
CONSTANTS
    a1 = a1
    a2 = a2
    Actors <- TwoActors
    LastRuntime = 1
    MaxTurns = 2
    MaxUpsets = 1
INVARIANTS
    AnnouncedOnce
    AtRestBetweenTurns
    HolderIsRight
PROPERTIES
    TurnsEnd
CHECK_DEADLOCK FALSE
