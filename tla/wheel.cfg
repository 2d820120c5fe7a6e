CONSTANTS
    t1 = t1
    t2 = t2
    Timers <- TwoTimers
    NearSize = 2
    LevelSize = 2
    LevelCount = 2
    Width <- WidthsOfTwoLevels
    TickMs = 2
    Delays = {0, 3, 9}
    Stalls = {1, 3}
    MaxClock = 5
    MaxResets = 1
SPECIFICATION FairSpec
INVARIANTS
    WheelHoldsActive
PROPERTIES
    KeepsDeadlines
    WaitersHear
CHECK_DEADLOCK FALSE
