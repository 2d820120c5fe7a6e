CONSTANTS
    a1 = a1
    a2 = a2
    r1 = r1
    r2 = r2
    Askers <- TwoAskers
    Requests <- TwoRequests
    PollLimit = 1
    ClockClimbs = TRUE
    MaxClock = 3
    MaxId = 3
    MaxServerStops = 1
    MaxNodeStops = 1
SPECIFICATION ControlFairSpec
INVARIANTS
    NoAskerStranded
    RightAnswer
    RunOnce
PROPERTIES AskedIsRun
CHECK_DEADLOCK FALSE
