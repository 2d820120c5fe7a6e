CONSTANTS
    c1 = c1
    c2 = c2
    c3 = c3
    Callers <- ThreeCallers
    Asks <- AsksOfThree
    MaxReaders = 2
    MaxIdle = 1
    MayAbort = TRUE
    MaxCancels = 1
SPECIFICATION FairSpec
INVARIANTS
    AnsweredIsKept
    PoolAccounts
PROPERTIES
    CallersAnswered
CHECK_DEADLOCK FALSE
