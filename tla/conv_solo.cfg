CONSTANTS
    c1 = c1
    c2 = c2
    Threads <- TwoThreads
    Groups <- FirstGroup
    Cmds <- OneCmd
    Kinds <- AllKinds
    CheckLimit = 3
    Results <- AllResults
    Arrivals <- Asked
    Decisions <- OneDecision
    MaxInbound = 2
    MaxSends = 2
    MaxRestarts = 1
    MaxFailures = 1
SPECIFICATION Spec
INVARIANTS
    NothingArrivedWhileWriting
PROPERTIES
    SettledDraftNotResent
CHECK_DEADLOCK FALSE
