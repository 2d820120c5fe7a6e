CONSTANTS
    c1 = c1
    c2 = c2
    Threads <- TwoThreads
    Groups <- NoGroups
    Cmds <- TwoCmds
    Kinds <- SendsChecks
    CheckLimit = 1
    Results <- TakenOrLost
    Arrivals <- Waking
    Decisions <- NoDecisions
    MaxInbound = 2
    MaxSends = 2
    MaxRestarts = 1
    MaxFailures = 0
SPECIFICATION FairSpec
INVARIANTS
    SentOnAKnownConversation
    HoldSendsNothing
    ListedOnceOrCut
PROPERTIES
    OnlyTakenDraftsGo
    CommandsEnd
CHECK_DEADLOCK FALSE
