CONSTANTS
    c1 = c1
    c2 = c2
    Sends <- OneSend
    Approvals <- OneApproval
    Messages <- OneMessage
    StartTries = 2
    AuthTries = 2
    MaxUpsets = 2
SPECIFICATION FairSpec
INVARIANTS
    OutcomeTrue
    OneAtATime
PROPERTIES
    CallsEnd
    AlwaysBack
CHECK_DEADLOCK FALSE
