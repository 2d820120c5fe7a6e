SPECIFICATION FairSpec
CONSTANTS
    Owner <- OneOwner
    Cmds = {c1}
    Period = 1
    Recheck = 1
    BatchSize = 2
    Delays <- OneDelay
    MaxTime = 2
    MaxCmds = 2
    MaxUpsets = 1
INVARIANTS
    SlotsGoForward
    WokenOrOwed
PROPERTIES
    DueFires
CHECK_DEADLOCK FALSE
