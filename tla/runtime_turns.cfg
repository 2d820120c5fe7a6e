SPECIFICATION MCSpec
CONSTANTS
    MaxTurns = 2
    MaxSteers = 2
    MaxOwn = 1
    MaxUpsets = 1
INVARIANTS NothingLeftBehind CodexLeavesNothing CodexOutcomeIsOwn
PROPERTIES EveryStreamEnds OneProcess
CHECK_DEADLOCK FALSE
