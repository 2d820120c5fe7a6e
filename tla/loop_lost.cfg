CONSTANTS
    MaxNotes = 3
    MaxJobs = 0
SPECIFICATION LoopSpec
INVARIANT NoneLost
CHECK_DEADLOCK FALSE
