CONSTANTS
    MaxNotes = 6
    MaxJobs = 2
SPECIFICATION LoopFairSpec
INVARIANTS
    AccountedInOrder
PROPERTIES
    IdleIsTimed
    AllSettled
CHECK_DEADLOCK FALSE
