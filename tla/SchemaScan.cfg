SPECIFICATION FairSpec
CONSTANTS
    Jobs = {1, 2}
    Stamps = {1, 2}
    MaxPending = 2
    MaxRestarts = 1
INVARIANTS
    FinishNeverConflicts
    SucceededWasPublished
    FailedNotPublished
PROPERTIES
    TerminalForever
    JobsEnd
    WorkerStops
CHECK_DEADLOCK FALSE
