SPECIFICATION Spec
CONSTANTS
    Jobs = {1}
    Stamps = {1}
    MaxPending = 1
    MaxRestarts = 0
INVARIANTS
    FailedAttemptsVisible
CHECK_DEADLOCK FALSE
