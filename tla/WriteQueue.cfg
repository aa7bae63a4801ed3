SPECIFICATION FairSpec
CONSTANTS
    Callers = {c1, c2, c3}
    Capacity = 1
    None = None
INVARIANTS
    SendNeverBlocks
    AnswersTellOutcome
    NothingLeftAtClose
PROPERTIES
    CallsEnd
CHECK_DEADLOCK FALSE
