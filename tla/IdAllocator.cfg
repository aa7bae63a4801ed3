SPECIFICATION FairSpec
CONSTANTS
    Callers = {c1, c2}
    Publisher = Publisher
    Writer = Writer
    None = None
    PerMillisecond = 2
    MaxTimestamp = 3
    LeaseSize = 2
    EnsuredSize = 3
    MaxTaken = 2
    MaxOutstanding = 3
INVARIANTS
    IdentifiersIncrease
    WriterFindsLease
PROPERTIES
    AllocationsEnd
