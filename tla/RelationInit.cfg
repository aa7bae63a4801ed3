SPECIFICATION InitSpec
CONSTANTS
    r1 = r1
    r2 = r2
    col1 = col1
    p1 = p1
    i1 = i1
    i2 = i2
    i3 = i3
    f1 = f1
    v1 = v1
    None = None
    Withdraw = Withdraw
    CodeRelations = {r1, r2}
    ForeignKeys = {}
    Columns = {col1}
    Contents <- MCContents
    FirstContent <- MCFirstContent
    KeySource <- MCKeySource
    Snapshots <- MCSnapshots
    Scopes <- MCSnapshots
    AgentRequests <- MCAgentRequests
    ReviewerRequests = {v1}
    AdminRequests = {}
    MaxRevisions = 2
    MaxPrepared = 0
    Sessions = {s1, s2}
    Repositories = {p1}
    Targets <- MCTargets
    InitRequests <- MCInitRequests
    Initializer <- MCInitializer
    Keys = {k1}
    Findings = {f1}
    Payloads <- MCPayloads
    MaximumBatchItems = 2
    MaximumCompletionCandidates = 1
    MaxBatches = 1
    MaxCompletions = 1
SYMMETRY MCSessionSymmetry
INVARIANTS
    AcceptedIsRecorded
    OnlyOmittedInvalidated
    ReproposalsKept
    CompletionBounded
PROPERTIES
    IncompleteChangesNothing
CHECK_DEADLOCK FALSE
