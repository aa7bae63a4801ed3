SPECIFICATION Spec
CONSTANTS
    r1 = r1
    k1 = k1
    col1 = col1
    col2 = col2
    col3 = col3
    None = None
    Withdraw = Withdraw
    CodeRelations = {r1}
    ForeignKeys = {k1}
    Columns <- MCColumns
    Contents <- MCContents
    FirstContent <- MCFirstContent
    KeySource <- MCKeySource
    Snapshots <- MCSnapshots
    Scopes <- MCScopes
    AgentRequests = {g1, g2}
    ReviewerRequests = {}
    AdminRequests = {m1}
    MaxRevisions = 3
    MaxPrepared = 2
SYMMETRY MCSymmetry
INVARIANTS
    InvalidationDescribesActive
    EffectiveIffApproved
    HistoryDeterminesProjection
    ScanNeverRejected
PROPERTIES
    HistoryNeverRewritten
    ImplementsReviewedGraph
