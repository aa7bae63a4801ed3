SPECIFICATION BindingSpec
CONSTANTS
    m1 = m1
    m2 = m2
    None = None
    Databases = {}
    Tables = {}
    Columns = {}
    HomeOf <- MCNothing
    TableOf <- MCNothing
    DottedUnder = {}
    ForeignKeys = {}
    SourceColumn <- MCNothing
    TargetColumn <- MCNothing
    Definitions = {}
    MaximumSnapshotNodes = 0
    MaximumSnapshotForeignKeys = 0
    DSNs = {}
    DatabaseIn <- MCNothing
    Environment = None
    Admins = {}
    Designs <- MCDesigns
    Scopes = {}
    Runs = {}
    MaxLooks = 0
    Sources = {s1}
    Names = {n1}
    Repositories = {1, 2, 3, 4}
    Remotes = {m1, m2}
    RemoteOf <- MCSharedRemote
    Legacy = {1, 2, 3}
    BatchSize = 2
    Contexts = {x1}
    Agents = {g1, g2}
    Requests = {q1, q2, q3}
    MaxSent = 3
    MaxCrashes = 1
SYMMETRY MCSymmetry
INVARIANTS
    NoLostUpdate
    RequestActsOnce
    OpenFindsAll
PROPERTIES
    BoundWhenUnambiguous
CHECK_DEADLOCK FALSE
