SPECIFICATION TracedSpec
CONSTANTS
    r1 = r1
    k1 = k1
    k2 = k2
    col1 = col1
    col2 = col2
    col3 = col3
    None = None
    Absent = Absent
    CodeRelations = {r1}
    ForeignKeys = {k1, k2}
    Nodes = {col1, col2, col3}
    Columns = {col1, col2, col3}
    Contents <- MCContents
    FirstContent <- MCFirstContent
    KeySource <- MCKeySource
    Snapshots <- MCAll
    Scopes <- MCAll
    AgentRequests = {g1}
    ReviewerRequests = {}
    AdminRequests = {m1}
    MaxRevisions = 2
    MaxPrepared = 1
    Number <- MCNumber
    Endpoints <- MCEnds
    Edges <- MCEdges
    Declared <- MCDeclared
    Graphs = {{}}
    Contexts <- MCContexts
    Booleans <- MCBooleans
    Values <- MCValues
    ConditionsOf <- MCConditionsOf
    MaxDepth = 16
    MaxNodes = 256
    MaxListItems = 100
    TraceRequests <- MCRequests
    MaxChanges = 2
INVARIANTS
    ListedWereInForce
    InForceIsListed
CHECK_DEADLOCK FALSE
PROPERTIES
    ImplementsGraphTrace
