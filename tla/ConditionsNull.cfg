SPECIFICATION TraceSpec
CONSTANTS
    n1 = n1
    n2 = n2
    n3 = n3
    n4 = n4
    Absent = Absent
    Nodes = {n1, n2, n3, n4}
    Edges <- MCEdges
    Graphs <- MCGraphs
    Contexts <- MCNullContext
    Booleans <- MCBooleans
    Values <- MCValues
    ConditionsOf <- MCConditionsOf
    Declared = {3, 4}
    TraceRequests <- MCPlainRequests
    MaxChanges = 0
    MaxDepth = 16
    MaxNodes = 256
    MaxListItems = 100
INVARIANTS
    UnknownIsTold
CHECK_DEADLOCK FALSE
