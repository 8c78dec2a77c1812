SPECIFICATION Spec
CONSTANTS
    k1 = k1
    k2 = k2
    k3 = k3
    c1 = c1
    c2 = c2
    Conn = {c1, c2}
    Requests <- BatchRequests
    Faults = {}
    MaxRequests = 5
    MaxCrashes = 0
    MaxTime = 1
    Key = {k1}
    Str <- MCStr
    Score = {}
    MaxInt = 1
    NotAnInteger = NotAnInteger
    ParseInt <- MCParseInt
    FormatInt <- MCFormatInt
    Concat <- MCConcat
    Length <- MCLength
    Precedes <- MCPrecedes
    Value = {"0", "1", "x"}
    Field = {}
    Member = {"0", "1", "x"}
    Options <- MCOptions
    TTL = {}
    Delta = {1}
    Index = {}
    Took = {0}
PROPERTIES
    ExecIsolated
CHECK_DEADLOCK FALSE
