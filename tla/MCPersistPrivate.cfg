SPECIFICATION Spec
CONSTANTS
    k1 = k1
    k2 = k2
    k3 = k3
    c1 = c1
    c2 = c2
    Conn = {c1, c2}
    Requests <- PrivateRequests
    Faults = {"power", "sync"}
    MaxRequests = 5
    MaxCrashes = 2
    MaxTime = 1
    Key = {k1, k2, k3}
    Str <- MCStr
    Score = {}
    MaxInt = 1
    NotAnInteger = NotAnInteger
    ParseInt <- MCParseInt
    FormatInt <- MCFormatInt
    Concat <- MCConcat
    Length <- MCLength
    Precedes <- MCPrecedes
    Value = {"0", "1", "x"}
    Field = {}
    Member = {"0", "1", "x"}
    Options <- MCOptions
    TTL = {}
    Delta = {1}
    Index = {}
    Took = {0}
INVARIANTS
    TypeOK
    ReplayReconstructs
    LoggedBeforeReply
PROPERTIES
    ExecAllOrNothing
CHECK_DEADLOCK FALSE
