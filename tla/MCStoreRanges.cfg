SPECIFICATION Spec
CONSTANTS
    Key = {k1}
    Str <- MCStr
    Score = {}
    MaxInt = 1
    NotAnInteger = NotAnInteger
    ParseInt <- MCParseInt
    FormatInt <- MCFormatInt
    Concat <- MCConcat
    Length <- MCLength
    Precedes <- MCPrecedes
    Value = {}
    Field = {}
    Member = {"1", "x"}
    Options = {}
    TTL = {}
    Delta = {}
    Index = {0}
    Took = {0}
    Epoch = 2
    MaxTime = 2
    MaxLen = 2
    Beside = {}
INVARIANT
    RedisRanges
CHECK_DEADLOCK FALSE
