SPECIFICATION FairSpec
CONSTANTS
    Key = {k1, k2}
    Str <- MCStr
    Score = {1, 2}
    MaxInt = 1
    NotAnInteger = NotAnInteger
    ParseInt <- MCParseInt
    FormatInt <- MCFormatInt
    Concat <- MCConcat
    Length <- MCLength
    Precedes <- MCPrecedes
    Value = {"1", "x"}
    Field = {"x"}
    Member = {"1", "x"}
    Options <- MCOptions
    TTL = {0, 1}
    Delta <- MCDelta
    Index = {0}
    Epoch = 2
    MaxTime = 4
    MaxLen = 2
    Beside = {"x"}
    Took = {0, 1}
INVARIANTS
    TypeOK
    NoEmptyContainers
    UnloggedLeaveNoTrace
    ListRanges
    RanksAgree
    CounterExact
PROPERTY
    ExpiryIsInstantaneous
    SweptEventually
VIEW MCView
CHECK_DEADLOCK FALSE
