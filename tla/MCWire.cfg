CONSTANTS
    Byte <- MCByte
    Value <- MCValue
    Depth <- MCDepth
    Numeral <- MCNumeral
    NotAnInteger = NotAnInteger
    MaxInt = 15
    Second = 4
    Millisecond = 2
    Values <- MCValues
    MaxFrames = 2
    MaxBytes = 53
    MaxTail = 14
SPECIFICATION Spec
CHECK_DEADLOCK FALSE
INVARIANTS
    InStep
    NothingFromFragment
    SetOptionsAsWritten
    ExpiryAsAsked
