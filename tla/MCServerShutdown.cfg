SPECIFICATION FairSpec
CONSTANTS
    Conn = {c1, c2, c3}
    PromptAccept = TRUE
INVARIANTS
    TypeOK
    AtMostOneOutlives
PROPERTY
    ShutdownEnds
    DeadAreForgotten
CHECK_DEADLOCK FALSE
