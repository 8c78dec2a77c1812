SPECIFICATION FairSpec
CONSTANTS
    a = a
    b = b
    Conn = {c1, c2}
    Channel = {a, b}
    Requests <- MCRequests
    InboxSize = 1
    MaxRequests = 3
INVARIANTS
    TypeOK
    HubAgrees
    NoLeak
    PublishOrder
PROPERTIES
    PublishCompletes
    DisconnectedLeaves
CHECK_DEADLOCK FALSE
