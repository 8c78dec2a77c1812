SPECIFICATION Spec
CONSTANTS
    Conn = {c1}
    PromptAccept = TRUE
INVARIANTS
    AcknowledgedIsLogged
CHECK_DEADLOCK FALSE
