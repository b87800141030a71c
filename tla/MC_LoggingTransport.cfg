CONSTANTS
    r1 = r1
    r2 = r2
    Reqs <- MCReqs
    Chunks = 2
    Closes = 2
SPECIFICATION Spec
CHECK_DEADLOCK FALSE
INVARIANTS
    AtMostOneLogPerRequest
PROPERTIES
    EveryChatRequestLogged
