CONSTANTS
    cid = cid
    mine = mine
    other = other
    RunClient = {s1}
    EventClient = {e1}
    NodeClient = {n1}
    Cid <- MCCid
    Name <- MCName
    OtherRun <- MCOtherRun
    Capacity = 1
    MaxMsgs = 2
SPECIFICATION Spec
INVARIANTS
    TypeOK
    
    ListenedIsRunning
PROPERTIES
    GoneIsForgotten
    
CHECK_DEADLOCK FALSE
