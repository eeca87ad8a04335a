CONSTANTS
    c1 = c1
    c2 = c2
    w1 = w1
    InfoClient = {c1}
    ReceiptClient = {c2}
    Workflow = {w1}
    Wf <- MCWf
    Peer = {p1, p2}
    Self = self
    Requester = {p1}
    Receipt = {r1}
    EventsBufferLen = 2
    MaxLoad = 2
SPECIFICATION Spec
INVARIANTS
    TypeOK
    OneSender
    OnlyUnprovidedLeak
    
PROPERTIES
    RunnerIsAnswered
    
CHECK_DEADLOCK FALSE
