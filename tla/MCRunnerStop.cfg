CONSTANTS
    Workflow = {w1}
    MaxRuns = 2
    MaxStops = 1
    MaxSignals = 0
    MsgCap = 1
    ReqCap = 1
SPECIFICATION FairSpec
PROPERTY StopShutsDown
CHECK_DEADLOCK FALSE
