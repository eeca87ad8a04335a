CONSTANTS
    Workflow = {w1}
    MaxRuns = 2
    MaxStops = 0
    MaxSignals = 1
    MsgCap = 1
    ReqCap = 1
SPECIFICATION FairSpec
PROPERTY SignalShutsDown
CHECK_DEADLOCK FALSE
