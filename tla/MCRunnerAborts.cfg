CONSTANTS
    Workflow = {w1}
    MaxRuns = 2
    MaxStops = 0
    MaxSignals = 0
    MsgCap = 1
    ReqCap = 1
SPECIFICATION Spec
INVARIANT AbortsOwnRun
CHECK_DEADLOCK FALSE
