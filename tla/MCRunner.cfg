CONSTANTS
    Workflow = {w1, w2}
    MaxRuns = 2
    MaxStops = 1
    MaxSignals = 1
    MsgCap = 1
    ReqCap = 1
SPECIFICATION FairSpec
INVARIANTS TypeOK KeptHasTimeout
  
CHECK_DEADLOCK FALSE
