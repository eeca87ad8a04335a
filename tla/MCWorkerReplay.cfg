CONSTANTS
    a = a
    b = b
    c = c
    d = d
    x = x
    l = l
    o1 = o1
    o2 = o2
    ua = ua
    ub = ub
    uc = uc
    None = None
    Blob = Blob
    Cid <- MCCid
    Task <- MCTask
    Out <- MCOut
    Schedule <- MCSchedule
    Rsc <- MCRsc
    Deps <- MCDeps
    WasmRun <- MCWasmRun
    Imports <- MCImports
    NetReceipts <- MCNet
    MaxRuns = 2
SPECIFICATION Spec
INVARIANT ReplayFindsReceipts
CHECK_DEADLOCK FALSE
