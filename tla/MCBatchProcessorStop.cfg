SPECIFICATION FairSpec
CONSTANTS
    h = h
    s1 = s1
    s2 = s2
    Requests <- MCRequests
    High <- MCHigh
    Cancellable = {}
    Loops = {l1}
    BatchSize = 1
PROPERTIES
    StopDrains
CHECK_DEADLOCK FALSE
