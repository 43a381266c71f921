SPECIFICATION Spec
CONSTANTS
    Calls = {c1, c2, c3}
    Processes = {p1, p2}
    q1 = q1
    q2 = q2
    q3 = q3
    Queries <- MCQueries
    Score <- MCScore
    Threshold = 95
    Workload <- MCWorkload
    MaxFailures = 1
    MaxEvents = 1
    None = None
INVARIANTS
    TypeOK
    ReadsLatestWrite
    InvalidateRemovesWhileUp
    ExpiryHoldsWhileUp
    ResponsesFit
PROPERTY
    ImplementsCacheContract
SYMMETRY Interchangeable
CHECK_DEADLOCK FALSE
