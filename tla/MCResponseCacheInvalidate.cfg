SPECIFICATION Spec
CONSTANTS
    Calls = {c1, c2, c3}
    Processes = {p1, p2}
    q1 = q1
    q2 = q2
    q3 = q3
    Queries <- MCQueries
    Score <- MCScore
    Threshold = 95
    Workload <- MCWorkload
    MaxFailures = 1
    MaxEvents = 0
    None = None
INVARIANT InvalidateRemoves
CHECK_DEADLOCK FALSE
