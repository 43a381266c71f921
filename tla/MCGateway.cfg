SPECIFICATION FairSpec
CONSTANTS
    r1 = r1
    r2 = r2
    w1 = w1
    w2 = w2
    k1 = k1
    k2 = k2
    small = small
    large = large
    Requests = {r1, r2}
    Workers = {w1, w2}
    Topics <- MCTopics
    Models <- MCModels
    Score <- MCScore
    Threshold = 95
    RouteOf <- MCRouteOf
    Workload <- MCWorkload
    QueryMarks = {"markup", "split", "blank", "injection", "pii"}
    AnswerMarks = {"harmful", "pii"}
    MaxCrashes = 1
    MaxFaults = 1
    None = None
INVARIANTS
    RepeatsAreFree
PROPERTIES
    GaugeSettles
    ImplementsPipeline
CHECK_DEADLOCK FALSE
