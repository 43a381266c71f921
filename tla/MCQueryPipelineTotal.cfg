SPECIFICATION Spec
CONSTANTS
    Requests = {r1, r2}
    Workers = {w1, w2}
    k1 = k1
    k2 = k2
    k3 = k3
    small = small
    large = large
    Topics <- MCTopics
    Models <- MCModels
    Alike <- MCAlike
    RouteOf <- MCRouteOf
    QueryMarks <- InputMarks
    AnswerMarks = {"harmful"}
    MaxCrashes = 0
    None = None
INVARIANT TotalRequestsCountsRequests
CHECK_DEADLOCK FALSE
