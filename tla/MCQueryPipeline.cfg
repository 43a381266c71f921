SPECIFICATION Spec
CONSTANTS
    Requests = {r1, r2, r3}
    Workers = {w1, w2}
    k1 = k1
    k2 = k2
    k3 = k3
    small = small
    large = large
    Topics <- MCTopics
    Models <- MCModels
    Alike <- MCAlike
    RouteOf <- MCRouteOf
    QueryMarks <- InputMarks
    AnswerMarks = {"self-harm", "pii"}
    MaxCrashes = 1
    None = None
INVARIANTS
    TypeOK
    PromptsFiltered
    AnswersFiltered
    Provenance
    MetricsMatchOutcomes
SYMMETRY Interchangeable
CHECK_DEADLOCK FALSE
