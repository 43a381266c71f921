SPECIFICATION FairSpec
CONSTANTS
    Calls = {c1}
    RetryChoices = {0, 1, 3}
    ClientRetries = 2
INVARIANTS
    TypeOK
    CostBounded
    OutcomesAreEarned
PROPERTIES
    NothingSentForTheGone
    EveryCallEnds
CHECK_DEADLOCK FALSE
