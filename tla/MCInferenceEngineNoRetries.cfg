SPECIFICATION Spec
CONSTANTS
    Calls = {c1, c2}
    RetryChoices = {0}
    ClientRetries = 2
INVARIANT LastLineUnreachable
CHECK_DEADLOCK FALSE
