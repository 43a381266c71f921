SPECIFICATION FairSpec
CONSTANTS
    h = h
    s1 = s1
    s2 = s2
    Requests <- MCRequests
    High <- MCHigh
    Cancellable = {s1, h}
    Loops = {l1, l2}
    BatchSize = 2
INVARIANTS
    TypeOK
    HeldOnce
    UnfinishedIsHeld
    ProcessedIsFlushed
    CrashesAreCancellations
PROPERTIES
    StopMeansDrained
    WorkRunsOut
    ImplementsBatchService
    AnsweredUnlessStranded
    LoopsEnd
CHECK_DEADLOCK FALSE
