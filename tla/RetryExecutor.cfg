SPECIFICATION FairSpec
CONSTANTS
    Caller = {c1, c2, c3}
    MaxAttempts = 2
    Capacity = 1
    FailureThreshold = 2
    SuccessThreshold = 2
    OpenDuration = 2
    CountBound = 2
INVARIANTS TypeOK HalfOpenOnlyAfterRest
PROPERTIES OpensOnlyOnFailuresInARow ClosesOnlyAfterProbes Recovery
