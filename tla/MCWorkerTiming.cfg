SPECIFICATION FairSpec
CONSTANTS
    Gens = {g1, g2}
    Workers = {w1}
    HttpTime = 1
    PollInterval = 1
    PollDeadline = 1
    Lease = 6
    QueuedRecovery = 1
    Visibility = 7
    Batch = 1
    MaxRetries = 1
    HasFallback = TRUE
    MaxCrashes = 1
    Nothing = Nothing
INVARIANTS TimingTypeOK LeaseOutlivesWork VisibilityOutlivesTask
PROPERTIES EveryRowEnds
