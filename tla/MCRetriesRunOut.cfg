SPECIFICATION FairSpec
CONSTANTS
    Gens = {g1}
    Workers = {w1, w2}
    HttpTime = 1
    PollInterval = 1
    PollDeadline = 1
    Lease = 6
    QueuedRecovery = 1
    Visibility = 7
    Batch = 1
    MaxRetries = 1
    HasFallback = TRUE
    MaxCrashes = 0
    Nothing = Nothing
PROPERTIES RetriesRunOut
