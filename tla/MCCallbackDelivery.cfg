SPECIFICATION FairSpec
CONSTANTS
    Events = {e1}
    Workers = {w1, w2}
    MaxAttempts = 5
    RetryDelay = 1
    Reservation = 2
    Lease = 4
    PostTime = 1
    MaxCopies = 2
    MaxFaults = 2
    MaxStalls = 1
    None = None
INVARIANTS CallbackTypeOK PostsMatchAttempts OneSender DeliveredWasAccepted
PROPERTIES ClaimStands SpacedUnlessStalled QuietAfterDelivery EveryEventEnds
CHECK_DEADLOCK FALSE
