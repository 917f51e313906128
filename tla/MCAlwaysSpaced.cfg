SPECIFICATION Spec
CONSTANTS
    Events = {e1}
    Workers = {w1, w2}
    MaxAttempts = 3
    RetryDelay = 1
    Reservation = 2
    Lease = 4
    PostTime = 1
    MaxCopies = 2
    MaxFaults = 0
    MaxStalls = 1
    None = None
SYMMETRY Interchangeable
PROPERTIES AlwaysSpaced
CHECK_DEADLOCK FALSE
