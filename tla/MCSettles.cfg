SPECIFICATION FairSpec
CONSTANTS
    Users = {u1}
    PaymentIds = {p1}
    Amounts = {2}
    GenIds = {g1, g2}
    Keys = {k1, k2}
    Requests = {hooked}
    WithCallback = {hooked}
    Costs = {1}
    Providers = {fal, fake}
    MaxClaims = 10
    None = None
    Workers = {w1}
    Primary = fal
    Fallback = fake
    MaxRetries = 1
    MaxCopies = 2
    MaxFaults = 1
PROPERTIES EveryChargeSettles
CHECK_DEADLOCK FALSE
