SPECIFICATION WorkersSpec
CONSTANTS
    Users = {u1}
    PaymentIds = {p1}
    Amounts = {1}
    GenIds = {g1}
    Keys = {k1}
    Requests = {hooked}
    WithCallback = {hooked}
    Costs = {1}
    Providers = {fal, fake}
    MaxClaims = 10
    None = None
    Workers = {w1, w2}
    Primary = fal
    Fallback = fake
    MaxRetries = 1
    MaxCopies = 2
    MaxFaults = 1
SYMMETRY Interchangeable
PROPERTIES ProviderKeptAfterRequest
CHECK_DEADLOCK FALSE
