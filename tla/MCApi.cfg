SPECIFICATION ApiSpec
CONSTANTS
    Users = {u1}
    Callers = {u1}
    Dues = {d1, d2}
    PaymentIds <- AllPaymentIds
    Amounts = {2, 3}
    GenIds = {g1, g2}
    Keys = {k1}
    Requests = {r1, r2}
    WithCallback = {}
    Costs = {3}
    Providers = {fal}
    MaxClaims = 0
    None = None
    Limit = 2
    WindowSeconds = 2
    BlockSeconds = 2
    Pauses = {600}
    Span = 1500
    MaxLosses = 1
SYMMETRY Interchangeable
INVARIANTS ApiTypeOK RetryAfterIsEnough BurstBounded PaymentsCredited AcceptedOnce
