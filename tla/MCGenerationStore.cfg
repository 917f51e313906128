SPECIFICATION StoreSpec
CONSTANTS
    Users = {u1, u2}
    PaymentIds = {p1, p2}
    Amounts = {2}
    GenIds = {g1, g2}
    Keys = {k1}
    Requests = {plain, hooked}
    WithCallback = {hooked}
    Costs = {1, 2}
    Providers = {fal}
    MaxClaims = 2
    None = None
SYMMETRY Interchangeable
INVARIANTS StoreTypeOK ClaimCoherence CreatedIsPending SettlementCoherence
    MoneyConserved
PROPERTIES TerminalImmutable ImplementsBilling
CHECK_DEADLOCK FALSE
