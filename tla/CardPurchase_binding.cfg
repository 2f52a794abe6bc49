\* Two alike purchases that fit the card one at a time: whose authorization is it?
\* Or one purchase and other charges.
SPECIFICATION SeparateSpec
CONSTANTS
    None = None
    p1 = p1
    p2 = p2
    w1 = w1
    w2 = w2
    a1 = a1
    a2 = a2
    Purchases = {p1, p2}
    Executors = {w1, w2}
    Auths = {a1, a2}
    Amount <- EqualPurchases
    ChargeAmounts = {2}
    OtherCharges = TRUE
    SpendingLimit = 2
    AutoLimit = 5
    OverLimitAction = "DENY"
    MaxAttempts = 1
    MaxPolicyVersion = 1
SYMMETRY CardSymmetry
INVARIANTS BindingFaithful OneLiveExecution CardSpendWithinLimit
