\* One purchase, two executors, two attempts: leases, approvals and policy changes.
SPECIFICATION LateSpec
CONSTANTS
    None = None
    p1 = p1
    p2 = p2
    w1 = w1
    w2 = w2
    a1 = a1
    a2 = a2
    Purchases = {p1}
    Executors = {w1, w2}
    Auths = {a1}
    Amount <- EqualPurchases
    ChargeAmounts = {2}
    OtherCharges = FALSE
    SpendingLimit = 4
    AutoLimit = 1
    OverLimitAction = "REQUIRE_APPROVAL"
    MaxAttempts = 2
    MaxPolicyVersion = 3
INVARIANTS TypeOK CredentialsOnce ExposedStaysOpen OutcomeIsProviders
PROPERTIES StaleSubmissionSurfaces
