\* Two payments of one agent that fit the budget one at a time.
SPECIFICATION Spec
CONSTANTS
    NoLimit = NoLimit
    None = None
    i1 = i1
    i2 = i2
    r1 = r1
    r2 = r2
    r3 = r3
    u1 = u1
    u2 = u2
    u3 = u3
    Intents = {i1, i2}
    Requests = {r1, r2}
    Users = {}
    Jobs = {k1}
    SelfCustody = {i2}
    Amount <- TwoPayments
    Balance = 6
    Policy <- DenyPolicy
    RequiredApprovals = 1
    RequiredRejections = 1
    MaxPolicyVersion = 2
    Misreports = FALSE
    Crashes = TRUE
SYMMETRY RequestSymmetry
INVARIANTS NoDoublePayment SpendWithinLimits
PROPERTIES KeepsPromise
