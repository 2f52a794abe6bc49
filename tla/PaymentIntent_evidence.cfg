\* Resources may name one another's transactions; two sweeps overlap.
SPECIFICATION Spec
CONSTANTS
    NoLimit = NoLimit
    None = None
    i1 = i1
    i2 = i2
    r1 = r1
    r2 = r2
    r3 = r3
    u1 = u1
    u2 = u2
    u3 = u3
    Intents = {i1, i2}
    Requests = {r1, r2}
    Users = {}
    Jobs = {k1, k2}
    SelfCustody = {i2}
    Amount <- TwoPayments
    Balance = 9
    Policy <- WidePolicy
    RequiredApprovals = 1
    RequiredRejections = 1
    MaxPolicyVersion = 1
    Misreports = TRUE
    Crashes = TRUE
SYMMETRY SweepSymmetry
INVARIANTS SettledOnEvidence
