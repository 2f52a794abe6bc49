\* One payment under approval by two of three members, with the sweeps scheduled.
SPECIFICATION FairSpec
CONSTANTS
    NoLimit = NoLimit
    None = None
    i1 = i1
    i2 = i2
    r1 = r1
    r2 = r2
    r3 = r3
    u1 = u1
    u2 = u2
    u3 = u3
    Intents = {i1}
    Requests = {r1, r2}
    Users = {u1, u2, u3}
    Jobs = {k1}
    SelfCustody = {}
    Amount <- EqualPayments
    Balance = 6
    Policy <- ApprovalPolicy
    RequiredApprovals = 2
    RequiredRejections = 2
    MaxPolicyVersion = 2
    Misreports = FALSE
    Crashes = TRUE
INVARIANTS ApprovalBeforeClaim
PROPERTIES DecidedSubmissionsResolve DoubtSurfaces LapsedBudgetReturns
