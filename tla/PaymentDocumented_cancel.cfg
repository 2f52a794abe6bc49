\* A cancellation that read its intent before the claim.
SPECIFICATION Spec
CONSTANTS
    NoLimit = NoLimit
    None = None
    i1 = i1
    i2 = i2
    r1 = r1
    r2 = r2
    r3 = r3
    u1 = u1
    u2 = u2
    u3 = u3
    Intents = {i1}
    Requests = {r1, r2}
    Users = {}
    Jobs = {k1}
    SelfCustody = {}
    Amount <- EqualPayments
    Balance = 6
    Policy <- DenyPolicy
    RequiredApprovals = 1
    RequiredRejections = 1
    MaxPolicyVersion = 1
    Misreports = FALSE
    Crashes = FALSE
INVARIANT CanceledNeverClaimed
