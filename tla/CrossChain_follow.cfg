\* Two transfers, passes of one, two requests that report a hash.
SPECIFICATION TransferFairSpec
CONSTANTS
    Null = Null
    t1 = t1
    t2 = t2
    a = a
    x = x
    Transfers = {t1, t2}
    Hashes = {a, x}
    RequestOf <- Carried
    Calls = {c1, c2}
    Passes = {p1, p2}
    Limit = 1
    MaxMisreads = 1
INVARIANTS OutcomeIsEvidence
PROPERTIES TransferEnds
CHECK_DEADLOCK FALSE
