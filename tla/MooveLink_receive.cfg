\* A link with three readers of its provider record, one of them scheduled.
SPECIFICATION FairSpec
CONSTANTS
    None = None
    Creator = Creator
    r1 = r1
    r2 = r2
    r3 = r3
    Readers = {r1, r2, r3}
    Reconcilers = {r1}
    MaxFaults = 3
INVARIANTS  AnnouncedOnce FailedIsNotPayable
PROPERTIES PaymentArrives
CHECK_DEADLOCK FALSE
