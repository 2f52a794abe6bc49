\* The organization may be deleted and then nothing is left to do: deadlock is not checked.
\* One event and one scheduled run, two callers, a rule with or without approval.
SPECIFICATION FairSpec
CONSTANTS
    None = None
    c1 = c1
    c2 = c2
    m1 = m1
    u1 = u1
    u2 = u2
    u3 = u3
    Callers = {c1, c2}
    Jobs = {k1}
    Events = {m1}
    Users = {u1, u2}
    Creator = u1
    Actions = {"CONTRACT_CALL", "X402_PAYMENT"}
    Thresholds = {0, 1}
    MaxPerDay = 1
    MaxSlot = 1
    MaxVersion = 4
INVARIANTS SentOnce ApprovedIndependently DailyLimitHolds OutcomeIsTrue
PROPERTIES DoubtResolves DeferredResumes
CHECK_DEADLOCK FALSE
