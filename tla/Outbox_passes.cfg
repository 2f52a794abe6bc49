\* An event for two endpoints, then a direct one; two passes of one event each.
SPECIFICATION OneOpenSpec
CONSTANTS
    None = None
    Lost = Lost
    Direct = Direct
    n1 = n1
    n2 = n2
    w1 = w1
    w2 = w2
    Last = 2
    DirectEvents = {2}
    Endpoints = {n1, n2}
    Pausable = {n2}
    Workers = {w1, w2}
    MaxAttempts = 2
    Limit = 1
    Slow = {2}
    MaxMishaps = 2
INVARIANTS DeliveredOnce ProcessedReached DeadLetterEarned
PROPERTIES EventsSettle
CHECK_DEADLOCK FALSE
