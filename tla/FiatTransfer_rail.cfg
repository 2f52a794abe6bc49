\* Two requests with one key, a sweep, a webhook delivery, a kill switch.
SPECIFICATION ApartSpec
CONSTANTS
    None = None
    c1 = c1
    c2 = c2
    k1 = k1
    h1 = h1
    a1 = a1
    Posts = {c1, c2}
    Sweeps = {k1}
    Hooks = {h1}
    Totals = {a1}
    MaxFaults = 2
    MaxStops = 1
INVARIANTS OutcomeIsProviders CountedOnce
PROPERTIES DoubtResolves FinalArrives
CHECK_DEADLOCK FALSE
