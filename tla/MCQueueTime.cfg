\* One client over more than one lifetime of the keys, with breaker trips.
CONSTANTS
    t1 = t1
    t2 = t2
    c1 = c1
    Tasks = {t1, t2}
    Clients = {c1}
    Priorities = {1}
    Delays = {0}
    DefaultDepth = 2
    DefaultMC = 1
    TTL = 3
    ScanLimit = 1
    Scale = 10
    MaxAge = 2
    MaxEnqueues = 2
    FailureThreshold = 2
    OpenDuration = 1
    HalfOpenMax = 1
    MaxTime = 5
SYMMETRY Symmetry
SPECIFICATION Spec
CHECK_DEADLOCK FALSE
INVARIANTS
    PendingKeptHalfTTL
    OpenAlwaysExpires
