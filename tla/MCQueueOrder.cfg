\* One client, three tasks of two priorities, delayed or not, for two places.
CONSTANTS
    t1 = t1
    t2 = t2
    t3 = t3
    c1 = c1
    Tasks = {t1, t2, t3}
    Clients = {c1}
    Priorities = {1, 2}
    Delays = {0, 1}
    DefaultDepth = 3
    DefaultMC = 2
    TTL = 2
    ScanLimit = 2
    Scale = 10
    MaxAge = 1
    MaxEnqueues = 1
    FailureThreshold = 1
    OpenDuration = 1
    HalfOpenMax = 1
    MaxTime = 1
SYMMETRY Symmetry
SPECIFICATION Spec
CHECK_DEADLOCK FALSE
INVARIANTS
    RunningWithinBaseline
PROPERTIES
    ReadyAndFirst
