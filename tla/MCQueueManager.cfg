\* Two clients racing on two tasks, with crashes, breaker trips and expiry.
CONSTANTS
    t1 = t1
    t2 = t2
    c1 = c1
    c2 = c2
    Tasks = {t1, t2}
    Clients = {c1, c2}
    Priorities = {1}
    Delays = {0}
    DefaultDepth = 1
    DefaultMC = 2
    TTL = 2
    ScanLimit = 1
    Scale = 10
    MaxAge = 1
    MaxEnqueues = 1
    FailureThreshold = 1
    OpenDuration = 1
    HalfOpenMax = 1
    MaxTime = 2
SYMMETRY Symmetry
SPECIFICATION Spec
CHECK_DEADLOCK FALSE
INVARIANTS
    WithinDepth
    DeliveredOncePerEnqueue
