\* Creation and repair: two faults, a reconciler and a compensation service.
CONSTANTS
    Nobody = Nobody
    Creators = {c1, c2}
    Workers = {}
    Cancellers = {}
    Reconcilers = {r1}
    Compensators = {k1}
    MaxRetries = 1
    DefaultRetries = 3
    MaxTxRetries = 1
    AttemptCap = 1
    MaxFaults = 2
    WorkerStarts = TRUE
SPECIFICATION Spec
CHECK_DEADLOCK FALSE
INVARIANT
    DurableFirst
PROPERTY
    RepairsConverge
