\* Workers that, like all code in src/, never fire START.
CONSTANTS
    Nobody = Nobody
    Creators = {c1}
    Workers = {w1}
    Cancellers = {}
    Reconcilers = {r1}
    Compensators = {}
    MaxRetries = 1
    DefaultRetries = 3
    MaxTxRetries = 1
    AttemptCap = 1
    MaxFaults = 0
    WorkerStarts = FALSE
SPECIFICATION Spec
CHECK_DEADLOCK FALSE
INVARIANT
    CompletionPersisted
