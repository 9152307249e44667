\* Execution, cancellation and stuck-task recovery, one fault.
CONSTANTS
    Nobody = Nobody
    Creators = {c1}
    Workers = {w1}
    Cancellers = {x1}
    Reconcilers = {r1}
    Compensators = {}
    MaxRetries = 1
    DefaultRetries = 3
    MaxTxRetries = 1
    AttemptCap = 1
    MaxFaults = 1
    WorkerStarts = TRUE
SPECIFICATION Spec
CHECK_DEADLOCK FALSE
PROPERTY
    TerminalStaysTerminal
