\* Two outbox rows and two dispatchers that overlap, a restart and a replay; or a
\* task whose inline posts fail and two processors of the retry queue.
CONSTANTS
    NoRow = NoRow  Rows = {r1, r2}  Dispatchers = {d1, d2}  Operators = {o1}
    Admins = {}  MaxAttempts = 2  Backoff <- BackoffDef  BatchLimit = 2
    MaxCrashes = 1
    Tasks = {t1}  Workers = {w1, w2}  InlineRetries = 2  MaxDurable = 2
    BatchSize = 2  MaxFaults = 2
SPECIFICATION CallbacksSpec
CHECK_DEADLOCK FALSE
INVARIANTS
    DeliveredWasReceived
    GivenUpAfterMaxAttempts
    CallbackSound
PROPERTIES
    OutboxProgress
