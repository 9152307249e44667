\* The parts that bring a task to execution, one at a time.
CONSTANTS
    r1 = r1  r2 = r2  NoRun = NoRun  Runs = {r1, r2}
    LockTTL = 4  RenewInterval = 2  MaxDelay = 3  RedisErrors = TRUE  Stops = TRUE
    Instances = {a, b}  Minute = 1  Period = 2  PollInterval = 1  LeaderTTL = 2
    Horizon = 2  MaxEvents = 1
    Caps = {a, b}  Jobs = {x, y, z}  CapOf <- capOf  MaxConcurrent = 2  Burst = 2
    MaxEmpty = 2  MaxBackoff = 2  MaxErrors = 1
    a = a  b = b  x = x  y = y  z = z  None = None
SPECIFICATION DispatchSpec
CHECK_DEADLOCK FALSE
INVARIANTS
    TypesOK
    FreshOwnsLock
    PermitsConserved
    CronSound

    
