\* The registries, the API, the control plane and the slots, one at a time.
CONSTANTS
    s1 = s1  s2 = s2  s3 = s3  SlotIds = {s1, s2, s3}
    Limits = {1, 2}  SlotDefault = 2  SlotTTL = 5  SlotMaxAge = 3  MaxHold = 2  SlotHorizon = 6
    a = a  b = b  c = c  k = k  l = l  None = None
    Clients = {a, b, c}  RateWindow = 2  RateMax = 2  RateHorizon = 3  RateFaults = 1
    Bearers = {c}  Tenants = {a, b}  ApiKeys = {k, l}  KeyEvents = 4
    Operators = {a, b}  MaxReplays = 1  ReplayWindow = 1  OperHorizon = 2  OperEvents = 3
    LastId = 3  PageSize = 1  PollTimeout = 1  ApiOps = 3
    Caps = {"embed"}  StatCallers = {a, b}  Stripped <- StrippedDef
    StatsTtl = 1  StatsLatency = 1  MaxTotal = 1  StatsHorizon = 3
    Nodes = {a, b, c}  Seekers = {k, l}  Needs = {2}  Resources <- ResourcesDef
    MaxRegistrations = 3
SPECIFICATION ServicesSpec
CHECK_DEADLOCK FALSE
SYMMETRY Symmetry
INVARIANTS
    TypesOK
    
    AccessSound
    OperatorsSound
    
PROPERTIES
    
    
    
    PlaneSound
