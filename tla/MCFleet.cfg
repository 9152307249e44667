\* The parts of the worker fleet, one at a time.
CONSTANTS
    None = None  Nobody = Nobody  Ghost = Ghost  Loop = Loop
    Agents = {a1, a2}  First = a1  Clusters = {c1, c2}
    AgentEvents = 3  MaxInFlight = 2
    Calls = {c1, c2}  MaxRetries = 2  Threshold = 3  ResetTimeout = 1  MaxFailures = 5
    Callers = {c1, c2}
    Resizers = {r1, r2}  TargetSize = 1  MaxSize = 2
    PoolFaults = 2  MaxReplaces = 1  Window = 1
    Releases = {v1, v2}  Caps = {k1}  SchedEvents = 2
    Procs = {a1, a2}
    Keys = {k1, k2, k3}  Checked = {k1}  MaxEntries = 1  FetchFaults = 2
SPECIFICATION Spec
CHECK_DEADLOCK FALSE
INVARIANTS
    TypeOK
    
    WorkloadSound
    
PROPERTIES
    NodesSound
    FleetProgress
