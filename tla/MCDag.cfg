\* The parts of DAG execution, one at a time.
CONSTANTS
    s1 = s1
    s2 = s2
    s3 = s3
    ghost = ghost
    StepSeq <- StepsDef  Ghosts = {ghost}  MaxDeps = 2  Kind <- KindDef  Mode <- ModeDef
    OnFailure <- OnFailureDef  MapPolicy <- MapPolicyDef  Conditional = {s1}
    MaxRetries = 1  Items = 2  Parallelism = 2
    Jobs = {s1, s2}  Cancellable = {s1}  MaxThreads = 1  MaxFaults = 2
SPECIFICATION Spec
CHECK_DEADLOCK FALSE
INVARIANTS
    TypeOK
    EngineSound
    
    ProxySound
PROPERTIES
    ImplementsDagOrder
    StepsSound
    
