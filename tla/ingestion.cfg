SPECIFICATION Spec
CONSTANTS
    a = a
    b = b
    Run = {r1, r2}
    Job = {j1, j2}
    MaxTokens = 3
    OverlapTokens = 1
    Batches <- Uploads
    MaxFiles = 2
    BatchSize = 3
    StorageRetries = 2
    Ops = {"upload", "session", "retrigger", "reingest", "fault", "restart"}
    MaxCalls = 2
    MaxFaults = 2
SYMMETRY Interchangeable
INVARIANTS TypeOK DoneIsComplete ContextServed RollbackKeeps NeverStranded
CHECK_DEADLOCK FALSE
