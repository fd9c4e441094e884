SPECIFICATION Spec
CONSTANTS
    v1 = v1
    v2 = v2
    Value = {v1, v2}
    Request = {r1, r2}
    Job = {j1}
    NoteCap = 1
    FactCap = 2
    MaxFiles = 2
    MaxFaults = 1
    Answers <- Drawings
    Ops = {"upload", "retry", "propose", "put", "accept", "dismiss", "edit", "delete", "fault", "restart"}
    MaxCalls = 3
INVARIANTS TypeOK NeverAutoApplied QueuedOnce
PROPERTIES EditDropsNamed JobSettles
CHECK_DEADLOCK FALSE
