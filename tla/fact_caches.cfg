SPECIFICATION CacheSpec
CONSTANTS
    v1 = v1
    v2 = v2
    Value = {v1, v2}
    Request = {r1, r2}
    Job = {j1}
    NoteCap = 1
    FactCap = 2
    MaxFiles = 2
    MaxFaults = 1
    Answers <- Drawings
    Ops = {"put", "delete", "quality", "scope", "resolve"}
    MaxCalls = 6
INVARIANTS QualityFresh
PROPERTIES AnswersCarried
CHECK_DEADLOCK FALSE
