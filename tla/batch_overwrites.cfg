SPECIFICATION Spec
CONSTANTS
    a = a
    b = b
    Run = {r1}
    Job = {j1}
    Topic = {t1}
    Batches <- Together
    ChunkSize = 5
    Overlap = 2
    Budget = 6
    Ops = {"ingest"}
    MaxCalls = 1
    MaxFaults = 0
INVARIANTS EachFileIsSearchable
CHECK_DEADLOCK FALSE
