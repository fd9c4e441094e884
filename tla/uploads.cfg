SPECIFICATION Spec
CONSTANTS
    a = a
    b = b
    Run = {r1, r2}
    Job = {j1, j2}
    Topic = {t1}
    Batches <- Uploaded
    ChunkSize = 5
    Overlap = 2
    Budget = 6
    Ops = {"ingest", "topic", "document", "session", "trigger", "remove", "delete", "sweep", "fault", "restart"}
    MaxCalls = 2
    MaxFaults = 1
SYMMETRY Interchangeable
INVARIANTS TypeOK CompletedIsSearchable DoneIsServed TopicDocumentWhole
CHECK_DEADLOCK FALSE
