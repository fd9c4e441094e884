SPECIFICATION Spec
CONSTANTS
    Request = {r1, r2}
    Picks = {a, b}
    Words = {2}
    MaxRetries = 3
    MaxMerges = 2
    WordCap = 2
    Capacity = 4
    Ceiling = 1
    CascadeFails = TRUE
    Ops = {"turn", "close", "archive", "delete", "upload", "abort", "restart", "untitled", "rename"}
    MaxId = 4
    MaxClock = 1
SYMMETRY Interchangeable
INVARIANTS TypeOK VersionPins CountMatches CoveredIsCredited GuardExclusive
PROPERTIES TitleKept
CHECK_DEADLOCK FALSE
