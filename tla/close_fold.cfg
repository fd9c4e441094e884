SPECIFICATION Spec
CONSTANTS
    Request = {r1, r2}
    Picks = {a, b}
    Words = {2}
    MaxRetries = 2
    MaxMerges = 2
    WordCap = 2
    Capacity = 3
    Ceiling = 1
    CascadeFails = FALSE
    Ops = {"turn", "regenerate", "close", "answer"}
    MaxId = 5
    MaxClock = 1
SYMMETRY Interchangeable
INVARIANTS Chronological NoDoubleCoverage CoveredPrefix
PROPERTIES RemovesOnlyNamed PickOnce CoverageGrows ImplementsLog
CHECK_DEADLOCK FALSE
