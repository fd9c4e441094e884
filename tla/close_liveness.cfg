SPECIFICATION Spec
CONSTANTS
    Request = {r1, r2}
    Picks = {a, b}
    Words = {1}
    MaxRetries = 2
    MaxMerges = 2
    WordCap = 2
    Capacity = 1
    Ceiling = 1
    CascadeFails = FALSE
    Ops = {"turn", "close", "restart"}
    MaxId = 6
    MaxClock = 1
INVARIANTS SizeBackstop
PROPERTIES GuardReleased
CHECK_DEADLOCK FALSE
