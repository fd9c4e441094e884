SPECIFICATION Spec
CONSTANTS
    r2 = r2
    r1 = r1
    s2 = s2
    s1 = s1
    Session = {s1}
    Request = {r1, r2}
    Ops = {"create", "append", "resend", "end", "delete", "fault", "restart"}
    MaxCalls = 5
    MaxTurns = 2
    Recent = 3
INVARIANTS SummaryComplete AckedStored
PROPERTIES EndingEnds
CHECK_DEADLOCK FALSE
