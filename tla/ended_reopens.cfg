SPECIFICATION Spec
CONSTANTS
    r2 = r2
    r1 = r1
    s2 = s2
    s1 = s1
    Session = {s1, s2}
    Request = {r1, r2}
    Ops = {"create", "end"}
    MaxCalls = 4
    MaxTurns = 2
    Recent = 3
PROPERTIES EndedIsFinal
CHECK_DEADLOCK FALSE
