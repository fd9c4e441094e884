SPECIFICATION Spec
CONSTANTS
    Request = {r1, r2}
    Email = {e1, e2}
    UserId = {u1, u2}
    Token = {t1, t2, t3, t4}
    Code = {c1}
    State = {s1}
    Provider = {"google", "github"}
    MaxAttempts = 1
    Ops = {"register", "login", "otp_request", "otp_verify", "oauth", "refresh", "logout", "admin", "time", "fault", "restart"}
    MaxCalls = 4
    MaxFaults = 2
SYMMETRY Interchangeable
INVARIANTS OneAccount AttemptsBounded UsedIsExchanged
CHECK_DEADLOCK FALSE
