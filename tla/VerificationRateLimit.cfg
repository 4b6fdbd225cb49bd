SPECIFICATION Spec
CONSTANTS
    u1 = u1
    t1 = t1
    t2 = t2
    t3 = t3
    c1 = c1
    c2 = c2
    User = {u1}
    Token = {t1, t2, t3}
    Client = {c1, c2}
    MaxTokensPerHour = 1
    Hour = 1
    Lifetime = 1
    MaxTime = 2
    None = None
INVARIANTS
    RateLimit
CHECK_DEADLOCK FALSE
