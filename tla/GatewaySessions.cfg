SPECIFICATION MCSpec
CONSTANTS
    b1 = b1
    b2 = b2
    u1 = u1
    g1 = g1
    g2 = g2
    r1 = r1
    r2 = r2
    Browser = {b1, b2}
    User = {u1}
    Gateway = {g1, g2}
    Request = {r1, r2}
    Refusal <- MCRefusal
    Tls = {g1}
    AccessLife = 1
    SessionLife = 2
    MaxLogins = 2
    MaxRequests = 3
    MaxStops = 1
    MaxFaults = 1
    Visitor = {b2}
    Place <- MCPlace
    None = None
    Keep = Keep
INVARIANTS
    CookiesBacked
    CallsRestOnSessions
PROPERTIES
    OrphansNeedFailures
    TableReturns
    SessionsExpire
CHECK_DEADLOCK FALSE
