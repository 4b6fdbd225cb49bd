SPECIFICATION MCSpec
CONSTANTS
    u1 = u1
    u2 = u2
    p1 = p1
    p2 = p2
    p3 = p3
    ann = ann
    bob = bob
    BOB = BOB
    cat = cat
    r1 = r1
    r2 = r2
    User = {u1, u2}
    Bystander = {u2}
    Password = {p1, p2, p3}
    ValidPassword = {p1, p2}
    Name = {ann, bob, BOB, cat}
    ValidName = {ann, bob, BOB, cat}
    Lower <- MCLower
    Request = {r1, r2}
    MaxRequests = 3
    MaxWrites = 1
    MaxFaults = 1
    None = None
INVARIANTS
    LoginsRestOnTheRow
    ChangesProvePassword
    EventPerChange
PROPERTIES
    OneColumnAtATime
    RequestsEnd
CHECK_DEADLOCK FALSE
