SPECIFICATION Spec
CONSTANTS
    r1 = r1
    r2 = r2
    e1 = e1
    e2 = e2
    e3 = e3
    Replica = {r1, r2}
    Event = {e1, e2, e3}
    Routable = {e1, e2}
    BatchSize = 2
    MaxFaults = 2
    MaxShutdowns = 1
    Free = Free
    Orphan = Orphan
SYMMETRY Symmetry
INVARIANTS
    TypeOK
    PublishedWasLogged
    SoleConnectedLeader
    DuplicatesNeedFaults
    OrderedWithoutFaults
CHECK_DEADLOCK FALSE
