SPECIFICATION FairSpec
CONSTANTS
    r1 = r1
    r2 = r2
    e1 = e1
    e2 = e2
    Replica = {r1, r2}
    Event = {e1, e2}
    Routable = {e1}
    BatchSize = 2
    MaxFaults = 2
    MaxShutdowns = 2
    Free = Free
    Orphan = Orphan
PROPERTIES
    ImplementsPromise
    EventuallyPublished
    ShutdownCompletes
CHECK_DEADLOCK FALSE
