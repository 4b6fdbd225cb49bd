SPECIFICATION FairSpec
CONSTANTS
    r1 = r1
    r2 = r2
    e1 = e1
    e2 = e2
    Replica = {r1}
    Event = {e1, e2}
    Routable = {e1}
    BatchSize = 1
    MaxFaults = 1
    MaxShutdowns = 0
    Free = Free
    Orphan = Orphan
PROPERTIES
    EveryCommittedEventPublished
CHECK_DEADLOCK FALSE
