SPECIFICATION MCSpec
CONSTANTS
    c1 = c1
    c2 = c2
    e1 = e1
    e2 = e2
    Event = {e1, e2}
    Consumer = {c1, c2}
    MaxFaults = 2
    MaxForgets = 1
    MaxLog = 2
    None = None
    Ordinary = {e1}
INVARIANTS
    NoRecordSkipped
PROPERTIES
    ImplementsMailPromise
    EventuallyHandled
CHECK_DEADLOCK FALSE
