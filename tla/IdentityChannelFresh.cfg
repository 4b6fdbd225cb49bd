SPECIFICATION Spec
CONSTANTS
    t1 = t1
    t2 = t2

    Task = {t1, t2}
    MaxRotations = 2
    MaxFailures = 1
    None = None
INVARIANTS
    FreshClient
SYMMETRY Symmetry
