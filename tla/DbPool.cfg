SPECIFICATION FairSpec
CONSTANTS
    r1 = r1
    r2 = r2
    Request = {r1, r2}
    WriterSize = 2
    ReaderSize = 1
    MaxBatch = 2
INVARIANTS
    NoLeak
    SomebodyCanFinish
    StopsEmptyHanded
PROPERTIES
    RequestsFinish
    DrainEnds
