SPECIFICATION FairSpec
CONSTANTS
    g1 = g1
    g2 = g2
    kek1 = kek1
    kek2 = kek2
    Replica = {g1, g2}
    KeyEncryptionKey = {kek1, kek2}
    Kek <- MCKek
    OnStandby = {g2}
    Skew <- MCSkew
    Life = 1
    Leeway = 1
    Migrations = 2
    MaxTime = 4
    MaxTokens = 1
    MaxChanges = 2
    MaxStops = 2
    None = None
INVARIANTS
    GoodTokensAccepted
    StaleTokensRefused
    OneKeyPerReplica
PROPERTIES
    ReadersCatchUp
    EventuallyServing
CHECK_DEADLOCK FALSE
