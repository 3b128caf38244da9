SPECIFICATION Spec
CONSTANTS
    Keys = {k1, k2}
    Data = {d1}
    NoData = none
    Bytes <- MCBytes
    Merge <- MCMerge
    Sources <- MCSources
    NoSource = ""
    Prefixes = {"state"}
    PrefixOf <- MCPrefixOf
    MaxRecords = 1
    MaxBytes = 2
    MaxTombstones = 1
    MaxAppliedEvents = 2
    Threads = {t1, t2}
    NoThread = nobody
    Seed <- Empty
    Requests <- AnyBatch
    Faults = TRUE
    MaxVersion = 3
    MaxEpoch = 2
INVARIANTS
    TypeOK
    VersionsApart
    SingleRebuild
    NoUncommittedTruth
    HealthCountExact
SYMMETRY MCSymmetry
CHECK_DEADLOCK FALSE
