SPECIFICATION Spec
SYMMETRY KeySymmetry
CONSTANTS
    Keys = {k1, k2, k3}
    Data <- MCData
    NoData = {}
    Bytes <- MCBytes
    Merge <- MCMerge
    Sources <- MCSources
    NoSource = ""
    Prefixes = {"a"}
    PrefixOf <- MCPrefixOf
    MaxRecords = 2
    MaxBytes = 3
    MaxTombstones = 1
    MaxAppliedEvents = 2
    TTL = TRUE
    Versions = {0, 1, 2}
    MaxBatch = 2
    MaxEpoch = 2
INVARIANTS
    TypeOK
    TombstonesSound
    DedupWindowSound
    CountersSound
    BytesExact
    
    EpochCoversWrites
    NewestWins
PROPERTY NeverRegresses
\* The bound on epochs stops the model; the code has none.
CHECK_DEADLOCK FALSE
