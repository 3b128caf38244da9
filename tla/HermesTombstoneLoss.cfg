SPECIFICATION Spec
SYMMETRY KeySymmetry
CONSTANTS
    Keys = {k1, k2}
    Data <- MCData
    NoData = {}
    Bytes <- MCBytes
    Merge <- MCMerge
    Sources <- MCSources
    NoSource = ""
    Prefixes = {"a"}
    PrefixOf <- MCPrefixOf
    MaxRecords = 2
    MaxBytes = 3
    MaxTombstones = 2
    MaxAppliedEvents = 2
    TTL = FALSE
    Versions = {0, 1, 2}
    MaxBatch = 2
    MaxEpoch = 4
PROPERTY DeleteLeavesTombstone
CHECK_DEADLOCK FALSE
