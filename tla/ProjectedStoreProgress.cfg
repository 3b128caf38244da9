SPECIFICATION FairSpec
CONSTANTS
    Keys = {k1, k2}
    Data = {d1}
    NoData = none
    Bytes <- MCBytes
    Merge <- MCMerge
    Sources <- MCSources
    NoSource = ""
    Prefixes = {"state"}
    PrefixOf <- MCPrefixOf
    MaxRecords = 1
    MaxBytes = 2
    MaxTombstones = 1
    MaxAppliedEvents = 2
    Threads = {t1, t2}
    NoThread = nobody
    Seed <- Seeded
    Requests <- ListOrWrite
    Faults = TRUE
    MaxVersion = 2
    MaxEpoch = 2
PROPERTIES
    CallsReturn
CHECK_DEADLOCK FALSE
