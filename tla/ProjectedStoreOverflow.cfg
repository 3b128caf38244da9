SPECIFICATION Spec
CONSTANTS
    Keys = {k1, k2}
    Data = {d1, d2}
    NoData = none
    Bytes <- MCBytes
    Merge <- MCMerge
    Sources <- MCSources
    NoSource = ""
    Prefixes = {"state"}
    PrefixOf <- MCPrefixOf
    MaxRecords = 1
    MaxBytes = 2
    MaxTombstones = 1
    MaxAppliedEvents = 2
    Threads = {t1}
    NoThread = nobody
    Seed <- Empty
    Requests <- AnyCall
    Faults = FALSE
    MaxVersion = 5
    MaxEpoch = 7
INVARIANTS
    SettledReadsAgree
CHECK_DEADLOCK FALSE
