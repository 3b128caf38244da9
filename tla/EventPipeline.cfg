SPECIFICATION FairPipeSpec
CONSTANTS
    Ids = {1, 2}
    Publishers = {"single", "batch"}
    Batching = {"batch"}
    Tokens = {1, 2, 3, 4}
    NoToken = 0
    Limit = 2
    MaxAttempts = 2
    MaxFaults = 1
    Keys = {"k1", "k2"}
    Data = {"d"}
    NoData = "none"
    Bytes <- MCBytes
    Merge <- MCMerge
    Sources = {"1#0", "1#1", "2"}
    NoSource = ""
    Prefixes = {}
    PrefixOf <- MCPrefixOf
    MaxRecords = 1
    MaxBytes = 2
    MaxTombstones = 2
    MaxAppliedEvents = 1
    EventsOf <- MCEventsOf
    MaxRead = 2
    AckIgnoresContext = FALSE
INVARIANTS
    PipeTypeOK
    ClaimExclusive
    CopiesExplained
    
    AckedReflected
PROPERTIES
    ImplementsOutbox
    FactsArrive
\* All rows settled: nothing is left to do.
CHECK_DEADLOCK FALSE
