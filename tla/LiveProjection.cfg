SPECIFICATION FairLiveSpec
CONSTANTS
    Keys = {"k1", "k2"}
    Conns = {1, 2, 3}
    NoConn = 0
    QueueSize = 1
    MaxVersion = 2
    MaxConsecutiveFailures = 8
    MaxBatchSize = 2
    MaxQueuedMutations = 2
    PageLimit = 1
    MaxFaults = 2
INVARIANTS
    LiveTypeOK
    

    
    
CHECK_DEADLOCK FALSE
