SPECIFICATION FairConvSpec
CONSTANTS
    Scopes = {"dishes", "orders"}
    NoScope = "none"
    Registered = {"dishes", "orders"}
    Writers = {"w1"}
    QueueSize = 1
    Sources = {"dishes", "orders"}
    Order <- MCOrder
    Run = "run"
    Callers = {"c1"}
    NoWorker = "nobody"
    NoSource = "none"
    ReadLimit = 2
    BatchSize = 1
    MaxStamp <- MCMaxStamp
    MaxRare = 1
INVARIANTS
    SweepTypeOK
    AnnouncementComes
    NoSendOnClosed
    
    NoLostWakeup
    HintNotLost

    
CHECK_DEADLOCK FALSE
