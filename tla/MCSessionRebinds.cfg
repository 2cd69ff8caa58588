SPECIFICATION FairSpec
CONSTANTS
    BindType = "RX"
    SeqMin = 1
    W4RLimit = 1
    Backlog <- NoBacklog
    MCSeqs = {3}
    MCSends = {"deliver"}
    DropKinds = {"eof", "reset"}
    Quiet = TRUE
    ExpiringTimers = {"enquire", "response"}
    MayReject = FALSE
    MayStop = FALSE
    NMsg = 0
    MaxRefusals = 2
    MaxDrops = 2
    MaxRequests = 1
    MaxTicks = 1
    MaxSeq = 14
PROPERTIES
    Rebinds
CHECK_DEADLOCK FALSE
