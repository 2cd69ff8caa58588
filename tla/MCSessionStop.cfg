SPECIFICATION FairSpec
CONSTANTS
    BindType = "TRX"
    SeqMin = 1
    W4RLimit = 1
    Backlog <- NoBacklog
    MCSeqs = {3}
    MCSends = {}
    DropKinds = {"eof"}
    Quiet = FALSE
    ExpiringTimers = {"enquire", "response"}
    MayReject = FALSE
    MayStop = TRUE
    NMsg = 1
    MaxRefusals = 1
    MaxDrops = 1
    MaxRequests = 0
    MaxTicks = 0
    MaxSeq = 8
PROPERTIES
    StopEnds
CHECK_DEADLOCK FALSE
