SPECIFICATION Spec
CONSTANTS
    BindType = "TRX"
    SeqMin = 1
    W4RLimit = 1
    Backlog <- NoBacklog
    MCSeqs = {2, 3}
    MCSends = {"deliver", "enquire"}
    DropKinds = {}
    Quiet = FALSE
    ExpiringTimers = {"enquire", "age"}
    MayReject = FALSE
    MayStop = FALSE
    NMsg = 2
    MaxRefusals = 0
    MaxDrops = 0
    MaxRequests = 1
    MaxTicks = 1
    MaxSeq = 6
INVARIANTS
    QueueMeansBusy
    ResponsesKeepNumber
CHECK_DEADLOCK FALSE
