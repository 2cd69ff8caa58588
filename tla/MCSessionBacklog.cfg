SPECIFICATION Spec
CONSTANTS
    BindType = "TRX"
    SeqMin = 1
    W4RLimit = 1
    Backlog <- OneBacklog
    MCSeqs = {3}
    MCSends = {}
    DropKinds = {}
    Quiet = FALSE
    ExpiringTimers = {}
    MayReject = FALSE
    MayStop = FALSE
    NMsg = 0
    MaxRefusals = 0
    MaxDrops = 0
    MaxRequests = 0
    MaxTicks = 0
    MaxSeq = 6
INVARIANTS
    QueueMeansBusy
CHECK_DEADLOCK FALSE
