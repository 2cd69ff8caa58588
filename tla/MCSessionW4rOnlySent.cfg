SPECIFICATION Spec
CONSTANTS
    BindType = "TRX"
    SeqMin = 1
    W4RLimit = 1
    Backlog <- NoBacklog
    MCSeqs = {3}
    MCSends = {}
    DropKinds = {}
    Quiet = FALSE
    ExpiringTimers = {}
    MayReject = FALSE
    MayStop = FALSE
    NMsg = 2
    MaxRefusals = 0
    MaxDrops = 0
    MaxRequests = 0
    MaxTicks = 0
    MaxSeq = 6
INVARIANTS
    W4rOnlySent
CHECK_DEADLOCK FALSE
