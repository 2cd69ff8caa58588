SPECIFICATION Spec
CONSTANTS
    BindType = "TRX"
    SeqMin = 1
    W4RLimit = 1
    Backlog <- NoBacklog
    MCSeqs = {3}
    MCSends = {}
    DropKinds = {"eof"}
    Quiet = FALSE
    ExpiringTimers = {"enquire", "response"}
    MayReject = FALSE
    MayStop = FALSE
    NMsg = 0
    MaxRefusals = 0
    MaxDrops = 1
    MaxRequests = 0
    MaxTicks = 1
    MaxSeq = 8
INVARIANTS
    NeverAbandoned
CHECK_DEADLOCK FALSE
