SPECIFICATION Spec
CONSTANTS
    BindType = "TRX"
    SeqMin = 1
    W4RLimit = 1
    Backlog <- NoBacklog
    MCSeqs = {3}
    MCSends = {"deliver", "garbled", "unbind", "outbind"}
    DropKinds = {"eof", "reset"}
    Quiet = FALSE
    ExpiringTimers = {}
    MayReject = TRUE
    MayStop = FALSE
    NMsg = 1
    MaxRefusals = 1
    MaxDrops = 1
    MaxRequests = 1
    MaxTicks = 0
    MaxSeq = 6
INVARIANTS
    TypeOK
    SocketBehindSession
    KeepsListening
    NeverAbandoned
PROPERTIES
    ImplementsLink
CHECK_DEADLOCK FALSE
