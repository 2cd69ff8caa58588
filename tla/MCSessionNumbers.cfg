SPECIFICATION Spec
CONSTANTS
    BindType = "TX"
    SeqMin = 1
    W4RLimit = 2
    Backlog <- NoBacklog
    MCSeqs = {3}
    MCSends = {}
    DropKinds = {"eof", "reset"}
    Quiet = FALSE
    ExpiringTimers = {"enquire", "age"}
    MayReject = FALSE
    MayStop = TRUE
    NMsg = 2
    MaxRefusals = 0
    MaxDrops = 1
    MaxRequests = 0
    MaxTicks = 1
    MaxSeq = 5
INVARIANTS
    SeqIdentifiesRequest
    AnswersMatch
    SenderFindsMessage
CHECK_DEADLOCK FALSE
