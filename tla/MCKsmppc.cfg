SPECIFICATION FairSpec
CONSTANTS
    BindTypes = {"TX", "RX"}
    NSend = 3
    NDeliver = 2
INVARIANTS
    TypeOK
    RequestsKept
    DeliveriesKept
    SubmittedInOrder
    OvertakenOnlyByRetry
PROPERTIES
    NoTrafficBeforeBind
    DestructorReturns
    EveryDeliveryIsTried
CHECK_DEADLOCK FALSE
