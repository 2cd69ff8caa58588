SPECIFICATION WriteSpec
CONSTANTS
    Second = 10
    TxThrottleLimit = 3
    MaxOversleep = 2
    MaxTime = 12
    MaxSends = 5
    SeqMin = 1
    SeqMax = 3
    MaxGiven = 7
INVARIANTS
    WriteTypeOK
    TwoSendsPerPeriod
    RecentNumbersDiffer
CHECK_DEADLOCK FALSE
