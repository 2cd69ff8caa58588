SPECIFICATION Spec
CONSTANTS
    Second = 10
    TxThrottleLimit = 3
    MaxOversleep = 2
    MaxTime = 12
    MaxSends = 5
INVARIANTS
    SpacedSends
CHECK_DEADLOCK FALSE
