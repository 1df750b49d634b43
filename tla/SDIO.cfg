CONSTANTS
    MaxTransferRetries = 2
    MaxCalls = 2
    MaxSDIOEnumerationRetries = 2
    MaxInits = 1
    Kinds <- ReadKinds
SPECIFICATION FairSpec
INVARIANTS TypeOK  QuietWhenIdle ResponseIsReal DeleteIsSafe
PROPERTIES CallsReturn
CHECK_DEADLOCK FALSE
