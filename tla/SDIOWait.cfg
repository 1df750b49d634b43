CONSTANTS
    MaxTransferRetries = 2
    MaxCalls = 2
    MaxSDIOEnumerationRetries = 2
    MaxInits = 1
    Kinds <- ReadKinds
SPECIFICATION Spec
INVARIANTS WaitMeansFinished
CHECK_DEADLOCK FALSE
