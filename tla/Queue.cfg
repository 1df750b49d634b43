CONSTANTS
    First = t1
    Tasks = {t1, t2, t3}
    NoTask = noTask
    Priority <- Ranked
    Items = {m, n}
    NULL = null
    uxLength = 2
    MaxCalls = 3
    MaxSignals = 2
SPECIFICATION FairSpec
INVARIANTS TypeOK NoLostWakeup
PROPERTIES ImplementsChannel NobodyForgotten
CHECK_DEADLOCK FALSE
