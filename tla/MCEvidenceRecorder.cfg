SPECIFICATION FairSpec
CONSTANTS
    Capacity = 2
    MaxEmits = 3
    Interruptible = TRUE
INVARIANTS
    StreamIsPrefix
    CleanCloseStoresAll
    ContextsResolve
    FlushCoversSample
    CollectorOff
PROPERTIES
    TornIsLast
    CallsReturn
    RecordsResolve
    LogSpec
CHECK_DEADLOCK FALSE
