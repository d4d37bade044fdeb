SPECIFICATION FairSpec
CONSTANTS
    MaxProgress = 3
    PipeCapacity = 2
INVARIANTS
    NoOrphan
    CompleteMeansDrained
    MismatchHasStatus
    StreamedIsRetained
PROPERTIES
    FindingsAreKept
    SecondSignalIgnored
    RunEnds
CHECK_DEADLOCK FALSE
