SPECIFICATION Spec
CONSTANTS
    MaxProgress = 3
    PipeCapacity = 2
INVARIANTS
    StreamedFindingsSurviveTimeout
CHECK_DEADLOCK FALSE
