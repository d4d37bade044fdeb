SPECIFICATION Spec
CONSTANTS
    MaxProgress = 3
    PipeCapacity = 2
INVARIANTS
    RetainedDisagreementIsMismatch
CHECK_DEADLOCK FALSE
