SPECIFICATION Spec
CONSTANTS
    q = q
    k1 = k1
    k2 = k2
    k3 = k3
    None = None
    Requested = q
    Keys <- MCKeys
    Inputs <- MCInputs
    Requests <- MCRequests
INVARIANTS
    DirectModelsSurvive
    OnlyCompleteSetsGeneralize
    GapsAreExplained
    RouteMatchesStatus
CHECK_DEADLOCK FALSE
