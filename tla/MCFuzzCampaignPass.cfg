SPECIFICATION Spec
CONSTANTS
    a = a
    b = b
    Keys = {a, b}
    Catalogs <- MCCatalogs
    MaxExamples = 2
    MaxRejects = 1
INVARIANTS
    PassIsComplete
CHECK_DEADLOCK FALSE
