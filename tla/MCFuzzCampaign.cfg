SPECIFICATION Spec
CONSTANTS
    a = a
    b = b
    Keys = {a, b}
    Catalogs <- MCCatalogs
    MaxExamples = 3
    MaxRejects = 1
INVARIANTS
    ReportAccounts
    EvidenceMatchesReport
    InputNamesItsModel
    SamplesAreGrouped
    WitnessIsFirst
    SharesAreKept
    WithinBudget
PROPERTIES
    DisagreementsAreKept
    ReportsAreTold
CHECK_DEADLOCK FALSE
