SPECIFICATION Spec
CONSTANTS
    None = None
    MaxExecutions = 3
    Inputs <- MCInputs
    Rank <- MCRank
INVARIANTS
    WitnessIsGenuine
    ResumeOnlyReplays
PROPERTIES
    MismatchSurvives
    WitnessOnlyImproves
    CallsTellReports
CHECK_DEADLOCK FALSE
