SPECIFICATION Spec
CONSTANTS
    Word = 4
    Byte = 2
    Source = 9
    Elsewhere = 14
    Bank <- MCBank
    ToolNames = {"a", "b", "c", "d", "e", "rip"}
    Sentinels = {"rip"}
    Stack = {"d"}
    Encodes <- MCEncodes
    Declarations <- MCDeclarations
    Forms <- MCForms
    Requests <- LowRequests
    Direct <- MCDirect
INVARIANTS
    TemplateInstantiates
    CasesPartition
    RefusalsAreExplained
CHECK_DEADLOCK FALSE
