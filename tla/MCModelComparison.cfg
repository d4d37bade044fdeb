SPECIFICATION Spec
CONSTANTS
    Word = 3
    Byte = 1
    Source = 7
    Undeclared = {"u"}
    Temporaries = {"t1", "t2", "t3"}
    Distance = 5
    StackPointer = "a"
    FlagBit <- MCFlagBit
    Registers <- MCRegisters
    RegisterOrder <- MCRegisterOrder
    NameOrder <- MCNameOrder
    Code <- MCCode
    Data <- MCData
    Instructions <- MCInstructions
INVARIANTS
    ModelAgrees
    NormalizationPreserves
    OperandIsStimulated
CHECK_DEADLOCK FALSE
