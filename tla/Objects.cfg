SPECIFICATION AllSpec
CHECK_DEADLOCK FALSE
CONSTANTS
    StreamLen = 6
    Cap = 2
    MaxCount = 3
    ByteBits = 2
    WordBytes = 2
    MaxBits = 5
    MaxStep = 4
    Texts <- SomeTexts
    MaxLen = 2
    Granularity = 2
    Home <- TwoProcesses
    Slots <- TwoSlotsAndOne
    Names = {"n"}
    Modes <- OpenModes
    Size = 8
    MaxSegments = 2
INVARIANTS
    StreamsDeliver
    AccountsExact
    
    
    MatchesDefinition
PROPERTIES
    FailureKeepsState
    CallsReport
