SPECIFICATION SplitSpec
CONSTANTS
    Contracts <- MCContracts
    Documents <- MCDocuments
    RecoveredMarks <- MCRecoveredMarks
    MaxVisionCalls = 2
    MaxPageCalls = 1
    HardMax = 3
    ParserChunks = 2
INVARIANTS
    TextIsKeptOnce
    WarningsAreKept
    UnitsReadTogether
