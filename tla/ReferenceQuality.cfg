SPECIFICATION Spec
CONSTANTS
    Scripts = {"arabic", "latin"}
    Contracts <- MCContracts
    Documents <- MCDocuments
    MaxVisionCalls = 3
    MaxPageCalls = 2
INVARIANTS
    OnlySoundChunksAreIndexed
    SoundChunksAreIndexed
    ReportMatchesTexts
    MissingScriptsAreReported
