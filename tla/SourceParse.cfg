CONSTANTS
    Inputs <- MCInputs
    Artifacts <- MCArtifacts
    MaxAttempts = 2
    Retries = 2
SPECIFICATION FairSpec
INVARIANTS
    ChunksAreOwn
    OneParsePerAttempt
PROPERTIES
    AttemptsEnd
