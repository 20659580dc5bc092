SPECIFICATION Spec
CONSTANTS
    w1 = w1
    w2 = w2
    d1 = d1
    d2 = d2
    NoWorker = NoWorker
    Workers <- MCWorkers
    Docs <- TwoDocs
    MaxAttempts = 2
    LeaseTicks = 1
    NumJobs = 2
    ReportedStages <- Resumable
    CommitsPromptly = TRUE
SYMMETRY Symmetry
INVARIANTS
    WriterOwnsJob
    OneActiveJob
PROPERTIES
    OnlyHolderEndsLease
    ImplementsLeasedJobs
