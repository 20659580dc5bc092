SPECIFICATION FairSpec
CONSTANTS
    w1 = w1
    w2 = w2
    d1 = d1
    d2 = d2
    NoWorker = NoWorker
    Workers <- MCWorkers
    Docs <- OneDoc
    MaxAttempts = 3
    LeaseTicks = 1
    NumJobs = 1
    ReportedStages <- AnyStage
    CommitsPromptly = FALSE
INVARIANTS
    ResumeFromSearchReady
PROPERTIES
    EveryJobSettles
