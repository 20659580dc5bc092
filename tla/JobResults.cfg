CONSTANTS
    Requests = {r1}
    Streams = {s1}
    MaxJobs = 2
    MaxAttempts = 2
    MaxStageEvents = 2
    MaxSequence = 4
SPECIFICATION FairSpec
INVARIANTS
    StreamSendsEveryEvent
    RepairPlanStays
    OutcomeIsKept
PROPERTIES
    StreamsEnd
