SPECIFICATION Spec
CONSTANTS
    w1 = w1
    w2 = w2
    d1 = d1
    NoWorker = NoWorker
    Workers <- MCWorkers
    Docs <- MCDocs
    MaxAttempts = 3
    LeaseTicks = 1
    Batches = 2
SYMMETRY Symmetry
INVARIANTS
    ReadyRunIsFullyIndexed ProjectionIsCurrent SucceededDocumentIsSearchable
PROPERTIES
    OnlyLatestAttemptPersists
