SPECIFICATION Spec
CONSTANTS
    r1 = r1
    r2 = r2
    t1 = t1
    t2 = t2
    Requests <- MCRequests
    Targets <- MCTargets
    MaxRecords = 2
SYMMETRY Symmetry
INVARIANTS
    DeletionErasesRecordedGraphs SucceededProjectionIsCurrent
