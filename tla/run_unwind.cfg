SPECIFICATION FairSpec
CONSTANTS
    N = 3
    MaxUnwinds = 2
    Dims <- NoDims
    Backoff = 1
    Bundles <- AllBundles
    MaxDeterministic = 1
    MaxAttempts = 2
    Ceiling <- NoCeiling
    SoftNum = 4
    SoftDen = 5
    Usages <- NoUsages
    Actions <- NoActions
    LeaseTTL = 1
    SLA = 1
    MaxLapses = 1
    MaxApprovals = 0
    MaxResumes = 0
INVARIANTS
    AbandonedIsUnwound
PROPERTIES
    WorkflowFrozen
    ImplementsSaga
    RunSettles
CHECK_DEADLOCK FALSE
