SPECIFICATION FairSpec
CONSTANTS
    N = 2
    MaxUnwinds = 1
    Dims <- NoDims
    Backoff = 1
    Bundles <- CompensatedBundle
    MaxDeterministic = 1
    MaxAttempts = 1
    Ceiling <- NoCeiling
    SoftNum = 4
    SoftDen = 5
    Usages <- NoUsages
    Actions <- ThreeActions
    LeaseTTL = 1
    SLA = 1
    MaxLapses = 1
    MaxApprovals = 2
    MaxResumes = 0
INVARIANTS
    FullInv
    ApprovedBeforeCompletion
    NeverAskedTwice
PROPERTIES
    ApprovalReachesHuman
CHECK_DEADLOCK FALSE
