SPECIFICATION Spec
CONSTANTS
    N = 1
    MaxUnwinds = 0
    Dims <- NoDims
    Backoff = 0
    Bundles <- PlainBundle
    MaxDeterministic = 1
    MaxAttempts = 1
    Ceiling <- NoCeiling
    SoftNum = 4
    SoftDen = 5
    Usages <- NoUsages
    Actions <- OneAction
    LeaseTTL = 1
    SLA = 1
    MaxLapses = 0
    MaxApprovals = 1
    MaxResumes = 1
INVARIANTS
    HumanParkResumes
CHECK_DEADLOCK FALSE
