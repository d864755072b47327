SPECIFICATION Spec
CONSTANTS
    N = 3
    MaxUnwinds = 1
    Dims <- TwoDims
    Backoff = 1
    Bundles <- PlainBundle
    MaxDeterministic = 1
    MaxAttempts = 2
    Ceiling <- TightCeiling
    SoftNum = 4
    SoftDen = 5
    Usages <- SmallUsages
    Actions <- NoActions
    LeaseTTL = 2
    SLA = 1
    MaxLapses = 2
    MaxApprovals = 0
    MaxResumes = 1
INVARIANTS
    ActiveLeaseHeld
    StepsInOrder
    CompletedOnce
    BudgetStops
    AttemptsAccounted
PROPERTIES
    EffectsArePermanent
CHECK_DEADLOCK FALSE
