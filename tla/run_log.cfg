SPECIFICATION FairSpec
CONSTANTS
    Precision = 10
    MaxScale = 5
    Cents <- Quarters
    MaxEvents = 6
    PageSize = 2
    Settings <- DamagedOrRead
INVARIANTS
    HonestLogReplays
    DamageIsReported
    PagesFitTogether
PROPERTIES
    FollowerEnds
CHECK_DEADLOCK FALSE
