SPECIFICATION Spec
CONSTANTS
    Precision = 10
    MaxScale = 5
    Cents <- SomeCents
    MaxEvents = 8
    PageSize = 2
    Settings <- LeftAlone
INVARIANTS
    HonestLogReplays
CHECK_DEADLOCK FALSE
