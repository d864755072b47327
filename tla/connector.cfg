SPECIFICATION ConnectorSpec
CONSTANTS
    Calls = {c1, c2}
    Threshold = 2
    Base = 2
    MaxPeriod = 3
    Probers = {ticker, operator}
    Loop = ticker
    QuarantineAfter = 2
    AutoRelease = TRUE
INVARIANTS
    OpenIsEarned
    OneTrialPerOpening
PROPERTIES
    TransitionsAreEarned
    RepairedConnectorServes
