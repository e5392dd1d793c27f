SPECIFICATION FairSpec
CONSTANTS
    Pollers         = {p1, p2}
    MaxLedger       = 2
    Margin          = 0
    Drift           = 1
    PageLimit       = 2
    MaxRetries      = 2
    ConfiguredStart = 1
    Faulty          = TRUE
    ReadErrors      = FALSE
INVARIANTS
    TypeOK
    NoEventSkipped
PROPERTIES
    HandledInOrder
    EventsHandled
