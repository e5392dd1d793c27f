SPECIFICATION Spec
CONSTANTS
    MaxSends       = 3
    Attempts       = 5
    MaxStalls      = 1
    Faulty         = TRUE
    Viewers        = {v1, v2}
    TTL            = 1
    CarrierTimeout = 1
    MaxClock       = 4
    Runs           = {1, 2}
    Plan           <- MCPlan
    MaxWorkers     = 2
    Times          = {1, 2}
    Thresholds     <- MCThresholds
    Replicas       = {r1, r2}
    Rotations      = {k1, k2}
    OldEntries     <- MCOldEntries
    Limits         = {0, 2, 5}
    MaxLimit       = 3
    Hours          = 2
    MaxHour        = 5
    MaxRows        = 3
    Windows        = {1, 2, 3}
    Offsets        <- MCOffsets
    PageLimit      = 1
    RowStates      <- MCRowStates
    ListStates     = {"CREATED", "DISPUTED"}
    MaxLeft        = 1
\* A notification that has been dealt with, a run that has returned and pages that
\* have been read leave nothing to do.
CHECK_DEADLOCK FALSE
INVARIANTS
    RowTruthful
    SentOnce
    GivenUpIsExhausted
    TrackingFresh
    ReportsComplete
    ProbeTruthful
    PagesComplete
    EscrowsCounted
    ListingComplete
PROPERTY
    Settles
