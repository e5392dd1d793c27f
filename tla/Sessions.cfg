SPECIFICATION SessionSpec
CONSTANTS
    Clients      = {phone, laptop}
    Flaky        = {phone}
    ChallengeTTL = 1
    AccessTTL    = 2
    RefreshTTL   = 2
    Grace        = 1
    MaxTime      = 4
    MaxFaults    = 1
INVARIANTS
    SessionsKept
    CleanupUnnoticed
PROPERTY
    Served
