SPECIFICATION ChainSpec
CONSTANTS
    Operators  = {o1, o2}
    Workers    = {w1}
    MaxRetries = 1
    Apis       = {"pollTransaction", "getTransaction"}
    Faulty     = TRUE
    SlowCalls  = FALSE
\* A final row that nobody works on is never touched again.
CHECK_DEADLOCK FALSE
INVARIANTS
    AuditTruthful
    SubmittedOnce
    SubmittedUnderClaim
PROPERTIES
    ImplementsClaim
    ReplayEnds
