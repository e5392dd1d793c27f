SPECIFICATION ChainSpec
\* One operator, and a server with pollTransaction, as rpc.Server is.
CONSTANTS
    Operators  = {o1}
    Workers    = {}
    MaxRetries = 1
    Apis       = {"pollTransaction"}
    Faulty     = FALSE
    SlowCalls  = FALSE
CHECK_DEADLOCK FALSE
INVARIANT
    ReplayedIsReleased
