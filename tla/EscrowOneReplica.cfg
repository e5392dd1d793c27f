SPECIFICATION FairSpec
CONSTANTS
    Threads  = {t1, t2}
    Ops      <- MCWorkerOps
    Replicas = 1
    Faulty   = FALSE
    Miss     = Miss
INVARIANT
    DeliveredIsRecorded
PROPERTY
    ClaimsResolved
