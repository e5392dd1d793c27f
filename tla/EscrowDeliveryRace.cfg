SPECIFICATION Spec
CONSTANTS
    Threads  = {t1, t2}
    Ops      <- MCDeliveryOps
    Replicas = 2
    Faulty   = FALSE
    Miss     = Miss
INVARIANT
    DeliveryClaimExclusive
