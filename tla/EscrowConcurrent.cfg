SPECIFICATION Spec
CONSTANTS
    Threads  = {t1, t2}
    Ops      <- MCWorkerOps
    Replicas = 2
    Faulty   = TRUE
    Miss     = Miss
SYMMETRY ThreadSymmetry
INVARIANTS
    TypeOK
    AutoReleaseClaimExclusive
    RowConsistent
PROPERTY
    NoResubmission
