SPECIFICATION Spec
CONSTANTS
    Threads  = {t1}
    Ops      <- MCAllOps
    Replicas = 1
    Faulty   = FALSE
    Miss     = Miss
INVARIANTS
    CacheFresh
    DisputedIsOpen

    
