SPECIFICATION Spec
CONSTANTS
    Threads  = {t1, t2}
    Ops      <- MCEventOps
    Replicas = 1
    Faulty   = FALSE
    Miss     = Miss
PROPERTY
    TerminalAbsorbing
