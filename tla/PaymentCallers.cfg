SPECIFICATION Spec
CONSTANTS
    Requests    = {q1, q2}
    Replays     = {r1}
    MaxOp       = 2
    MaxEscrow   = 3
    Matching    <- MCMatching
    Take        = 2
    ReplayLimit = 2
    Faulty      = TRUE
SYMMETRY RequestSymmetry
VIEW PaymentView
INVARIANTS
    ProcessedByOne
    AppliedOnce
    PaymentApplied
    ReplaySkipsNothing
