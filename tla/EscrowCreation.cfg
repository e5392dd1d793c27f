SPECIFICATION DeskSpec
CONSTANTS
    Calls      = {c1, c2, c3}
    Absent     = Absent
    Keys       = {k1, k2}
    EscrowDtos <- MCEscrowDtos
    Vendor     = "vendor"
    Capacity   = 2
    KeyTTL     = 3
    ReadTTL    = 1
    MaxTime    = 2
    MaxFaults  = 1
SYMMETRY Symmetric
\* When every request is answered and the clock has stopped, nothing is left.
CHECK_DEADLOCK FALSE
INVARIANTS
    RegisteredOnce
    RegistrationStands
    AnswersMatch
    KeyRemembered
