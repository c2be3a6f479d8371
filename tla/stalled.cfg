\* Three processes that may stall longer than the grace period, one of which
\* may die: what the exclusive create still guarantees.
SPECIFICATION Spec
CONSTANTS
    p1 = p1
    p2 = p2
    p3 = p3
    None = None
    Procs <- ThreeProcs
    MaxDeaths = 1
    MayStall = TRUE
    ForeignResponder = TRUE
    PidReuse = TRUE
    ClockMayStep = TRUE
SYMMETRY SymThree
CHECK_DEADLOCK FALSE
INVARIANT TypeOK
PROPERTY RecordWriteOnce
