\* Three processes, one of which dies: two claims race over a stale record.
SPECIFICATION Spec
CONSTANTS
    p1 = p1
    p2 = p2
    p3 = p3
    None = None
    Procs <- ThreeProcs
    MaxDeaths = 1
    MayStall = FALSE
    ForeignResponder = FALSE
    PidReuse = FALSE
    ClockMayStep = FALSE
CHECK_DEADLOCK FALSE
INVARIANT AtMostOneOwner
