\* A stale port file whose port is answered by an unrelated program.
SPECIFICATION Spec
CONSTANTS
    p1 = p1
    p2 = p2
    p3 = p3
    None = None
    Procs <- TwoProcs
    MaxDeaths = 1
    MayStall = FALSE
    ForeignResponder = TRUE
    PidReuse = FALSE
    ClockMayStep = FALSE
CHECK_DEADLOCK FALSE
PROPERTY NoRemovalOnUnexpectedProbe
