\* Three processes race for one data directory; all of them outlive the race.
SPECIFICATION Spec
CONSTANTS
    p1 = p1
    p2 = p2
    p3 = p3
    None = None
    Procs <- ThreeProcs
    MaxDeaths = 0
    MayStall = FALSE
    ForeignResponder = FALSE
    PidReuse = FALSE
    ClockMayStep = FALSE
SYMMETRY SymThree
CHECK_DEADLOCK FALSE
INVARIANT OwnerHoldsRecord
PROPERTY StoppedMeansNoOwner
