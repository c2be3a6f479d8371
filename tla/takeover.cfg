\* Two processes, either of which may exit or crash at any step: a data
\* directory left behind by a dead owner is taken over by the next claim.
SPECIFICATION Spec
CONSTANTS
    p1 = p1
    p2 = p2
    p3 = p3
    None = None
    Procs <- TwoProcs
    MaxDeaths = 2
    MayStall = FALSE
    ForeignResponder = TRUE
    PidReuse = TRUE
    ClockMayStep = FALSE
CHECK_DEADLOCK FALSE
INVARIANT OwnerHoldsRecord
INVARIANT ParserAgrees
PROPERTY StoppedMeansNoOwner
PROPERTY ClaimTerminates
PROPERTY ImplementsOwnership
PROPERTY WaitTerminates
