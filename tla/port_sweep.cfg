\* Three processes and no fault: an owner shuts down in good order while a
\* claim that loaded its port is probing, and the next owner publishes.
SPECIFICATION Spec
CONSTANTS
    p1 = p1
    p2 = p2
    p3 = p3
    None = None
    Procs <- ThreeProcs
    MaxDeaths = 0
    MayStall = FALSE
    ForeignResponder = FALSE
    PidReuse = FALSE
    ClockMayStep = FALSE
SYMMETRY SymThree
CHECK_DEADLOCK FALSE
PROPERTY OwnerStaysDiscoverable
