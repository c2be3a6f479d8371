\* One group with one task: every event the handles emit, with every stamp.
SPECIFICATION EngineSpec
CONSTANTS
    None = None
    Ids <- OneId
    Labels <- Nothing
    Bytes <- SomeBytes
    EventStatuses <- HandleStatuses
    EventKinds <- AnyKind
    Counted <- StartsCounted
    MaxTime = 2
    MaxPrinted = 2
INVARIANT EngineTypeOK
INVARIANT FinishedTasksHaveTimes
INVARIANT AutoSealElapsedIsFixed
PROPERTY NoStartAfterEnd
