\* A replayed event log that holds a pending status.
SPECIFICATION EngineSpec
CONSTANTS
    None = None
    Ids <- OneId
    Labels <- Nothing
    Bytes <- NoBytes
    EventStatuses <- ReplayStatuses
    EventKinds <- AnyKind
    Counted <- Nothing
    MaxTime = 1
    MaxPrinted = 2
PROPERTY TerminalIsFinal
