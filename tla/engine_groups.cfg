\* Two groups and two tasks, added, closed and sealed in every order.
SPECIFICATION EngineSpec
CONSTANTS
    None = None
    Ids <- TwoIds
    Labels <- OneLabel
    Bytes <- NoBytes
    EventStatuses <- OnlyError
    EventKinds <- Nothing
    Counted <- Nothing
    MaxTime = 1
    MaxPrinted = 1
INVARIANT IndexesAgree
PROPERTY SealedIsFrozen
