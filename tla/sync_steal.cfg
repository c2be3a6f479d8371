SPECIFICATION UISpec
CONSTANTS
    g1 = g1
    g2 = g2
    g3 = g3
    None = None
    Procs <- TwoProcs
    Cap = 1
    MaxTags = 2
    HasEventLog = TRUE
    MaxSyncs = 1
CHECK_DEADLOCK FALSE
PROPERTY SyncCoversWrites
