CONSTANTS
    NProcs = 2
    NTables = 1
    NIdx = 3
    NFrames = 14
    Boots <- MCBoots
    ZoneKind <- MCZoneKind
    Values = {0, 1}
    Zero = 0
    FileData = 1
    KswapdPerPid = 1
    KswapdPerRun = 1
    KswapdFailed = 1
    MaxSwap = 1
SPECIFICATION Spec
CHECK_DEADLOCK FALSE
INVARIANT FramesPrivate
PROPERTIES ImplementsPrivateMemory OnlyStoresChangeMemory
