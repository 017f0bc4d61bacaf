\* Flush controller with low disk space and coin-database write failures,
\* power loss at any point: write order and eventual persistence.
CONSTANTS
    NBlocks = 2
    NFiles = 2
    MaxFileSize = 2
    ChunkSize = 1
    CoinCacheUsage = 2
    WriteInterval = 1
    FlushInterval = 2
    DiskMayFill = TRUE
    BatchMayFail = FALSE
    SyncMayFail = FALSE
    CoinFlushMayFail = TRUE
SPECIFICATION Spec
INVARIANT TypeOK
INVARIANT CoinsBestIndexed
INVARIANT IndexedDataDurable
PROPERTY EventuallyPersisted
