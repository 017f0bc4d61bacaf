\* Flush controller when FlushBlockFile may fail to open the file it commits.
CONSTANTS
    NBlocks = 2
    NFiles = 2
    MaxFileSize = 2
    ChunkSize = 1
    CoinCacheUsage = 2
    WriteInterval = 1
    FlushInterval = 2
    DiskMayFill = FALSE
    BatchMayFail = FALSE
    SyncMayFail = TRUE
    CoinFlushMayFail = FALSE
SPECIFICATION Spec
INVARIANT IndexedDataDurable
