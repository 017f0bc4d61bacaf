\* Flush controller when the block-index batch write may fail.
CONSTANTS
    NBlocks = 2
    NFiles = 2
    MaxFileSize = 2
    ChunkSize = 1
    CoinCacheUsage = 2
    WriteInterval = 1
    FlushInterval = 2
    DiskMayFill = FALSE
    BatchMayFail = TRUE
    SyncMayFail = FALSE
    CoinFlushMayFail = FALSE
SPECIFICATION Spec
INVARIANT CoinsBestIndexed
