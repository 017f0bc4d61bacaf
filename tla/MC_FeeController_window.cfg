\* The fee floor after a congestion peak, against the 24-hour window of the
\* spec: pool sizes below one block, between, and above three blocks.
CONSTANTS
    Window = 4
    FreeWindow = 2
    initFeeCutoff = 1000
    maxFeeCutoff = 5000
    nLimitFreeRelay = 1
    DEFAULT_MIN_LIMITFREERELAY = 0
    nLargestBlockSeen = 2
    MAX_BLOCK_SIZE_MULTIPLIER = 3
    MinRelayDefault = 1000
    RelayPriority = TRUE
    Txs <- MCTxs
    PoolSizes = {0, 3, 6}
    MaxTime = 4
SPECIFICATION Spec
PROPERTY CutoffDecaysOverWindow
