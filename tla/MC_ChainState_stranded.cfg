\* A block received while its parent is marked failed is never linked.
CONSTANTS
    Blocks <- MCBlocks
    Genesis = 0
    Parent <- MCParent
    BlockWork <- MCWork
    BadBlocks = {5}
    MaxInvalidate = 1
    MaxReconsider = 1
    DisconnectMayFail = FALSE
SPECIFICATION Spec
INVARIANT ProcessedBlocksLinked
CHECK_DEADLOCK FALSE
