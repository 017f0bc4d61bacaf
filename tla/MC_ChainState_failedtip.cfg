\* invalidateblock whose DisconnectTip fails part-way leaves a failed tip.
CONSTANTS
    Blocks <- MCBlocks
    Genesis = 0
    Parent <- MCParent
    BlockWork <- MCWork
    BadBlocks = {5}
    MaxInvalidate = 1
    MaxReconsider = 0
    DisconnectMayFail = TRUE
SPECIFICATION Spec
INVARIANT ActiveChainValid
CHECK_DEADLOCK FALSE
