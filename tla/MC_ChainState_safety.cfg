\* All four operations, reconsiderblock included, with DisconnectTip failing
\* part-way: nChainTx is set only on blocks whose ancestry has data.
CONSTANTS
    Blocks <- MCBlocks
    Genesis = 0
    Parent <- MCParent
    BlockWork <- MCWork
    BadBlocks = {5}
    MaxInvalidate = 1
    MaxReconsider = 1
    DisconnectMayFail = TRUE
SPECIFICATION Spec
INVARIANT LinkedHasData
CHECK_DEADLOCK FALSE
