\* reconsiderblock on a descendant clears an ancestor flag without re-adding it.
CONSTANTS
    Blocks <- MCBlocks
    Genesis = 0
    Parent <- MCParent
    BlockWork <- MCWork
    BadBlocks = {5}
    MaxInvalidate = 1
    MaxReconsider = 1
    DisconnectMayFail = FALSE
SPECIFICATION Spec
INVARIANT CandidatesComplete
CHECK_DEADLOCK FALSE
