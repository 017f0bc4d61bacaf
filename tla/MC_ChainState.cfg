\* Chain selection without reconsiderblock: candidate set complete, active chain
\* valid, convergence.
CONSTANTS
    Blocks <- MCBlocks
    Genesis = 0
    Parent <- MCParent
    BlockWork <- MCWork
    BadBlocks = {5}
    MaxInvalidate = 1
    MaxReconsider = 0
    DisconnectMayFail = FALSE
SPECIFICATION Spec
INVARIANT TypeOK
INVARIANT CandidatesComplete
INVARIANT ActiveChainValid
PROPERTY EventuallyMostWork
CHECK_DEADLOCK FALSE
