\* Callers passing pfMissingInputs == NULL: rejected calls leave fetched coins cached.
CONSTANTS
    Txs <- MCTxs
    Coins <- MCCoins
    Vin <- MCVin
    Vout <- MCVout
    FeeRate <- MCFeeRate
    TxSize <- MCTxSize
    HighPriority <- MCHighPriority
    StaticFail <- MCStaticFail
    MaxMempool = 2
    MaxBlockSize = 2
    SizeMultiplier = 2
    InitFeeCutoff = 1
    MaxFeeCutoff = 3
    MinRelayDefault = 1
    FreeRelayLimit = 2
    AncestorLimit = 2
    DescendantLimit = 3
    RelayPriority = TRUE
    NullMissingArgs = {TRUE, FALSE}
SPECIFICATION Spec
PROPERTY RejectLeavesCache
