\* Admission and reorgs across two branches: the evaluator matches BIP68
\* and the cached LockPoints never keep an unminable transaction.
CONSTANTS
    Blocks = {0, 1, 2, 3, 4}
    Genesis = 0
    Parent <- MCParent
    MTP <- MCMTP
    Coins = {"c1", "c2", "c3", "c4"}
    CoinBlocks <- MCCoinBlocks
    Txs <- MCTxs
    Version <- MCVersion
    LockTime <- MCLockTime
    Vin <- MCVin
    LocktimeThreshold = 10
    GranularityShift = 1
    NoBlock = NoBlock
SPECIFICATION Spec
INVARIANT TypeOK
INVARIANT SequenceLocksMatchBIP68
PROPERTY ImplementsNextBlockPool
