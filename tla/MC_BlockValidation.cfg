\* Block checks, service side channel and coin view over five blocks.
CONSTANTS
    Blocks <- MCBlocks
    Genesis = "G"
    Blk <- MCBlk
    GenesisVersion = 2
    Txs <- MCTxs
    GenesisTxs = {"g", "n1", "n2"}
    TxInfo <- MCTxInfo
    BadTxs = {}
    NonFinal = {}
    Stxs = {"s1", "s2"}
    StxValid = {"s1", "s2"}
    NoStx = NoStx
    Entitlement <- MCEntitlement
    COINBASE_MATURITY = 2
    MaturityHeight = 0
    MAX_MONEY = 100
    DEFAULT_TRANSACTION_MINFEE = 1
    nMajorityWindow = 2
    nMajorityEnforceBlockUpgrade = 1
    MaxCount = 2
SPECIFICATION Spec
INVARIANT TypeOK
INVARIANT CoinsMatchChain
