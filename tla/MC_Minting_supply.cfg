\* Proof-of-stake blocks minted from a money supply one year of reward below
\* MAX_MONEY, in the 500000-1005000 window and after it.
SPECIFICATION Spec
CONSTANTS
    powLimit = 1000
    posLimit = 500
    nTargetTimespan = 900
    nTargetSpacing = 45
    UpgradedSpacing = 150
    SERVICE_UPGRADE_HARDFORK = 1100
    COIN = 100
    CENT = 1
    MAX_MONEY = 1000000
    MAX_MINT_PROOF_OF_STAKE = 100
    FirstBlockSubsidy = 5000
    PowBaseSubsidy = 1000
    PowRandomDraws = {0, 2}
    CUTOFF_HEIGHT = 1
    PosV2Height = 0
    PosV3Height = 3
    GenesisTime = 1000
    GenesisSupply = 999900
    BlockKinds = {TRUE}
    TimeSteps <- MCTimeSteps
    CoinAges = {365}
    MaxHeight = 4
INVARIANT MoneySupplyCapped
CHECK_DEADLOCK FALSE
