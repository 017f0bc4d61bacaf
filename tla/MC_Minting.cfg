\* Difficulty retarget over every order of proof-of-work and proof-of-stake
\* blocks and block times; the chain stops only at the MaxHeight bound.
SPECIFICATION Spec
CONSTANTS
    powLimit = 1000
    posLimit = 500
    nTargetTimespan = 900
    nTargetSpacing = 45
    UpgradedSpacing = 150
    SERVICE_UPGRADE_HARDFORK = 1100
    COIN = 100
    CENT = 1
    MAX_MONEY = 1000000
    MAX_MINT_PROOF_OF_STAKE = 100
    FirstBlockSubsidy = 5000
    PowBaseSubsidy = 1000
    PowRandomDraws = {0, 2}
    CUTOFF_HEIGHT = 1
    PosV2Height = 1
    PosV3Height = 3
    GenesisTime = 1000
    GenesisSupply = 0
    BlockKinds = {FALSE, TRUE}
    TimeSteps <- MCTimeSteps
    CoinAges = {0, 365}
    MaxHeight = 4
INVARIANT TypeOK
PROPERTY RetargetTowardSpacing
CHECK_DEADLOCK FALSE
