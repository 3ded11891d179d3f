SPECIFICATION Spec
CONSTANTS
    Txs <- OneTokenTxs
    Deposits <- OneTokenDeposits
    TxInputs <- OneTokenInputs
    TxOutputs <- OneTokenOutputs
    Tokens = {"ETH"}
    ETH = "ETH"
    MinExitPeriod = 2
    DepositTime = 1
    StartTime = 2
    MaxBlocks = 2
    MaxTime = 7
    MayRefuse = TRUE
    BondSizes <- TwoBonds
    NoExit = NoExit
    StandardExitable <- OneTokenStandard
    LastStart = 4
    InFlightTxs = {}
    LastInFlightStart = 0
INVARIANTS
    StandardExitQueuedOnce
    EthSolvency
PROPERTY
    OlderGoesFirst
CHECK_DEADLOCK FALSE
