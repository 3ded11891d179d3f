SPECIFICATION Spec
CONSTANTS
    Txs <- OneTokenTxs
    Deposits <- OneTokenDeposits
    TxInputs <- OneTokenInputs
    TxOutputs <- OneTokenOutputs
    Tokens = {"ETH"}
    ETH = "ETH"
    MinExitPeriod = 2
    DepositTime = 1
    StartTime = 2
    MaxBlocks = 1
    MaxTime = 6
    MayRefuse = FALSE
    BondSizes <- OneBond
    NoExit = NoExit
    StandardExitable <- OneTokenStandard
    LastStart = 2
    InFlightTxs = {"spend", "double"}
    LastInFlightStart = 5
PROPERTY
    InFlightExitAwaitsPeriod
CHECK_DEADLOCK FALSE
