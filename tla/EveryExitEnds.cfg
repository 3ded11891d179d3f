SPECIFICATION FairSpec
CONSTANTS
    Txs <- OneTokenTxs
    Deposits <- OneTokenDeposits
    TxInputs <- OneTokenInputs
    TxOutputs <- OneTokenOutputs
    Tokens = {"ETH"}
    ETH = "ETH"
    MinExitPeriod = 2
    DepositTime = 1
    StartTime = 2
    MaxBlocks = 1
    MaxTime = 8
    MayRefuse = FALSE
    BondSizes <- OneBond
    NoExit = NoExit
    StandardExitable <- OneTokenDepositExit
    LastStart = 3
    InFlightTxs = {"spend"}
    LastInFlightStart = 3
PROPERTIES
    ExitsEnd
CHECK_DEADLOCK FALSE
