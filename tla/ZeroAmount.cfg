SPECIFICATION Spec
CONSTANTS
    Txs <- ZeroTxs
    Deposits <- ZeroDeposits
    TxInputs <- ZeroInputs
    TxOutputs <- ZeroOutputs
    Tokens = {"ETH"}
    ETH = "ETH"
    MinExitPeriod = 2
    DepositTime = 1
    StartTime = 2
    MaxBlocks = 1
    MaxTime = 7
    MayRefuse = FALSE
    BondSizes <- OneBond
    NoExit = NoExit
    StandardExitable <- ZeroStandard
    LastStart = 6
    InFlightTxs = {}
    LastInFlightStart = 0
PROPERTY
    ExitStartedOnce
CHECK_DEADLOCK FALSE
