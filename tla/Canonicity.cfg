SPECIFICATION Spec
CONSTANTS
    Txs <- OneTokenTxs
    Deposits <- OneTokenDeposits
    TxInputs <- OneTokenInputs
    TxOutputs <- OneTokenOutputs
    Tokens = {"ETH"}
    ETH = "ETH"
    MinExitPeriod = 2
    DepositTime = 1
    StartTime = 2
    MaxBlocks = 3
    MaxTime = 5
    MayRefuse = FALSE
    BondSizes <- OneBond
    NoExit = NoExit
    StandardExitable <- NoOutputs
    LastStart = 0
    InFlightTxs = {"spend"}
    LastInFlightStart = 4
INVARIANT
    RightfulSideCanAnswer
CHECK_DEADLOCK FALSE
