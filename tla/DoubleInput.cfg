SPECIFICATION Spec
CONSTANTS
    Txs <- TwiceTxs
    Deposits <- TwiceDeposits
    TxInputs <- TwiceInputs
    TxOutputs <- TwiceOutputs
    Tokens = {"ETH"}
    ETH = "ETH"
    MinExitPeriod = 2
    DepositTime = 1
    StartTime = 2
    MaxBlocks = 2
    MaxTime = 7
    MayRefuse = FALSE
    BondSizes <- OneBond
    NoExit = NoExit
    StandardExitable <- TwiceStandard
    LastStart = 2
    InFlightTxs = {"twice"}
    LastInFlightStart = 2
INVARIANT
    WithdrawnOnce
CHECK_DEADLOCK FALSE
