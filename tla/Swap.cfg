SPECIFICATION Spec
CONSTANTS
    Txs <- SwapTxs
    Deposits <- SwapDeposits
    TxInputs <- SwapInputs
    TxOutputs <- SwapOutputs
    Tokens = {"ETH", "ERC"}
    ETH = "ETH"
    MinExitPeriod = 2
    DepositTime = 1
    StartTime = 2
    MaxBlocks = 1
    MaxTime = 7
    MayRefuse = FALSE
    BondSizes <- OneBond
    NoExit = NoExit
    StandardExitable <- SwapStandard
    LastStart = 2
    InFlightTxs = {"swap"}
    LastInFlightStart = 4
INVARIANTS
    PaidOutputBlocksInputs
    PiggybackQueued
PROPERTIES
    BondsAccounted
    ImplementsPayouts
CHECK_DEADLOCK FALSE
