SPECIFICATION MCSpec
CONSTANTS
    BLKNUM_OFFSET = 8
    TXINDEX_OFFSET = 2
    TxIndexSize = 2
    TxPosSize = 64
    ChildBlockInterval = 3
    Alice = Alice
    Bob = Bob
    Oscar = Oscar
    Unsigned = Unsigned
    DepositA = DepositA
    DepositB = DepositB
    Spend = Spend
    Rival = Rival
    SpendNext = SpendNext
    Forged = Forged
    Missing = Missing
    Mint = Mint
    Operator = Oscar
    NoOne = Unsigned
    Addresses <- MCAddresses
    Txs <- MCTxs
    TxInputs <- MCTxInputs
    TxOutputs <- MCTxOutputs
    TxSigners <- MCTxSigners
    Blocks <- MCBlocks
    MaxChildBlocks = 3
    MaxWaiting = 1
    TxA = TxA
    TxB = TxB
    Null = Null
    Depth = 2
    LevelSize <- MCLevelSize
    LeafData <- MCLeafData
    NULL_HASH = Null
    Lists <- MCLists
    MaxIndex = 7
    MaxProof = 3
    Transactions <- MCTransactions
    Content <- MCContent
    NumInputs <- MCNumInputs
    Accounts = {alice, bob}
    Contracts = {framework, other}
    NULL_ADDRESS = null
    DefaultContract = default
    Nothing = nothing
    Nobody = nobody
    MIN_EXIT_PERIOD = 4
    Amounts = {1, 3}
    MaxTime = 10
    MaxPending = 1
    NUM_INPUTS = 5
    NUM_OUTPUTS = 5
    MAX_INPUT_NUM = 5
    MAX_OUTPUT_NUM = 5
    ETH = eth
    ERC20 = erc20
    TokenOf <- MCTokenOf
    Filled <- MCFilled
    MaxQueued = 2
    Jobs = {deploy, vault}
    THRESHOLD = 2
    Balances = {0, 2, 3}
    MaxReruns = 1
    MaxRefills = 1
    FullFaucet = 3
INVARIANT BlocksSpendOnce
INVARIANT NoValueCreated
INVARIANT WaitersAreServed
PROPERTY NumbersLikeTheContract
INVARIANT OwnProofsAccepted
INVARIANT OnlyLeavesAccepted
INVARIANT ValidForItsContractOnly
INVARIANT ReadsBack
PROPERTY PeriodReached
PROPERTY LowIsReported
CHECK_DEADLOCK FALSE
