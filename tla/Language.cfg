SPECIFICATION Spec
CONSTANTS
    BLKNUM_OFFSET = 8
    TXINDEX_OFFSET = 2
    TxIndexSize = 4
    TxPosSize = 64
    ChildBlockInterval = 3
    Alice = Alice
    Bob = Bob
    Oscar = Oscar
    None = None
    DepositA = DepositA
    DepositB = DepositB
    Spend = Spend
    Rival = Rival
    Twin = Twin
    Join = Join
    SpendNext = SpendNext
    Forged = Forged
    ZeroIn = ZeroIn
    Operator = Oscar
    NoOne = None
    Addresses <- MCAddresses
    Txs <- MCTxs
    TxInputs <- MCTxInputs
    TxOutputs <- MCTxOutputs
    TxSigners <- MCTxSigners
    Blocks <- MCBlocks
    DepositTxs <- MCDepositTxs
    TxLists <- MCTxLists
    MerkleDepth = 2
    MaxChildBlocks = 2
    MaxWaiting = 1
INVARIANT InStep
INVARIANT ProofsAccepted
INVARIANT InFlightInfoFits
INVARIANT ChallengesNameTheSpend
CHECK_DEADLOCK FALSE
