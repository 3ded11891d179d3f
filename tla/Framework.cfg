SPECIFICATION MCSpec
CONSTANTS
    ChildBlockInterval = 3
    MaxChildBlocks = 3
    MaxTime = 3
    MinExitPeriod = 1
    BLKNUM_OFFSET = 8
    TXINDEX_OFFSET = 2
    TxIndexSize = 4
    TxPosSize = 16
    TimestampSize = 8
    ExitIdSize = 4
    ExitPositions <- MCExitPositions
    ExitIds = {0, 3}
    PriorityTime = 5
    MaxWords = 2
    Elements = {0, 1, 2, 3}
    MaxSize = 6
    Queues = {eth, token}
    QueuedIds = {1, 2}
    GameOf <- MCGameOf
    Fickle = {2}
    MaxQueued = 3
    MaxBatch = 2
    ProcessTime = 3
    WAITING_PERIOD = 2
    FarFuture = 9
    InitialBondSize = 4
    InitialExitBountySize = 1
    LowerBoundDivisor = 2
    UpperBoundMultiplier = 2
    BondSizes = {0, 1, 3, 8, 16}
    BondTime = 5
    Verifiers = {first, second, third}
    NoVerifier = none
    NeverMature = 9
    VerifierTime = 5
    Vaults = {ethVault, erc20Vault}
    ExitGames = {paymentGame, nextGame}
    RegistryIds = {1, 2}
    NoContract = none
    InitialImmuneVaults = 1
    InitialImmuneExitGames = 1
    RegistryTime = 5
    TICKET_VALIDITY_PERIOD = 2
    IFE_CLAIM_MARGIN = 2
    IFE_CLAIM_WAITING_PERIOD = 1
    Ether = eth
    PoolTokens = {eth, token}
    bondValue = 1
    Tickets = {1, 2}
    TicketBlock <- MCTicketBlock
    TicketToken <- MCTicketToken
    TicketAmount <- MCTicketAmount
    SpendingTxs = {"included", "other", "inFlight", "rival", "short"}
    SpentBy <- MCSpentBy
    FirstOutput <- MCFirstOutput
    Included = {"included", "short"}
    IfeStart <- MCIfeStart
    CurrentBlock = 3
    InitialMargin = 1
    Margins = {0, 4}
    Deposits = {1, 2}
    MaxHeld = 2
    QuasarTime = 4
INVARIANT TimestampsOrdered
INVARIANT DepositsRecognized
INVARIANT WordsAreOrdered
INVARIANT OneToOne
INVARIANT TimeToLeave
INVARIANT EverythingCounted
PROPERTY AppendOnly
PROPERTY NotBeforeItsPeriod
PROPERTY IsPriorityBag
PROPERTY IsBatched
PROPERTY BondIsDelayed
PROPERTY BondMovesInBounds
PROPERTY VerifierIsDelayed
PROPERTY KeepsPromises
CHECK_DEADLOCK FALSE
