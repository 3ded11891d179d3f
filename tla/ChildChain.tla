---- MODULE ChildChain ----
(***************************************************************************)
(* The child chain that the Python tests run beside the contracts          *)
(* (plasma_core/child_chain.py, block.py, transaction.py): it validates    *)
(* blocks, keeps which outputs are spent, and lets blocks that come before *)
(* their parent wait for it.                                               *)
(*                                                                         *)
(* A transaction is a Python object: a name in Txs.  Its spent flags are   *)
(* its own, wherever it is included.  add_block calls itself for the       *)
(* blocks that waited, and exceptions go through all these calls: the      *)
(* stack of activations is the variable frames, and one step is what one   *)
(* activation does up to its next call.  Nothing else runs in between.     *)
(***************************************************************************)
EXTENDS UtxoPosition, Sequences, FiniteSetsExt

CONSTANTS
    ChildBlockInterval,     \* CHILD_BLOCK_INTERVAL
    Operator,               \* the operator's address
    NoOne,                  \* who signed what is not signed
    Addresses,
    Txs,                    \* transaction objects
    TxInputs,               \* [Txs -> Seq(position)]
    TxOutputs,              \* [Txs -> Seq([output_guard, amount])]
    TxSigners,              \* [Txs -> Seq(Addresses \cup {NoOne})]: who signed which input
    Blocks,                 \* the blocks that callers may add: [number, transactions, signer]
    \* Bounds of the model, not of the code.
    MaxChildBlocks,         \* no block has a number beyond these child blocks
    MaxWaiting              \* waiting blocks per parent

\* TransactionInput and TransactionOutput; tokens are left out, since validation ignores them.
Positions == [blknum : Nat, txindex : Nat, oindex : Nat]
OutputType == [output_guard : Addresses, amount : Nat]
\* SignedBlock, or a Block that nobody signed.
BlockType == [number : Nat \ {0}, transactions : Seq(Txs), signer : Addresses \cup {NoOne}]

ASSUME ChainAssumption ==
    /\ ChildBlockInterval \in Nat \ {0} /\ {MaxChildBlocks, MaxWaiting} \subseteq Nat
    /\ Operator \in Addresses /\ NoOne \notin Addresses
    /\ TxInputs \in [Txs -> Seq(Positions)]
    /\ TxOutputs \in [Txs -> Seq(OutputType)]
    /\ TxSigners \in [Txs -> Seq(Addresses \cup {NoOne})]
    /\ \A t \in Txs : Len(TxSigners[t]) = Len(TxInputs[t])
    /\ Blocks \subseteq BlockType
    /\ \A b \in Blocks : b.number <= MaxChildBlocks * ChildBlockInterval

VARIABLES
    blocks,             \* number -> block
    parentQueue,        \* parent_queue: number -> the blocks that wait for that number
    nextChildBlock, nextDepositBlock,
    spent,              \* the pairs (transaction, output index from 1) with their flag set
    frames,             \* the activations of add_block that added a block and look for waiting ones
    result,             \* of the last call: what it returned, or "raised"
    abandoned           \* history: the blocks whose activation an exception ended

childVars == <<blocks, parentQueue, nextChildBlock, nextDepositBlock, spent, frames, result, abandoned>>

ChildInit ==
    /\ blocks = <<>>
    /\ parentQueue = <<>>
    /\ nextChildBlock = ChildBlockInterval
    /\ nextDepositBlock = 1
    /\ spent = {}
    /\ frames = <<>>
    /\ result = "none"
    /\ abandoned = {}

----------------------------------------------------------------------------
\* Looking up inputs.  i.identifier packs the position, get_transaction unpacks it.

Located(i) == Decode(IdOf(i))
IsNothing(i) == i.blknum = 0            \* "Transactions coming from block 0 are valid."

\* A block, a transaction or an output that is not there raises KeyError or IndexError.
Exists(i) ==
    LET p == Located(i)
    IN  /\ p.blknum \in DOMAIN blocks
        /\ p.txindex + 1 \in DOMAIN blocks[p.blknum].transactions
        /\ i.oindex + 1 \in DOMAIN TxOutputs[blocks[p.blknum].transactions[p.txindex + 1]]
GetTransaction(i) == blocks[Located(i).blknum].transactions[Located(i).txindex + 1]
OutputOf(i) == <<GetTransaction(i), i.oindex + 1>>

InputsOf(t) == {x \in DOMAIN TxInputs[t] : ~ IsNothing(TxInputs[t][x])}
IsDepositTx(t) == InputsOf(t) = {}
IsDepositBlock(b) == Len(b.transactions) = 1 /\ IsDepositTx(b.transactions[1])

\* The outputs that a transaction, a block spends, as far as they are there.
SpentByTx(t) == {OutputOf(TxInputs[t][x]) : x \in {y \in InputsOf(t) : Exists(TxInputs[t][y])}}
SpentBy(b) == UNION {SpentByTx(b.transactions[k]) : k \in DOMAIN b.transactions}

----------------------------------------------------------------------------
\* Validation.  Each check is "ok", "invalid" (one of the exceptions that add_block catches)
\* or "raised" (one that it does not); the first that is not "ok" decides.

FirstBad(checks) ==
    LET bad == {k \in DOMAIN checks : checks[k] # "ok"}
    IN  IF bad = {} THEN "ok" ELSE checks[Min(bad)]

\* A mutant: spent outputs pass.
CheckInputUnspent(t, x) ==
    LET i == TxInputs[t][x]
        guard == TxOutputs[GetTransaction(i)][i.oindex + 1].output_guard
    IN  IF IsNothing(i) THEN "ok"
        ELSE IF ~ Exists(i) THEN "raised"
        ELSE IF TxSigners[t][x] # guard THEN "invalid"
        ELSE "ok"

\* temp_spent is always empty: outputs that the same block spends are not looked at.
CheckInput(t, x) ==
    LET i == TxInputs[t][x]
        guard == TxOutputs[GetTransaction(i)][i.oindex + 1].output_guard
    IN  IF IsNothing(i) THEN "ok"
        ELSE IF ~ Exists(i) THEN "raised"
        ELSE IF TxSigners[t][x] # guard THEN "invalid"
        ELSE IF OutputOf(i) \in spent THEN "invalid"
        ELSE "ok"

Value(o) == TxOutputs[o[1]][o[2]].amount
InputAmount(t) == SumFunction([x \in InputsOf(t) |-> Value(OutputOf(TxInputs[t][x]))])
OutputAmount(t) == SumFunction([k \in DOMAIN TxOutputs[t] |-> TxOutputs[t][k].amount])

\* A mutant: the outputs may be worth anything.
ValidateTransactionAnyAmount(t) == FirstBad([x \in DOMAIN TxInputs[t] |-> CheckInput(t, x)])

\* The inputs may be worth more than the outputs.
ValidateTransaction(t) ==
    LET inputs == FirstBad([x \in DOMAIN TxInputs[t] |-> CheckInput(t, x)])
    IN  IF inputs # "ok" THEN inputs
        ELSE IF ~ IsDepositTx(t) /\ InputAmount(t) < OutputAmount(t) THEN "invalid"
        ELSE "ok"

\* Only a signed block has a signature to look at.
CheckSignature(b) ==
    IF IsDepositBlock(b) THEN "ok"
    ELSE IF b.signer = NoOne THEN "raised"
    ELSE IF b.signer # Operator THEN "invalid"
    ELSE "ok"

ValidateBlock(b) ==
    IF CheckSignature(b) # "ok" THEN CheckSignature(b)
    ELSE FirstBad([k \in DOMAIN b.transactions |-> ValidateTransaction(b.transactions[k])])

----------------------------------------------------------------------------
\* One activation of add_block, called by the activations in callers (the innermost last).

IsNext(b) == b.number \in {nextChildBlock, nextDepositBlock}

\* A mutant: the numbers for deposits go on where they were.
AddToHeadNoReset(b, callers) ==
    /\ IsNext(b) /\ ValidateBlock(b) = "ok"
    /\ spent' = spent \cup SpentBy(b)
    /\ blocks' = [n \in DOMAIN blocks \cup {b.number} |-> IF n = b.number THEN b ELSE blocks[n]]
    /\ IF b.number = nextChildBlock
       THEN /\ nextChildBlock' = nextChildBlock + ChildBlockInterval
            /\ UNCHANGED nextDepositBlock
       ELSE /\ nextDepositBlock' = nextDepositBlock + 1
            /\ UNCHANGED nextChildBlock
    /\ frames' = Append(callers, [number |-> b.number, tried |-> 0])
    /\ result' = "none"
    /\ UNCHANGED <<parentQueue, abandoned>>

\* Validated and applied: the outputs are marked, the block stored, the heads moved; then the
\* activation goes on with the blocks that waited for this one.
AddToHead(b, callers) ==
    /\ IsNext(b) /\ ValidateBlock(b) = "ok"
    /\ spent' = spent \cup SpentBy(b)
    /\ blocks' = [n \in DOMAIN blocks \cup {b.number} |-> IF n = b.number THEN b ELSE blocks[n]]
    /\ IF b.number = nextChildBlock
       THEN /\ nextDepositBlock' = nextChildBlock + 1
            /\ nextChildBlock' = nextChildBlock + ChildBlockInterval
       ELSE /\ nextDepositBlock' = nextDepositBlock + 1
            /\ UNCHANGED nextChildBlock
    /\ frames' = Append(callers, [number |-> b.number, tried |-> 0])
    /\ result' = "none"
    /\ UNCHANGED <<parentQueue, abandoned>>

\* An activation that adds nothing returns False; only the outermost result is used.
ReturnFalse(callers) ==
    /\ frames' = callers
    /\ result' = IF callers = <<>> THEN "False" ELSE "none"
    /\ UNCHANGED <<blocks, nextChildBlock, nextDepositBlock, spent, abandoned>>

Reject(b, callers) ==
    /\ IsNext(b) /\ ValidateBlock(b) = "invalid"
    /\ ReturnFalse(callers)
    /\ UNCHANGED parentQueue

\* An exception that is not caught ends all activations: what waits for their blocks, goes on.
Raise(b, callers) ==
    /\ IsNext(b) /\ ValidateBlock(b) = "raised"
    /\ frames' = <<>>
    /\ result' = "raised"
    /\ abandoned' = abandoned \cup {callers[k].number : k \in DOMAIN callers}
    /\ UNCHANGED <<blocks, parentQueue, nextChildBlock, nextDepositBlock, spent>>

\* The parent is taken to be the block with the number before, for child blocks too.
Waiting(n) == IF n \in DOMAIN parentQueue THEN parentQueue[n] ELSE <<>>
Wait(b, callers) ==
    /\ ~ IsNext(b) /\ b.number > nextDepositBlock
    /\ Len(Waiting(b.number - 1)) < MaxWaiting          \* bound
    /\ parentQueue' = [n \in DOMAIN parentQueue \cup {b.number - 1} |->
                         IF n = b.number - 1 THEN Append(Waiting(n), b) ELSE parentQueue[n]]
    /\ ReturnFalse(callers)

AlreadyThere(b, callers) ==
    /\ ~ IsNext(b) /\ b.number <= nextDepositBlock
    /\ ReturnFalse(callers)
    /\ UNCHANGED parentQueue

Activate(b, callers) ==
    \/ AddToHead(b, callers)
    \/ Reject(b, callers)
    \/ Raise(b, callers)
    \/ Wait(b, callers)
    \/ AlreadyThere(b, callers)

Innermost == frames[Len(frames)]
Untried == Innermost.tried < Len(Waiting(Innermost.number))

\* A caller of the child chain adds a block.
AddBlock(b) == frames = <<>> /\ Activate(b, <<>>)

\* The innermost activation adds the next block that waited for its own.
AddWaiting ==
    /\ frames # <<>> /\ Untried
    /\ LET f == Innermost
       IN  Activate(Waiting(f.number)[f.tried + 1],
                    [frames EXCEPT ![Len(frames)] = [number |-> f.number, tried |-> f.tried + 1]])

\* A mutant: the blocks that waited stay.
ReturnTrueKeep ==
    /\ frames # <<>> /\ ~ Untried
    /\ frames' = SubSeq(frames, 1, Len(frames) - 1)
    /\ result' = IF Len(frames) = 1 THEN "True" ELSE "none"
    /\ UNCHANGED <<blocks, parentQueue, nextChildBlock, nextDepositBlock, spent, abandoned>>

\* It has tried them all: they are dropped, added or not.
ReturnTrue ==
    /\ frames # <<>> /\ ~ Untried
    /\ parentQueue' = [n \in DOMAIN parentQueue \ {Innermost.number} |-> parentQueue[n]]
    /\ frames' = SubSeq(frames, 1, Len(frames) - 1)
    /\ result' = IF Len(frames) = 1 THEN "True" ELSE "none"
    /\ UNCHANGED <<blocks, nextChildBlock, nextDepositBlock, spent, abandoned>>

ChildNext == (\E b \in Blocks : AddBlock(b)) \/ AddWaiting \/ ReturnTrue

ChildSpec == ChildInit /\ [][ChildNext]_childVars

----------------------------------------------------------------------------

ChildTypeOK ==
    /\ blocks \in [DOMAIN blocks -> Blocks]
    /\ parentQueue \in [DOMAIN parentQueue -> Seq(Blocks)]
    /\ DOMAIN blocks \cup DOMAIN parentQueue \subseteq Nat
    /\ nextChildBlock \in Nat /\ nextDepositBlock \in 1 .. nextChildBlock
    /\ spent \subseteq Txs \X (Nat \ {0})
    /\ frames \in Seq([number : Nat, tried : Nat])
    /\ result \in {"none", "True", "False", "raised"}
    /\ abandoned \subseteq Nat

\* No output is spent by two blocks, in whatever order they came, waited and were added, and each
\* spends only outputs of blocks with lower numbers (child_chain.py: a waiting block is validated
\* when it is its turn, against what is there and spent then).
SpendsTheOlder ==
    \A n \in DOMAIN blocks : \A k \in DOMAIN blocks[n].transactions :
        LET t == blocks[n].transactions[k]
        IN  \A x \in InputsOf(t) : Exists(TxInputs[t][x]) /\ Located(TxInputs[t][x]).blknum < n
BlocksSpendOnce ==
    /\ SpendsTheOlder
    /\ \A m, n \in DOMAIN blocks : m # n => SpentBy(blocks[m]) \cap SpentBy(blocks[n]) = {}

\* No output is named twice by the inputs of a block: as temp_spent is always empty, nothing sees
\* to that.
NamesEachOnce(b) ==
    \A k, l \in DOMAIN b.transactions :
        \A x \in InputsOf(b.transactions[k]), y \in InputsOf(b.transactions[l]) :
            <<k, x>> # <<l, y>> =>
                OutputOf(TxInputs[b.transactions[k]][x]) # OutputOf(TxInputs[b.transactions[l]][y])

\* The blocks make no value, as long as each of them names no output twice: the outputs that are
\* there and not spent are worth no more than the deposits, whatever is included twice.
Outputs(txs) == UNION {{t} \X (DOMAIN TxOutputs[t]) : t \in txs}
Worth(outputs) == SumFunction([o \in outputs |-> Value(o)])
IncludedTxs == UNION {{blocks[n].transactions[k] : k \in DOMAIN blocks[n].transactions} : n \in DOMAIN blocks}
NoValueCreated ==
    (\A n \in DOMAIN blocks : NamesEachOnce(blocks[n])) =>
        Worth(Outputs(IncludedTxs) \ spent) <= Worth(Outputs({t \in IncludedTxs : IsDepositTx(t)}))

\* No block waits for one that is there, unless that one is still at it or an exception ended it.
WaitersAreServed ==
    \A n \in DOMAIN parentQueue \cap DOMAIN blocks :
        n \in abandoned \cup {frames[k].number : k \in DOMAIN frames}

\* The heads and the stored blocks move as the numbers of BlockController do, whatever blocks
\* come in whatever order.
Numbers == INSTANCE BlockController WITH
    now <- 1, MaxTime <- 1,
    nextDeposit <- nextDepositBlock - (nextChildBlock - ChildBlockInterval),
    blocks <- [n \in DOMAIN blocks |->
                 [kind |-> IF n % ChildBlockInterval = 0 THEN "child" ELSE "deposit", timestamp |-> 1]]
NumbersLikeTheContract == Numbers!Spec
====
