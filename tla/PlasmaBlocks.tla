---- MODULE PlasmaBlocks ----
(***************************************************************************)
(* What the exit games read of the rest of the framework: the clock        *)
(* (block.timestamp), the Plasma blocks whose roots the operator and the   *)
(* vaults submitted, and the payment transactions that exist.              *)
(*                                                                         *)
(* A transaction is a name for its RLP bytes (so it is also its hash).     *)
(* Txs holds those whose inputs carry valid witnesses, included or not:    *)
(* MoreVP lets a transaction be used in a game as soon as it exists.  An   *)
(* output is named by its outputId, the pair of the transaction that       *)
(* creates it and its index, from 1.  An input of a transaction holds a    *)
(* position only; its witness, the signature of an owner, is valid for one *)
(* output, so both are given here.                                         *)
(*                                                                         *)
(* A Plasma block is one entry of the sequence chain, and a transaction's  *)
(* position is its index there: BlockController hands out block numbers in *)
(* the order of submission, so only the order is kept.  The operator may   *)
(* be byzantine: it includes any transaction, at any time, more than once, *)
(* so that the outputs of a transaction may be at several positions.       *)
(***************************************************************************)
EXTENDS Integers, Sequences, FiniteSetsExt

CONSTANTS
    Txs,            \* the payment transactions that exist
    Deposits,       \* Seq(Txs): those that the vaults made for deposits, in their order
    TxInputs,       \* [Txs -> Seq([output, position])]: the outputs a transaction spends
    TxOutputs,      \* [Txs -> Seq([token, amount])]: the outputs it creates
    Tokens,         \* the tokens, ETH (address 0) among them
    ETH,
    MinExitPeriod,  \* PlasmaFramework.minExitPeriod
    DepositTime,    \* when the deposits were made
    StartTime,      \* when the run starts
    \* Bounds of the model, not of the code.
    MaxBlocks,      \* blocks submitted beyond the deposits
    MaxTime         \* the clock stops here

VARIABLES
    now,            \* block.timestamp
    chain           \* the Plasma blocks: Seq([tx, timestamp])

chainVars == <<now, chain>>

DepositTxs == Range(Deposits)
Inputs(t) == {input.output : input \in Range(TxInputs[t])}
Outputs(t) == {<<t, i>> : i \in DOMAIN TxOutputs[t]}
OutputIds == UNION {Outputs(t) : t \in Txs}
Token(o) == TxOutputs[o[1]][o[2]].token
Amount(o) == TxOutputs[o[1]][o[2]].amount

\* The inputs and the outputs of t by their index.  One output may be at several inputs: they
\* must only be at different positions, and the operator may include a transaction twice.
InputSlots(t) == {"input"} \X DOMAIN TxInputs[t]
OutputSlots(t) == {"output"} \X DOMAIN TxOutputs[t]
Slots == UNION {InputSlots(t) \cup OutputSlots(t) : t \in Txs}
OutputAt(t, s) == IF s[1] = "input" THEN TxInputs[t][s[2]].output ELSE <<t, s[2]>>

\* Payment transactions conserve value per token: no token's outputs exceed its inputs, each
\* input counted for itself.
IsCorrectStateTransition(t) ==
    LET sum(slots, k) ==
            SumFunction([s \in {s \in slots : Token(OutputAt(t, s)) = k} |-> Amount(OutputAt(t, s))])
    IN  \A k \in Tokens : sum(InputSlots(t), k) >= sum(OutputSlots(t), k)

ASSUME TimeAssumption ==
    /\ MinExitPeriod \in Nat /\ MinExitPeriod >= 2
    /\ {DepositTime, StartTime, MaxTime, MaxBlocks} \subseteq Nat
    /\ 0 < DepositTime /\ DepositTime <= StartTime
ASSUME TxAssumption ==
    /\ IsFiniteSet(Txs)     \* those that exist at one time; their bonds are summed
    /\ Deposits \in Seq(Txs)
    /\ \A p, q \in DOMAIN Deposits : Deposits[p] = Deposits[q] => p = q
    /\ ETH \in Tokens
    /\ TxOutputs \in [Txs -> Seq([token : Tokens, amount : Nat])]
    /\ TxInputs \in [Txs -> Seq([output : OutputIds, position : Nat])]
\* A transaction never spends its own output: an outputId hashes the bytes that name the inputs.
ASSUME HashAssumption == \A t \in Txs : Inputs(t) \cap Outputs(t) = {}

BlockOf(p) == chain[p]
Positions(t) == {p \in DOMAIN chain : chain[p].tx = t}
IsStandardFinalized(t, p) == p \in Positions(t)
IsDeposit(p) == chain[p].tx \in DepositTxs

\* The output an input is shown to spend is computed from the creating transaction and the
\* position.  Only the id of a deposit's output depends on the position; for another it need
\* not be where the transaction is, but in some block of the operator.
Spends(t, o) ==
    \E input \in Range(TxInputs[t]) :
        /\ input.output = o
        /\ input.position \in DOMAIN chain
        /\ IsDeposit(input.position) \/ o[1] \in DepositTxs => chain[input.position].tx = o[1]
\* The stricter form, for an output at a known position.
SpendsAt(t, o, p) == [output |-> o, position |-> p] \in Range(TxInputs[t])

\* A mutant: the age of the block does not count.
CalculateTxExitableTimestampFromNow(blockTimestamp) == now + MinExitPeriod

\* ExitableTimestamp: a mined transaction exits two periods after its block, and never less
\* than one after the exit began; the output of a deposit needs only the latter.
CalculateTxExitableTimestamp(blockTimestamp) ==
    Max({blockTimestamp + 2 * MinExitPeriod, now + MinExitPeriod})
CalculateDepositTxOutputExitableTimestamp == now + MinExitPeriod

\* The deposits are in blocks of their own, made before the run starts.
ChainInit ==
    /\ now = StartTime
    /\ chain = [p \in DOMAIN Deposits |-> [tx |-> Deposits[p], timestamp |-> DepositTime]]

Tick ==
    /\ now < MaxTime
    /\ now' = now + 1
    /\ UNCHANGED chain

SubmitBlock(t) ==
    /\ t \in Txs \ DepositTxs
    /\ Len(chain) < Len(Deposits) + MaxBlocks
    /\ chain' = Append(chain, [tx |-> t, timestamp |-> now])
    /\ UNCHANGED now

ChainTypeOK ==
    /\ now \in Nat
    /\ chain \in Seq([tx : Txs, timestamp : Nat])
    /\ Len(chain) <= Len(Deposits) + MaxBlocks
====
