---- MODULE TestingLanguage ----
(***************************************************************************)
(* The testing language of the Python tests (testlang.py): every operation *)
(* goes to the contracts and to the ChildChain beside them, and what it    *)
(* hands to the exit game (positions, proofs, signatures, indexes) it      *)
(* takes from that ChildChain.  The contracts number the blocks as in      *)
(* BlockController and keep their roots; what they demand of the arguments *)
(* of a call is stated at the end, from the controllers.                   *)
(***************************************************************************)
EXTENDS ChildChain

CONSTANTS
    DepositTxs, TxLists,    \* what tests deposit and put into a block
    MerkleDepth             \* 16 in the code

ASSUME LanguageAssumption ==
    /\ DepositTxs \subseteq {t \in Txs : TxInputs[t] = <<>>}
    /\ TxLists \subseteq Seq(Txs) /\ \A txs \in TxLists : Len(txs) <= 2^MerkleDepth
    /\ MerkleDepth \in Nat \ {0} /\ TxIndexSize = 2^MerkleDepth
    \* What powers are, which the proofs know from here only.
    /\ 2^0 = 1 /\ \A i \in 1 .. MerkleDepth : 2^i = 2 * 2^(i - 1)
    \* The inputs that spend_utxo gives a transaction are decoded from identifiers.
    /\ \A t \in Txs : \A x \in DOMAIN TxInputs[t] : Decode(IdOf(TxInputs[t][x])) = TxInputs[t][x]
    \* Outputs are asked for up to the second one.
    /\ TXINDEX_OFFSET >= 2

VARIABLES
    rootNextChild, rootNextDeposit, rootBlocks,     \* BlockController
    rootTxs,        \* number -> the transactions of the block whose root was submitted
    asserting,      \* submit_block waits for what add_block returns
    failed,         \* history: add_block did not return True to a submit_block
    forced,         \* history: the numbers of the blocks that were not validated
    call            \* the call of the exit game that is made, with its arguments

rootVars == <<rootNextChild, rootNextDeposit, rootBlocks, rootTxs>>
vars == <<childVars, rootVars, asserting, failed, forced, call>>

Root == INSTANCE BlockController WITH
    now <- 1, MaxTime <- 1, nextChildBlock <- rootNextChild, nextDeposit <- rootNextDeposit,
    blocks <- rootBlocks

NoCall == [kind |-> "none"]

Init ==
    /\ ChildInit
    /\ Root!Init /\ rootTxs = <<>>
    /\ asserting = FALSE /\ failed = FALSE /\ forced = {}
    /\ call = NoCall

----------------------------------------------------------------------------
\* Deposits and blocks.

Idle == frames = <<>> /\ ~ asserting /\ call = NoCall

\* The operations make a new object for each transaction.
New(txs) == \A n \in DOMAIN rootTxs : \A k \in DOMAIN txs, j \in DOMAIN rootTxs[n] : rootTxs[n][j] # txs[k]

PutRoot(n, txs) == rootTxs' = [m \in DOMAIN rootTxs \cup {n} |-> IF m = n THEN txs ELSE rootTxs[m]]

\* What add_block returns is not looked at.
Deposit(t) ==
    /\ Idle /\ New(<<t>>)
    /\ Root!SubmitDepositBlock
    /\ PutRoot(Root!NextDepositBlock, <<t>>)
    /\ Activate([number |-> Root!NextDepositBlock, transactions |-> <<t>>, signer |-> NoOne], <<>>)
    /\ UNCHANGED <<asserting, failed, forced, call>>

\* A mutant: the numbers for deposits go on where they were.
ForceBlockNoReset(b) ==
    /\ blocks' = [n \in DOMAIN blocks \cup {nextChildBlock} |-> IF n = nextChildBlock THEN b ELSE blocks[n]]
    /\ nextChildBlock' = nextChildBlock + ChildBlockInterval
    /\ UNCHANGED <<parentQueue, nextDepositBlock, spent, frames, result, abandoned>>

\* Stored under the next number of the child chain, which is taken to be the block's; nothing is
\* validated and nothing marked as spent.
ForceBlock(b) ==
    /\ blocks' = [n \in DOMAIN blocks \cup {nextChildBlock} |-> IF n = nextChildBlock THEN b ELSE blocks[n]]
    /\ nextDepositBlock' = nextChildBlock + 1
    /\ nextChildBlock' = nextChildBlock + ChildBlockInterval
    /\ UNCHANGED <<parentQueue, spent, frames, result, abandoned>>

\* The contract has the block before the child chain looks at it.
SubmitBlock(txs, forceInvalid) ==
    /\ Idle /\ New(txs)
    /\ Root!SubmitBlock
    /\ PutRoot(rootNextChild, txs)
    /\ LET b == [number |-> rootNextChild, transactions |-> txs, signer |-> Operator]
       IN  IF forceInvalid THEN ForceBlock(b) ELSE Activate(b, <<>>)
    /\ asserting' = ~ forceInvalid
    /\ forced' = IF forceInvalid THEN forced \cup {nextChildBlock} ELSE forced
    /\ UNCHANGED <<failed, call>>

AddBlockGoesOn ==
    /\ AddWaiting \/ ReturnTrue
    /\ UNCHANGED <<rootVars, asserting, failed, forced, call>>

\* assert self.child_chain.add_block(signed_block)
AssertAdded ==
    /\ asserting /\ frames = <<>>
    /\ asserting' = FALSE
    /\ failed' = (failed \/ result # "True")
    /\ UNCHANGED <<childVars, rootVars, forced, call>>

----------------------------------------------------------------------------
\* What the calls are given.

HasTx(p) == p.blknum \in DOMAIN blocks /\ p.txindex + 1 \in DOMAIN blocks[p.blknum].transactions

\* The positions of the transactions that the child chain has, what the operations returned; and
\* of their first two outputs, there or not.
PositionsOf(oindexes) ==
    {p \in [blknum : DOMAIN blocks, txindex : 0 .. 2^MerkleDepth - 1, oindex : oindexes] : HasTx(p)}
TxPositions == PositionsOf({0})
OutputPositions == PositionsOf(0 .. 1)

Encoded(t) == <<TxInputs[t], TxOutputs[t]>>
Leaves(txs) == [k \in 1 .. 2^MerkleDepth |-> IF k <= Len(txs) THEN Encoded(txs[k]) ELSE <<>>]

\* A mutant: the index of the last transaction.
FirstIndexLast(txs, t) == Len(txs) - 1

\* leaves.index: the first of equal leaves.
FirstIndex(txs, t) == LET leaves == Leaves(txs) IN Min({k \in DOMAIN leaves : leaves[k] = Encoded(t)}) - 1

\* A hash is named by the leaves below it: the j-th node, from 0, of the i-th level.
NodeOf(leaves, i, j) == SubSeq(leaves, (j * 2^i) + 1, (j + 1) * 2^i)
\* The hashes beside the path.
MembershipProof(txs, t) ==
    [i \in 1 .. MerkleDepth |->
        LET at == FirstIndex(txs, t) \div 2^(i - 1)
        IN  NodeOf(Leaves(txs), i - 1, IF at % 2 = 0 THEN at + 1 ELSE at - 1)]
GetMerkleProof(p) == MembershipProof(blocks[p.blknum].transactions, GetTransaction(p))

\* Equal identifiers.
Same(i, j) == IdOf(i) = IdOf(j)

\* A mutant: only inputs at the same index are compared.
SharedInputsAligned(a, b) ==
    {ij \in (DOMAIN TxInputs[a]) \X (DOMAIN TxInputs[b]) :
        ij[1] = ij[2] /\ Same(TxInputs[a][ij[1]], TxInputs[b][ij[2]]) /\ IdOf(TxInputs[a][ij[1]]) # 0}
\* The last pair of equal inputs counts; without any, both indexes are the first.
SharedInputs(a, b) ==
    {ij \in (DOMAIN TxInputs[a]) \X (DOMAIN TxInputs[b]) :
        Same(TxInputs[a][ij[1]], TxInputs[b][ij[2]]) /\ IdOf(TxInputs[a][ij[1]]) # 0}
FindSharedInput(a, b) ==
    IF SharedInputs(a, b) = {} THEN <<1, 1>>
    ELSE CHOOSE ij \in SharedInputs(a, b) :
            \A kl \in SharedInputs(a, b) : kl[1] < ij[1] \/ (kl[1] = ij[1] /\ kl[2] <= ij[2])

FindInputIndex(outputId, b) ==
    LET found == {k \in DOMAIN TxInputs[b] : IdOf(TxInputs[b][k]) = outputId}
    IN  IF found = {} THEN 1 ELSE Max(found)

----------------------------------------------------------------------------
\* The operations on exits.  What the child chain does not have raises KeyError or IndexError:
\* then there is no call.

Calls(c) == call' = c /\ UNCHANGED <<childVars, rootVars, asserting, failed, forced>>

\* The proof is one in the tree of the transactions txs; t is one of them, or MemberNotExistException.
StartStandardExitWithTxBody(p, t, txs) ==
    /\ \E k \in DOMAIN txs : Encoded(txs[k]) = Encoded(t)
    /\ Calls([kind |-> "startStandardExit", pos |-> p, tx |-> t, tree |-> txs, proof |-> MembershipProof(txs, t)])

StartStandardExit(p) ==
    /\ HasTx(p)
    /\ StartStandardExitWithTxBody(p, GetTransaction(p), blocks[p.blknum].transactions)

\* By itself, without a block: the tree is that of the transaction alone.
StartStandardExitAlone(p, t) == StartStandardExitWithTxBody(p, t, <<t>>)

\* The first input that is the exit's output; without one, there is no signature to take.
ChallengeStandardExit(p, q) ==
    /\ HasTx(p) /\ HasTx(q)
    /\ LET spends == {k \in DOMAIN TxInputs[GetTransaction(q)] : Same(TxInputs[GetTransaction(q)][k], p)}
       IN  /\ spends # {}
           /\ Calls([kind |-> "challengeStandardExit", shared |-> p, sharedTx |-> GetTransaction(p),
                     tx |-> GetTransaction(q), index |-> Min(spends),
                     signer |-> TxSigners[GetTransaction(q)][Min(spends)]])

\* The input, the signature or both are given.
ChallengeStandardExitGiven(p, q, k, who) ==
    /\ HasTx(p) /\ HasTx(q)
    /\ Calls([kind |-> "challengeStandardExit", shared |-> p, sharedTx |-> GetTransaction(p),
              tx |-> GetTransaction(q), index |-> k, signer |-> who, given |-> TRUE])

\* The numbers of a set in their order: a loop over the inputs that passes over some.
Ascending(S) == CHOOSE s \in [1 .. Cardinality(S) -> S] : \A i, j \in DOMAIN s : i < j => s[i] < s[j]

\* A mutant: a signature for every input, from the first on.
SignersFromFirst(t) == [k \in 1 .. Cardinality(InputsOf(t)) |-> TxSigners[t][1]]
SignersOf(t) == LET ks == Ascending(InputsOf(t)) IN [k \in DOMAIN ks |-> TxSigners[t][ks[k]]]

\* All positions are given, the rest only for inputs that are not of block 0.
InFlightExitInfo(t) ==
    LET ks == Ascending(InputsOf(t))
        input(k) == TxInputs[t][ks[k]]
    IN  [kind |-> "startInFlightExit", tx |-> t, positions |-> TxInputs[t],
         inputTxs |-> [k \in DOMAIN ks |-> GetTransaction(input(k))],
         proofs |-> [k \in DOMAIN ks |-> GetMerkleProof(input(k))],
         signers |-> SignersOf(t)]

\* The transaction need not be in the child chain, those it spends need.
StartInFlightExit(t) ==
    /\ \A k \in InputsOf(t) : HasTx(TxInputs[t][k])
    /\ Calls(InFlightExitInfo(t))

\* The input that the call is about: of the transaction t that exits, and of s that competes.
SharedCall(kind, t, s) ==
    LET ij == FindSharedInput(t, s)
        shared == TxInputs[t][ij[1]]
    IN  [kind |-> kind, exiting |-> t, exitingIndex |-> ij[1], tx |-> s, index |-> ij[2],
         signer |-> TxSigners[s][ij[2]], shared |-> shared, sharedTx |-> GetTransaction(shared)]
WithProof(c, q) ==
    [field \in DOMAIN c \cup {"pos", "proof"} |->
        CASE field = "pos" -> q
          [] field = "proof" -> GetMerkleProof(q)
          [] OTHER -> c[field]]
CanShare(t, s) ==
    /\ TxInputs[t] # <<>> /\ TxInputs[s] # <<>>
    /\ HasTx(TxInputs[t][FindSharedInput(t, s)[1]])

ChallengeInFlightExitNotCanonical(t, q) ==
    /\ HasTx(q) /\ CanShare(t, GetTransaction(q))
    /\ LET c == SharedCall("challengeInFlightExitNotCanonical", t, GetTransaction(q))
       IN  Calls(WithProof(c, q))

RespondToNonCanonicalChallenge(p) ==
    /\ HasTx(p)
    /\ Calls([kind |-> "respondToNonCanonicalChallenge", pos |-> p, tx |-> GetTransaction(p),
              proof |-> GetMerkleProof(p)])

ChallengeInFlightExitInputSpent(t, q) ==
    /\ HasTx(q) /\ CanShare(t, GetTransaction(q))
    /\ Calls(SharedCall("challengeInFlightExitInputSpent", t, GetTransaction(q)))

\* The output's identifier is the transaction's plus its index.
ChallengeInFlightExitOutputSpent(p, q, k) ==
    /\ HasTx(p) /\ HasTx(q) /\ TxInputs[GetTransaction(q)] # <<>>
    /\ LET s == GetTransaction(q)
           index == FindInputIndex(IdOf(p) + k, s)
       IN  Calls([kind |-> "challengeInFlightExitOutputSpent", pos |-> p, exiting |-> GetTransaction(p),
                  proof |-> GetMerkleProof(p), shared |-> Decode(IdOf(p) + k),
                  sharedTx |-> GetTransaction(p), tx |-> s, index |-> index, signer |-> TxSigners[s][index]])

Call ==
    /\ Idle
    /\ \/ \E p \in OutputPositions : StartStandardExit(p) \/ \E t \in Txs : StartStandardExitAlone(p, t)
       \/ \E p \in TxPositions : RespondToNonCanonicalChallenge(p)
       \/ \E p \in OutputPositions, q \in TxPositions :
            \/ ChallengeStandardExit(p, q)
            \/ \E k \in DOMAIN TxInputs[GetTransaction(q)], who \in Addresses : ChallengeStandardExitGiven(p, q, k, who)
       \/ \E p, q \in TxPositions, k \in 0 .. 1 : ChallengeInFlightExitOutputSpent(p, q, k)
       \/ \E t \in Txs : StartInFlightExit(t)
       \/ \E t \in Txs, q \in TxPositions :
            ChallengeInFlightExitNotCanonical(t, q) \/ ChallengeInFlightExitInputSpent(t, q)

CallReturns ==
    /\ call # NoCall
    /\ call' = NoCall
    /\ UNCHANGED <<childVars, rootVars, asserting, failed, forced>>

Next ==
    \/ \E t \in DepositTxs : Deposit(t)
    \/ \E txs \in TxLists, forceInvalid \in BOOLEAN : SubmitBlock(txs, forceInvalid)
    \/ AddBlockGoesOn
    \/ AssertAdded
    \/ Call
    \/ CallReturns

Spec == Init /\ [][Next]_vars

----------------------------------------------------------------------------
\* What the contracts demand.

\* Merkle.checkMembership, with the leaves that the climbed path has in place of its hash.
Climbed(tx, index, proof) ==
    LET up[i \in 0 .. Len(proof)] ==
          IF i = 0 THEN <<Encoded(tx)>>
          ELSE IF (index \div 2^(i - 1)) % 2 = 0 THEN up[i - 1] \o proof[i] ELSE proof[i] \o up[i - 1]
    IN  up[Len(proof)]
Included(tx, p, proof) ==
    /\ p.blknum \in DOMAIN rootTxs
    /\ Climbed(tx, p.txindex, proof) = Leaves(rootTxs[p.blknum])

\* PaymentOutputToPaymentTxCondition.verify: the input of tx is the output, signed for by its owner.
SpendingCondition(sharedTx, p, tx, index, signer) ==
    /\ index \in DOMAIN TxInputs[tx] /\ TxInputs[tx][index] = p
    /\ p.oindex + 1 \in DOMAIN TxOutputs[sharedTx]
    /\ TxOutputs[sharedTx][p.oindex + 1].output_guard = signer

----------------------------------------------------------------------------

\* As long as no submit_block failed, the child chain has what the contracts have: the next
\* numbers and the blocks, valid or forced.  Once one failed it adds nothing any more: the
\* numbers that the contracts give are never the ones it waits for, and the deposits from then
\* on wait for ever.
InStep ==
    Idle =>
        IF failed
        THEN {rootNextChild, rootNextChild - ChildBlockInterval + rootNextDeposit}
                 \cap {nextChildBlock, nextDepositBlock} = {}
        ELSE /\ nextChildBlock = rootNextChild
             /\ nextDepositBlock = rootNextChild - ChildBlockInterval + rootNextDeposit
             /\ rootTxs = [n \in DOMAIN blocks |-> blocks[n].transactions]

\* A proof from the child chain is one for the block that the contracts know, at the position that
\* the call gives - unless an equal transaction comes before it in the block.  One that is made from
\* the transaction alone must be, where that is the whole block.
FirstOfEqual(p) ==
    LET txs == blocks[p.blknum].transactions
    IN  \A k \in DOMAIN txs : Encoded(txs[k]) = Encoded(txs[p.txindex + 1]) => k > p.txindex
OfItsBlock(c) == "tree" \in DOMAIN c => Leaves(c.tree) = Leaves(rootTxs[c.pos.blknum])
ProofsAccepted ==
    ~ failed /\ "proof" \in DOMAIN call /\ OfItsBlock(call) =>
        (FirstOfEqual(call.pos) => Included(GetTransaction(call.pos), call.pos, call.proof))

\* For a transaction that the child chain validated, the arguments of startInFlightExit fit: one
\* input transaction, proof and signature per position, included where the position says and
\* signed for by the owner.
InFlightInfoFits ==
    /\ call.kind = "startInFlightExit" /\ ~ failed
    /\ \E n \in DOMAIN blocks \ forced : \E k \in DOMAIN blocks[n].transactions : blocks[n].transactions[k] = call.tx
    /\ \A k \in DOMAIN TxInputs[call.tx] : ~ IsNothing(TxInputs[call.tx][k])
    => /\ Len(call.inputTxs) = Len(call.positions) /\ Len(call.signers) = Len(call.positions)
       /\ \A k \in DOMAIN call.positions :
            /\ SpendingCondition(call.inputTxs[k], call.positions[k], call.tx, k, call.signers[k])
            /\ FirstOfEqual(call.positions[k]) =>
                 Included(call.inputTxs[k], call.positions[k], call.proofs[k])

\* A challenge with a transaction that was validated and spends what the exit is about, names that
\* input on both sides, and its signature is the owner's.  What a test gives itself must be right.
Spent(c) ==
    IF "exitingIndex" \in DOMAIN c
    THEN \E k \in InputsOf(c.exiting) : TxInputs[c.exiting][k] \in {TxInputs[c.tx][x] : x \in InputsOf(c.tx)}
    ELSE IF "given" \in DOMAIN c
    THEN c.shared = TxInputs[c.tx][c.index] /\ c.signer = TxSigners[c.tx][c.index]
    ELSE c.shared \in {TxInputs[c.tx][x] : x \in InputsOf(c.tx)}
ChallengesNameTheSpend ==
    /\ "sharedTx" \in DOMAIN call /\ ~ failed
    /\ \E n \in DOMAIN blocks \ forced : \E k \in DOMAIN blocks[n].transactions : blocks[n].transactions[k] = call.tx
    /\ Spent(call)
    => /\ SpendingCondition(call.sharedTx, call.shared, call.tx, call.index, call.signer)
       /\ "exitingIndex" \in DOMAIN call => TxInputs[call.exiting][call.exitingIndex] = call.shared
====
