---- MODULE MCPython ----
(***************************************************************************)
(* The Python side that shares no state: the child chain of the tests, the *)
(* Merkle tree, the signing of transactions, the time of the test chain,   *)
(* the view of an in-flight exit, and the check of the faucet in CI.  One  *)
(* of them moves in a behaviour, the others rest.                          *)
(*                                                                         *)
(* Child chain: two owners, an interval of three, three child blocks.  The *)
(* deposits are worth 2 and 1.  The spends compete for the first deposit,  *)
(* take its change, sign for another's output, name a block that may never *)
(* come, or make more of less; two of them may come in one block.          *)
(*                                                                         *)
(* Trees are of depth two; a leaf may be a pair of hashes: the leaves      *)
(* below one inner node.  Of the two transactions to sign, one has two     *)
(* inputs.  The in-flight exit has five inputs and three outputs of two    *)
(* tokens; the two empty outputs have the token of ETH.                    *)
(***************************************************************************)
EXTENDS ChildChain, FixedMerkle, Eip712Signing, TestClock, InFlightExitView, FaucetCheck, TLC

CONSTANTS
    Alice, Bob, Oscar, Unsigned, DepositA, DepositB, Spend, Rival, SpendNext, Forged, Missing, Mint,
    TxA, TxB, Null, FullFaucet, ETH, ERC20

VARIABLE part           \* the one that moves

Parts == {"chain", "tree", "signing", "time", "view", "faucet"}

MCInit ==
    /\ part \in Parts
    /\ ChildInit /\ MerkleInit /\ SigningInit /\ ClockInit /\ ViewInit /\ FaucetInit
    /\ part # "tree" => \A j \in Indexes(0) : tree[0][j] = HashLeaf(NULL_HASH)
    /\ part # "faucet" => faucet = FullFaucet

MCVars == <<part, childVars, merkleVars, signingVars, clockVars, viewVars, faucetVars>>

MCNext ==
    /\ UNCHANGED part
    /\ part # "chain" => UNCHANGED childVars
    /\ part # "tree" => UNCHANGED merkleVars
    /\ part # "signing" => UNCHANGED signingVars
    /\ part # "time" => UNCHANGED clockVars
    /\ part # "view" => UNCHANGED viewVars
    /\ part # "faucet" => UNCHANGED faucetVars
    /\ \/ part = "chain" /\ ChildNext
       \/ part = "tree" /\ MerkleNext
       \/ part = "signing" /\ SigningNext
       \/ part = "time" /\ ClockNext
       \/ part = "view" /\ ViewNext
       \/ part = "faucet" /\ FaucetNext

\* The fairness is FaucetSpec's, where the faucet's jobs move.
Resting == UNCHANGED <<part, childVars, merkleVars, signingVars, clockVars, viewVars>>
MCSpec ==
    /\ MCInit /\ [][MCNext]_MCVars
    /\ \A j \in Jobs : WF_MCVars(part = "faucet" /\ Resting /\ Run(j))

In(n, k) == [blknum |-> n, txindex |-> k, oindex |-> 0]
Out(who, a) == [output_guard |-> who, amount |-> a]

MCTxs == {DepositA, DepositB, Spend, Rival, SpendNext, Forged, Missing, Mint}
MCAddresses == {Alice, Bob, Oscar}

MCTxInputs ==
    DepositA :> <<>> @@ DepositB :> <<>> @@
    Spend :> <<In(1, 0)>> @@ Rival :> <<In(1, 0)>> @@
    SpendNext :> <<In(3, 0)>> @@ Forged :> <<In(1, 0)>> @@
    Missing :> <<In(5, 0)>> @@ Mint :> <<In(1, 0)>>
MCTxOutputs ==
    DepositA :> <<Out(Alice, 2)>> @@ DepositB :> <<Out(Bob, 1)>> @@
    Spend :> <<Out(Bob, 2)>> @@ Rival :> <<Out(Alice, 1)>> @@
    SpendNext :> <<Out(Bob, 1)>> @@ Forged :> <<Out(Bob, 2)>> @@
    Missing :> <<Out(Bob, 1)>> @@ Mint :> <<Out(Alice, 3)>>
MCTxSigners ==
    DepositA :> <<>> @@ DepositB :> <<>> @@
    Spend :> <<Alice>> @@ Rival :> <<Alice>> @@
    SpendNext :> <<Bob>> @@ Forged :> <<Bob>> @@
    Missing :> <<Alice>> @@ Mint :> <<Alice>>

Block(n, txs, who) == [number |-> n, transactions |-> txs, signer |-> who]
MCBlocks ==
    {Block(n, <<DepositA>>, Unsigned) : n \in {1, 4}} \cup {Block(n, <<DepositB>>, Unsigned) : n \in {2, 5}}
    \cup {Block(3, <<t>>, Oscar) : t \in {Spend, Forged, Mint}}
    \cup {Block(4, <<Rival>>, Oscar), Block(4, <<SpendNext>>, Oscar), Block(2, <<Spend>>, Unsigned),
          Block(5, <<Missing>>, Oscar), Block(6, <<SpendNext>>, Oscar), Block(6, <<Rival>>, Alice),
          Block(3, <<Spend, Rival>>, Oscar), Block(6, <<Spend, SpendNext>>, Oscar),
          Block(2, <<Rival>>, Oscar), Block(2, <<SpendNext>>, Oscar), Block(6, <<Missing>>, Oscar)}

MCPair == <<HashLeaf(TxB), HashLeaf(TxA)>>
MCLeafData == {TxA, TxB, Null, MCPair}
MCLevelSize == 0 :> 4 @@ 1 :> 2 @@ 2 :> 1
MCLists == {<<>>, <<TxA>>, <<TxB, TxA, TxA>>, <<MCPair, TxA, TxB, TxA>>}

MCTransactions == {TxA, TxB}
MCContent == TxA :> "spend" @@ TxB :> "other"
MCNumInputs == TxA :> 2 @@ TxB :> 1

MCTokenOf == [k \in MapBits |-> IF k \in {1, 4, 6} THEN ERC20 ELSE ETH]
MCFilled == 0 .. 7
====
