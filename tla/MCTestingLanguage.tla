---- MODULE MCTestingLanguage ----
(***************************************************************************)
(* A small world for TestingLanguage: two deposits by two owners, at an    *)
(* interval of three; transactions that spend them once, twice, with two   *)
(* inputs, with an input of block 0, that spend another's output or the    *)
(* change.  Rival and Twin are equal.                                      *)
(***************************************************************************)
EXTENDS TestingLanguage, TLC

CONSTANTS Alice, Bob, Oscar, None, DepositA, DepositB, Spend, Rival, Twin, Join, SpendNext, Forged, ZeroIn

In(n, k) == [blknum |-> n, txindex |-> k, oindex |-> 0]
Out(who, a) == [output_guard |-> who, amount |-> a]

MCTxs == {DepositA, DepositB, Spend, Rival, Twin, Join, SpendNext, Forged, ZeroIn}
MCAddresses == {Alice, Bob, Oscar}

MCTxInputs ==
    DepositA :> <<>> @@ DepositB :> <<>> @@
    Spend :> <<In(1, 0)>> @@ Rival :> <<In(1, 0)>> @@ Twin :> <<In(1, 0)>> @@
    Join :> <<In(2, 0), In(1, 0)>> @@ SpendNext :> <<In(3, 0)>> @@
    Forged :> <<In(1, 0)>> @@ ZeroIn :> <<In(0, 0), In(1, 0)>>
MCTxOutputs ==
    DepositA :> <<Out(Alice, 2)>> @@ DepositB :> <<Out(Bob, 1)>> @@
    Spend :> <<Out(Bob, 1), Out(Alice, 1)>> @@ Rival :> <<Out(Alice, 1)>> @@ Twin :> <<Out(Alice, 1)>> @@
    Join :> <<Out(Alice, 3)>> @@ SpendNext :> <<Out(Bob, 1)>> @@
    Forged :> <<Out(Bob, 2)>> @@ ZeroIn :> <<Out(Alice, 2)>>
MCTxSigners ==
    DepositA :> <<>> @@ DepositB :> <<>> @@
    Spend :> <<Alice>> @@ Rival :> <<Alice>> @@ Twin :> <<Alice>> @@
    Join :> <<Bob, Alice>> @@ SpendNext :> <<Bob>> @@
    Forged :> <<Bob>> @@ ZeroIn :> <<Alice, Alice>>

MCDepositTxs == {DepositA, DepositB}
MCTxLists == {<<Spend>>, <<Join>>, <<Rival, ZeroIn, Twin>>, <<SpendNext>>, <<Forged>>, <<ZeroIn>>}
MCBlocks == [number : 1 .. 6, transactions : MCTxLists, signer : {Oscar}]
            \cup [number : 1 .. 6, transactions : {<<t>> : t \in MCDepositTxs}, signer : {None}]
====
