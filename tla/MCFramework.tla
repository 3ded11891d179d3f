---- MODULE MCFramework ----
(***************************************************************************)
(* The parts of PlasmaFramework and of the contracts around it that share  *)
(* no state but the clock: one of them moves in a behaviour, the others    *)
(* stay as deployed, so that each is explored on its own.                  *)
(***************************************************************************)
EXTENDS BlockController, ExitPriority, PriorityQueue, ProcessExits, BondSize, DepositVerifier, Registries, Quasar

VARIABLE part           \* the one that moves

Parts == {"blocks", "priorities", "heap", "calls", "bond", "verifier", "registries", "quasar"}

MCInit ==
    /\ part \in Parts
    /\ Init /\ PriorityInit /\ HeapInit /\ ProcessInit /\ BondInit /\ VerifierInit /\ RegistryInit /\ QuasarInit

exitPriorityVars == <<words, exits>>
placeVars == <<depositVerifiers, newDepositVerifierMaturityTimestamp>>
registrationVars == <<registered, idOf, store, immunitiesRemaining, registeredAt>>

MCNext ==
    /\ UNCHANGED part
    /\ part # "blocks" => UNCHANGED vars
    /\ part # "priorities" => UNCHANGED exitPriorityVars
    /\ part # "heap" => UNCHANGED heapVars
    /\ part # "calls" => UNCHANGED exitVars
    /\ part # "bond" => UNCHANGED paramVars
    /\ part # "verifier" => UNCHANGED placeVars
    /\ part # "registries" => UNCHANGED registrationVars
    /\ part # "quasar" => UNCHANGED quasarVars
    /\ part \in {"blocks", "heap"} => UNCHANGED clock
    /\ \/ part = "blocks" /\ Next
       \/ part = "priorities" /\ PriorityNext
       \/ part = "heap" /\ HeapNext
       \/ part = "calls" /\ ProcessNext
       \/ part = "bond" /\ BondNext
       \/ part = "verifier" /\ VerifierNext
       \/ part = "registries" /\ RegistryNext
       \/ part = "quasar" /\ QuasarNext

MCSpec ==
    /\ MCInit
    /\ [][MCNext]_<<part, vars, exitPriorityVars, heapVars, processVars, paramVars, placeVars, registrationVars, quasarVars>>

\* Positions at both ends: the first block and the last that fits the priority, each of the four
\* transactions of a block, and a second output of the last one.
MCExitPositions ==
    {p \in UtxoPositions : p.blknum \in {0, MAX_BLOCK_NUM} /\ (p.oindex = 1 => p.txindex = MAX_TX_INDEX)}

MCGameOf == <<"payment", "other">>

\* An output of each token, the second in the last block.  The first is spent to the Quasar by an
\* included transaction and by one in flight, the second by one in flight whose other input a
\* rival spends; one more pays too little.
MCTicketToken == <<Ether, CHOOSE k \in PoolTokens : k # Ether>>
MCTicketAmount == <<2, 1>>
MCTicketBlock == <<2, 3>>
MCSpentBy == [included |-> <<1>>, other |-> <<1>>, inFlight |-> <<2, 8>>, rival |-> <<8>>, short |-> <<1>>]
MCFirstOutput ==
    LET pays(u, amount) == [token |-> MCTicketToken[u], amount |-> amount, toQuasar |-> TRUE]
    IN  [included |-> pays(1, 2), other |-> pays(1, 2), inFlight |-> pays(2, 1),
         rival |-> [pays(2, 1) EXCEPT !.toQuasar = FALSE], short |-> pays(1, 1)]
MCIfeStart == [included |-> 0, other |-> 2, inFlight |-> 1, rival |-> 0, short |-> 1]
====
