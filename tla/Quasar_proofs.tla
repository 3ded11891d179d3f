---- MODULE Quasar_proofs ----
(***************************************************************************)
(* The Quasar keeps its promises and counts what it holds, for any         *)
(* outputs, transactions, amounts and periods, and whatever the maintainer does with margins and funds.   *)
(***************************************************************************)
EXTENDS Quasar, ArithmeticLemmas

\* A ticket in force reserves the whole amount, a claimed one stays in force, and an in-flight
\* claim is one of a claimed ticket.
QuasarInv ==
    /\ clock \in Nat
    /\ ticketData \in [Tickets -> [validityTimestamp : Nat, reservedAmount : Nat, isClaimed : BOOLEAN]]
    /\ ifeClaimData \in
         [Tickets -> [rlpClaimTx : SpendingTxs \cup {<<>>}, finalizationTimestamp : Nat, isValid : BOOLEAN]]
    /\ received \in [Tickets -> Nat]
    /\ \A u \in Tickets :
         /\ ticketData[u].validityTimestamp # 0 => ticketData[u].reservedAmount = TicketAmount[u]
         /\ ticketData[u].isClaimed => ticketData[u].validityTimestamp # 0
         /\ ifeClaimData[u].isValid => ticketData[u].isClaimed

LEMMA QuasarInvHolds == QuasarSpec => []QuasarInv
  <1>1. QuasarInit => QuasarInv
    BY QuasarAssumption DEF QuasarInit, QuasarInv, NoTicket, NoClaim
  <1>2. QuasarInv /\ [QuasarNext]_<<clock, quasarVars>> => QuasarInv'
    <2> SUFFICES ASSUME QuasarInv, [QuasarNext]_<<clock, quasarVars>> PROVE QuasarInv'
      OBVIOUS
    <2> USE QuasarAssumption
    <2>1. CASE UNCHANGED <<clock, quasarVars>>
      BY <2>1 DEF QuasarInv, quasarVars, ticketVars
    <2>2. CASE QuasarTick
      BY <2>2 DEF QuasarInv, QuasarTick, TimePasses, quasarVars, ticketVars
    <2>3. ASSUME UNCHANGED <<clock, ticketVars>> PROVE QuasarInv'
      BY <2>3 DEF QuasarInv, ticketVars
    <2>4. CASE PauseOrResume \/ WithdrawUnclaimedBonds \/ \E margin \in Margins : SetSafeBlockMargin(margin)
      BY <2>3, <2>4 DEF PauseOrResume, WithdrawUnclaimedBonds, SetSafeBlockMargin
    <2>5. CASE \E token \in PoolTokens, amount \in Deposits : AddCapacity(token, amount) \/ Withdraw(token, amount)
      BY <2>3, <2>5 DEF AddCapacity, Withdraw
    <2>6. ASSUME NEW u \in Tickets, ObtainTicket(u) PROVE QuasarInv'
      BY <2>6 DEF QuasarInv, ObtainTicket
    <2>7. ASSUME NEW u \in Tickets, FlushExpiredTicket(u) PROVE QuasarInv'
      BY <2>7 DEF QuasarInv, FlushExpiredTicket
    <2>8. ASSUME NEW u \in Tickets, ProcessIfeClaim(u) PROVE QuasarInv'
      <3>1. received' \in [Tickets -> Nat]
        BY <2>8 DEF QuasarInv, ProcessIfeClaim, PayOut
      <3> QED BY <2>8, <3>1 DEF QuasarInv, ProcessIfeClaim
    <2>9. ASSUME NEW u \in Tickets, NEW tx \in SpendingTxs, ClaimIncluded(u, tx) PROVE QuasarInv'
      <3>1. received' \in [Tickets -> Nat]
        BY <2>9 DEF QuasarInv, ClaimIncluded, PayOut
      <3>2. ticketData[u].validityTimestamp # 0
        BY <2>9 DEF ClaimIncluded, ValidForClaim
      <3> QED BY <2>9, <3>1, <3>2 DEF QuasarInv, ClaimIncluded
    <2>10. ASSUME NEW u \in Tickets, NEW tx \in SpendingTxs, IfeClaim(u, tx) PROVE QuasarInv'
      <3>1. ticketData' = [ticketData EXCEPT ![u].isClaimed = TRUE] /\ ticketData[u].validityTimestamp # 0
        BY <2>10 DEF IfeClaim, ValidForClaim
      <3>2. clock + IFE_CLAIM_WAITING_PERIOD \in Nat
        BY DEF QuasarInv
      <3>3. ifeClaimData' \in
              [Tickets -> [rlpClaimTx : SpendingTxs \cup {<<>>}, finalizationTimestamp : Nat, isValid : BOOLEAN]]
        BY <2>10, <3>2 DEF QuasarInv, IfeClaim
      <3>4. \A v \in Tickets \ {u} : ifeClaimData'[v] = ifeClaimData[v]
        BY <2>10 DEF QuasarInv, IfeClaim
      <3>5. ticketData' \in [Tickets -> [validityTimestamp : Nat, reservedAmount : Nat, isClaimed : BOOLEAN]]
        BY <3>1 DEF QuasarInv
      <3>6. \A v \in Tickets :
              /\ ticketData'[v].validityTimestamp = ticketData[v].validityTimestamp
              /\ ticketData'[v].reservedAmount = ticketData[v].reservedAmount
              /\ ticketData[v].isClaimed => ticketData'[v].isClaimed
        BY <3>1 DEF QuasarInv
      <3>7. ticketData'[u].isClaimed /\ \A v \in Tickets \ {u} : ticketData'[v] = ticketData[v]
        BY <3>1 DEF QuasarInv
      <3>8. UNCHANGED <<clock, received>>
        BY <2>10 DEF IfeClaim
      <3> QED BY <3>1, <3>3, <3>4, <3>5, <3>6, <3>7, <3>8 DEF QuasarInv
    <2>11. ASSUME NEW u \in Tickets, NEW tx \in SpendingTxs, ChallengeIfeClaim(u, tx) PROVE QuasarInv'
      BY <2>11 DEF QuasarInv, ChallengeIfeClaim
    <2> QED BY <2>1, <2>2, <2>4, <2>5, <2>6, <2>7, <2>8, <2>9, <2>10, <2>11 DEF QuasarNext
  <1> QED BY <1>1, <1>2, PTL DEF QuasarSpec

----------------------------------------------------------------------------

Promises == [u \in Tickets |-> State(u)]

\* The calls that leave tickets and claims alone leave the promises.
LEMMA PromisesStay ==
    ASSUME UNCHANGED ticketVars
    PROVE  UNCHANGED <<Promises, received>>
  BY DEF ticketVars, Promises, State

\* A call for one ticket moves its promise only.
LEMMA OnePromiseMoves ==
    ASSUME NEW u \in Tickets,
           \A v \in Tickets \ {u} : ticketData'[v] = ticketData[v] /\ ifeClaimData'[v] = ifeClaimData[v]
    PROVE  Promises' = [Promises EXCEPT ![u] = State(u)']
  BY DEF Promises, State

\* The Quasar pays for an output once and its whole amount, or never, and a claim that stands is
\* not given up.
THEOREM PromisesAreKept == QuasarSpec => KeepsPromises
  <1>1. QuasarInit => Promised!Init
    BY DEF QuasarInit, Promised!Init, State, NoTicket, NoClaim
  <1>2. QuasarInv /\ [QuasarNext]_<<clock, quasarVars>> => [Promised!Next]_<<Promises, received>>
    <2> SUFFICES ASSUME QuasarInv, [QuasarNext]_<<clock, quasarVars>>
                 PROVE  [Promised!Next]_<<Promises, received>>
      OBVIOUS
    <2>1. CASE UNCHANGED <<clock, quasarVars>> \/ QuasarTick
      BY <2>1, PromisesStay DEF QuasarTick, quasarVars
    <2>2. CASE PauseOrResume \/ WithdrawUnclaimedBonds \/ \E margin \in Margins : SetSafeBlockMargin(margin)
      BY <2>2, PromisesStay DEF PauseOrResume, WithdrawUnclaimedBonds, SetSafeBlockMargin
    <2>3. CASE \E token \in PoolTokens, amount \in Deposits : AddCapacity(token, amount) \/ Withdraw(token, amount)
      BY <2>3, PromisesStay DEF AddCapacity, Withdraw
    <2>4. ASSUME NEW u \in Tickets, ObtainTicket(u) PROVE [Promised!Reserve(u)]_<<Promises, received>>
      <3>1. Promises' = [Promises EXCEPT ![u] = State(u)'] /\ UNCHANGED received
        BY <2>4, OnePromiseMoves DEF QuasarInv, ObtainTicket
      <3>2. State(u) = "none" /\ State(u)' \in {"none", "reserved"}
        BY <2>4 DEF QuasarInv, ObtainTicket, State
      <3>3. CASE State(u)' = "none"
        BY <3>1, <3>2, <3>3 DEF Promises
      <3>4. CASE State(u)' = "reserved"
        BY <3>1, <3>2, <3>4 DEF Promises, Promised!Reserve, Promised!Becomes
      <3> QED BY <3>2, <3>3, <3>4
    <2>5. ASSUME NEW u \in Tickets, FlushExpiredTicket(u) PROVE Promised!Lapse(u)
      <3>1. Promises' = [Promises EXCEPT ![u] = State(u)']
        BY <2>5, OnePromiseMoves DEF QuasarInv, FlushExpiredTicket
      <3>2. State(u) = "reserved" /\ State(u)' = "none"
        BY <2>5 DEF QuasarInv, State, FlushExpiredTicket
      <3>3. UNCHANGED received
        BY <2>5 DEF FlushExpiredTicket
      <3> QED BY <3>1, <3>2, <3>3 DEF Promises, Promised!Lapse, Promised!Becomes
    <2>6. ASSUME NEW u \in Tickets, ProcessIfeClaim(u) PROVE Promised!Keep(u)
      <3>1. Promises' = [Promises EXCEPT ![u] = State(u)']
        BY <2>6, OnePromiseMoves DEF QuasarInv, ProcessIfeClaim
      <3>2. State(u) = "claimed" /\ State(u)' = "closed"
        BY <2>6 DEF QuasarInv, State, ProcessIfeClaim
      <3>3. received' = [received EXCEPT ![u] = @ + TicketAmount[u]]
        BY <2>6 DEF QuasarInv, PayOut, ProcessIfeClaim
      <3> QED BY <3>1, <3>2, <3>3 DEF Promises, Promised!Keep, Promised!Becomes
    <2>7. ASSUME NEW u \in Tickets, NEW tx \in SpendingTxs, ClaimIncluded(u, tx) PROVE Promised!Keep(u)
      <3>1. Promises' = [Promises EXCEPT ![u] = State(u)']
        BY <2>7, OnePromiseMoves DEF QuasarInv, ClaimIncluded
      <3>2. State(u) = "reserved" /\ State(u)' = "closed"
        BY <2>7 DEF QuasarInv, State, ClaimIncluded, ValidForClaim
      <3>3. received' = [received EXCEPT ![u] = @ + TicketAmount[u]]
        BY <2>7 DEF QuasarInv, PayOut, ClaimIncluded, ValidForClaim
      <3> QED BY <3>1, <3>2, <3>3 DEF Promises, Promised!Keep, Promised!Becomes
    <2>8. ASSUME NEW u \in Tickets, NEW tx \in SpendingTxs, IfeClaim(u, tx) PROVE Promised!Claim(u)
      <3>1. Promises' = [Promises EXCEPT ![u] = State(u)']
        BY <2>8, OnePromiseMoves DEF QuasarInv, IfeClaim
      <3>2. State(u) = "reserved" /\ State(u)' = "claimed"
        BY <2>8 DEF QuasarInv, State, IfeClaim, ValidForClaim
      <3>3. UNCHANGED received
        BY <2>8 DEF IfeClaim
      <3> QED BY <3>1, <3>2, <3>3 DEF Promises, Promised!Claim, Promised!Becomes
    <2>9. ASSUME NEW u \in Tickets, NEW tx \in SpendingTxs, ChallengeIfeClaim(u, tx) PROVE Promised!Refute(u)
      <3>1. Promises' = [Promises EXCEPT ![u] = State(u)']
        BY <2>9, OnePromiseMoves DEF QuasarInv, ChallengeIfeClaim
      <3>2. State(u) = "claimed" /\ State(u)' = "closed"
        BY <2>9 DEF QuasarInv, State, ChallengeIfeClaim
      <3>3. UNCHANGED received
        BY <2>9 DEF ChallengeIfeClaim
      <3> QED BY <3>1, <3>2, <3>3 DEF Promises, Promised!Refute, Promised!Becomes
    <2> QED BY <2>1, <2>2, <2>3, <2>4, <2>5, <2>6, <2>7, <2>8, <2>9 DEF QuasarNext, Promised!Next
  <1> QED BY <1>1, <1>2, QuasarInvHolds, PTL DEF QuasarSpec, KeepsPromises, Promised!Spec, Promises

----------------------------------------------------------------------------

\* The contract has numbers in its books, and they add up.
Books ==
    /\ held \in [PoolTokens -> Int] /\ tokenUsableCapacity \in [PoolTokens -> Int]
    /\ unclaimedBonds \in Int
    /\ EverythingCounted

\* What the tickets have there, one token at a time.
Shares(k) == [u \in Tickets |-> HeldFor(u, k)]

LEMMA SharesType ==
    ASSUME QuasarInv, NEW k
    PROVE  /\ \A u \in Tickets : Shares(k)[u] \in Nat
           /\ SumFunction(Shares(k)) \in Int
  <1>1. \A u \in Tickets : HeldFor(u, k) \in Nat
    BY QuasarAssumption DEF HeldFor, QuasarInv
  <1>2. DOMAIN Shares(k) = Tickets /\ \A u \in Tickets : Shares(k)[u] \in Nat
    BY <1>1 DEF Shares
  <1>3. Tickets \in SUBSET Tickets /\ IsFiniteSet(Tickets) /\ \A u \in Tickets : Shares(k)[u] \in Int
    BY <1>2, QuasarAssumption
  <1>4. SumFunctionOnSet(Shares(k), Tickets) \in Int
    BY <1>3, SumInt
  <1> QED BY <1>2, <1>4 DEF SumFunction

LEMMA NextSharesType ==
    ASSUME QuasarInv', NEW k
    PROVE  \A u \in Tickets : Shares(k)'[u] \in Nat
  <1>1. \A u \in Tickets : HeldFor(u, k)' \in Nat
    BY QuasarAssumption DEF HeldFor, QuasarInv
  <1> QED BY <1>1 DEF Shares

LEMMA OneShareMoves ==
    ASSUME QuasarInv, QuasarInv', NEW k, NEW u \in Tickets,
           \A v \in Tickets \ {u} : ticketData'[v] = ticketData[v] /\ ifeClaimData'[v] = ifeClaimData[v]
    PROVE  /\ SumFunction(Shares(k))' = SumFunction(Shares(k)) - HeldFor(u, k) + HeldFor(u, k)'
           /\ SumFunction(Shares(k)) \in Int /\ HeldFor(u, k) \in Int /\ HeldFor(u, k)' \in Int
  <1> DEFINE f == Shares(k)
             h == Shares(k)'
  <1>1. IsFiniteSet(Tickets)
    BY QuasarAssumption
  <1>2. \A v \in Tickets : f[v] \in Int /\ h[v] \in Int
    BY SharesType, NextSharesType
  <1>3. \A v \in Tickets \ {u} : f[v] = h[v]
    BY DEF Shares, HeldFor, State
  <1>4. f[u] = HeldFor(u, k) /\ h[u] = HeldFor(u, k)'
    BY DEF Shares
  <1>5. SumFunction(Shares(k)) = SumFunctionOnSet(f, Tickets) /\ SumFunction(Shares(k))' = SumFunctionOnSet(h, Tickets)
    BY DEF SumFunction, Shares
  <1> HIDE DEF f, h
  <1>6. /\ SumFunctionOnSet(h, Tickets) = SumFunctionOnSet(f, Tickets) - f[u] + h[u]
        /\ SumFunctionOnSet(f, Tickets) \in Int
    BY <1>1, <1>2, <1>3, SumChange
  <1> QED BY <1>2, <1>4, <1>5, <1>6

\* What a call for one ticket has to show: how the books of each token follow what the ticket has
\* in it.
LEMMA OneTicketCounts ==
    ASSUME QuasarInv, QuasarInv', Books, NEW u \in Tickets,
           \A v \in Tickets \ {u} : ticketData'[v] = ticketData[v] /\ ifeClaimData'[v] = ifeClaimData[v],
           held' \in [PoolTokens -> Int], tokenUsableCapacity' \in [PoolTokens -> Int], unclaimedBonds' \in Int,
           \A k \in PoolTokens :
               held'[k] - held[k] = (tokenUsableCapacity'[k] - tokenUsableCapacity[k])
                                    + (IF k = Ether THEN unclaimedBonds' - unclaimedBonds ELSE 0)
                                    + (HeldFor(u, k)' - HeldFor(u, k))
    PROVE  Books'
  <1>1. ASSUME NEW k \in PoolTokens
        PROVE  held'[k] = tokenUsableCapacity'[k] + (IF k = Ether THEN unclaimedBonds' ELSE 0) + SumFunction(Shares(k))'
    <2>1. /\ SumFunction(Shares(k))' = SumFunction(Shares(k)) - HeldFor(u, k) + HeldFor(u, k)'
          /\ SumFunction(Shares(k)) \in Int /\ HeldFor(u, k) \in Int /\ HeldFor(u, k)' \in Int
      BY OneShareMoves
    <2>2. held[k] = tokenUsableCapacity[k] + (IF k = Ether THEN unclaimedBonds ELSE 0) + SumFunction(Shares(k))
      BY DEF Books, EverythingCounted, Shares
    <2>3. /\ held[k] \in Int /\ tokenUsableCapacity[k] \in Int /\ unclaimedBonds \in Int
          /\ held'[k] \in Int /\ tokenUsableCapacity'[k] \in Int
      BY DEF Books
    <2>4. held'[k] - held[k] = (tokenUsableCapacity'[k] - tokenUsableCapacity[k])
                               + (IF k = Ether THEN unclaimedBonds' - unclaimedBonds ELSE 0)
                               + (HeldFor(u, k)' - HeldFor(u, k))
      OBVIOUS
    <2> QED BY <2>1, <2>2, <2>3, <2>4
  <1> QED BY <1>1 DEF Books, EverythingCounted, Shares

\* The calls that leave tickets and claims alone leave what tickets have.
LEMMA NoShareMoves ==
    ASSUME UNCHANGED ticketVars, NEW k
    PROVE  Shares(k)' = Shares(k)
  BY DEF ticketVars, Shares, HeldFor, State

LEMMA PoolCounts ==
    ASSUME QuasarInv, Books, UNCHANGED ticketVars,
           held' \in [PoolTokens -> Int], tokenUsableCapacity' \in [PoolTokens -> Int], unclaimedBonds' \in Int,
           \A k \in PoolTokens :
               held'[k] - held[k] = (tokenUsableCapacity'[k] - tokenUsableCapacity[k])
                                    + (IF k = Ether THEN unclaimedBonds' - unclaimedBonds ELSE 0)
    PROVE  Books'
  <1>1. ASSUME NEW k \in PoolTokens
        PROVE  held'[k] = tokenUsableCapacity'[k] + (IF k = Ether THEN unclaimedBonds' ELSE 0) + SumFunction(Shares(k))'
    <2>1. SumFunction(Shares(k))' = SumFunction(Shares(k)) /\ SumFunction(Shares(k)) \in Int
      BY NoShareMoves, SharesType
    <2>2. held[k] = tokenUsableCapacity[k] + (IF k = Ether THEN unclaimedBonds ELSE 0) + SumFunction(Shares(k))
      BY DEF Books, EverythingCounted, Shares
    <2>3. /\ held[k] \in Int /\ tokenUsableCapacity[k] \in Int /\ unclaimedBonds \in Int
          /\ held'[k] \in Int /\ tokenUsableCapacity'[k] \in Int
      BY DEF Books
    <2>4. held'[k] - held[k] = (tokenUsableCapacity'[k] - tokenUsableCapacity[k])
                               + (IF k = Ether THEN unclaimedBonds' - unclaimedBonds ELSE 0)
      OBVIOUS
    <2> QED BY <2>1, <2>2, <2>3, <2>4
  <1> QED BY <1>1 DEF Books, EverythingCounted, Shares

\* What a ticket has in the contract, by its state.
LEMMA HeldByState ==
    ASSUME NEW u \in Tickets, NEW k
    PROVE  /\ State(u) \in {"none", "closed"} => HeldFor(u, k) = 0
           /\ State(u) \in {"reserved", "claimed"} =>
                HeldFor(u, k) = (IF k = TicketToken[u] THEN ticketData[u].reservedAmount ELSE 0)
                                + (IF k = Ether THEN bondValue ELSE 0)
           /\ State(u)' \in {"none", "closed"} => HeldFor(u, k)' = 0
           /\ State(u)' \in {"reserved", "claimed"} =>
                HeldFor(u, k)' = (IF k = TicketToken[u] THEN ticketData'[u].reservedAmount ELSE 0)
                                 + (IF k = Ether THEN bondValue ELSE 0)
  BY DEF HeldFor

LEMMA NextCounts ==
    ASSUME QuasarInv, QuasarInv', Books, [QuasarNext]_<<clock, quasarVars>>
    PROVE  Books'
  <1> USE QuasarAssumption
  <1>0. /\ bondValue \in Nat /\ Ether \in PoolTokens /\ unclaimedBonds \in Int
        /\ held \in [PoolTokens -> Int] /\ tokenUsableCapacity \in [PoolTokens -> Int]
        /\ \A u \in Tickets : ticketData[u].reservedAmount \in Nat /\ TicketToken[u] \in PoolTokens
    BY DEF Books, QuasarInv
  <1>1. CASE UNCHANGED <<clock, quasarVars>> \/ QuasarTick \/ PauseOrResume \/ \E margin \in Margins : SetSafeBlockMargin(margin)
    <2>1. UNCHANGED <<poolVars, ticketVars, unclaimedBonds>>
      BY <1>1 DEF QuasarTick, PauseOrResume, SetSafeBlockMargin, quasarVars
    <2>2. UNCHANGED <<held, tokenUsableCapacity, ticketVars, unclaimedBonds>>
      BY <2>1 DEF poolVars
    <2> QED BY <1>0, <2>2, PoolCounts
  <1>2. CASE WithdrawUnclaimedBonds
    <2>1. /\ held' = [held EXCEPT ![Ether] = @ - unclaimedBonds] /\ unclaimedBonds' = 0
          /\ UNCHANGED <<tokenUsableCapacity, ticketVars>>
      BY <1>2 DEF WithdrawUnclaimedBonds
    <2>2. held' \in [PoolTokens -> Int]
      BY <1>0, <2>1
    <2>3. \A k \in PoolTokens :
            held'[k] - held[k] = (tokenUsableCapacity'[k] - tokenUsableCapacity[k])
                                 + (IF k = Ether THEN unclaimedBonds' - unclaimedBonds ELSE 0)
      BY <1>0, <2>1
    <2> QED BY <1>0, <2>1, <2>2, <2>3, PoolCounts
  <1>3. ASSUME NEW token \in PoolTokens, NEW amount \in Deposits, AddCapacity(token, amount) \/ Withdraw(token, amount)
        PROVE  Books'
    <2>1. PICK d \in Int : /\ held' = [held EXCEPT ![token] = @ + d]
                           /\ tokenUsableCapacity' = [tokenUsableCapacity EXCEPT ![token] = @ + d]
      <3>1. CASE AddCapacity(token, amount)
        <4>1. amount \in Int
          OBVIOUS
        <4> QED BY <3>1, <4>1 DEF AddCapacity
      <3>2. CASE Withdraw(token, amount)
        <4>1. amount \in Int /\ held[token] \in Int /\ tokenUsableCapacity[token] \in Int
          BY <1>0
        <4>2. held[token] - amount = held[token] + (0 - amount)
              /\ tokenUsableCapacity[token] - amount = tokenUsableCapacity[token] + (0 - amount)
          BY <4>1
        <4>3. 0 - amount \in Int
          BY <4>1
        <4> QED BY <3>2, <4>2, <4>3 DEF Withdraw
      <3> QED BY <1>3, <3>1, <3>2
    <2>2. UNCHANGED <<ticketVars, unclaimedBonds>>
      BY <1>3 DEF AddCapacity, Withdraw
    <2>3. held' \in [PoolTokens -> Int] /\ tokenUsableCapacity' \in [PoolTokens -> Int]
      BY <1>0, <2>1
    <2>4. \A k \in PoolTokens :
            held'[k] - held[k] = (tokenUsableCapacity'[k] - tokenUsableCapacity[k])
                                 + (IF k = Ether THEN unclaimedBonds' - unclaimedBonds ELSE 0)
      BY <1>0, <2>1, <2>2
    <2> QED BY <1>0, <2>2, <2>3, <2>4, PoolCounts
  <1>4. ASSUME NEW u \in Tickets, ObtainTicket(u) PROVE Books'
    <2>1. /\ tokenUsableCapacity' = [tokenUsableCapacity EXCEPT ![TicketToken[u]] = @ - TicketAmount[u]]
          /\ held' = [held EXCEPT ![Ether] = @ + bondValue] /\ UNCHANGED <<unclaimedBonds, ifeClaimData>>
          /\ \A v \in Tickets \ {u} : ticketData'[v] = ticketData[v] /\ ifeClaimData'[v] = ifeClaimData[v]
      BY <1>4 DEF ObtainTicket, QuasarInv
    <2>2. State(u) = "none" /\ State(u)' = "reserved" /\ ticketData'[u].reservedAmount = TicketAmount[u]
      <3>1. ticketData'[u] = [validityTimestamp |-> clock + TICKET_VALIDITY_PERIOD, reservedAmount |-> TicketAmount[u],
                              isClaimed |-> FALSE]
        BY <1>4 DEF ObtainTicket, QuasarInv
      <3>2. clock + TICKET_VALIDITY_PERIOD # 0
        BY DEF QuasarInv
      <3>3. ~ ifeClaimData[u].isValid /\ ~ ticketData[u].isClaimed /\ ticketData[u].validityTimestamp = 0
        BY <1>4 DEF ObtainTicket, QuasarInv
      <3> QED BY <2>1, <3>1, <3>2, <3>3 DEF State
    <2>3. TicketAmount[u] \in Nat
      OBVIOUS
    <2>4. held' \in [PoolTokens -> Int] /\ tokenUsableCapacity' \in [PoolTokens -> Int]
      BY <1>0, <2>1, <2>3
    <2>5. ASSUME NEW k \in PoolTokens
          PROVE  held'[k] - held[k] = (tokenUsableCapacity'[k] - tokenUsableCapacity[k])
                                      + (IF k = Ether THEN unclaimedBonds' - unclaimedBonds ELSE 0)
                                      + (HeldFor(u, k)' - HeldFor(u, k))
      <3>1. HeldFor(u, k) = 0
            /\ HeldFor(u, k)' = (IF k = TicketToken[u] THEN TicketAmount[u] ELSE 0) + (IF k = Ether THEN bondValue ELSE 0)
        BY <2>2, HeldByState
      <3> QED BY <1>0, <2>1, <2>3, <3>1
    <2> QED BY <1>0, <2>1, <2>4, <2>5, OneTicketCounts
  <1>5. ASSUME NEW u \in Tickets, FlushExpiredTicket(u) PROVE Books'
    <2>1. /\ tokenUsableCapacity' = [tokenUsableCapacity EXCEPT ![TicketToken[u]] = @ + ticketData[u].reservedAmount]
          /\ unclaimedBonds' = unclaimedBonds + bondValue /\ UNCHANGED <<held, ifeClaimData>>
          /\ \A v \in Tickets \ {u} : ticketData'[v] = ticketData[v] /\ ifeClaimData'[v] = ifeClaimData[v]
      BY <1>5 DEF FlushExpiredTicket, QuasarInv
    <2>2. State(u) = "reserved" /\ State(u)' = "none"
      BY <1>5 DEF FlushExpiredTicket, QuasarInv, State
    <2>3. tokenUsableCapacity' \in [PoolTokens -> Int] /\ unclaimedBonds' \in Int
      BY <1>0, <2>1
    <2>4. ASSUME NEW k \in PoolTokens
          PROVE  held'[k] - held[k] = (tokenUsableCapacity'[k] - tokenUsableCapacity[k])
                                      + (IF k = Ether THEN unclaimedBonds' - unclaimedBonds ELSE 0)
                                      + (HeldFor(u, k)' - HeldFor(u, k))
      <3>1. HeldFor(u, k)' = 0
            /\ HeldFor(u, k) = (IF k = TicketToken[u] THEN ticketData[u].reservedAmount ELSE 0)
                               + (IF k = Ether THEN bondValue ELSE 0)
        BY <2>2, HeldByState
      <3> QED BY <1>0, <2>1, <3>1
    <2> QED BY <1>0, <2>1, <2>3, <2>4, OneTicketCounts
  <1>6. ASSUME NEW u \in Tickets, ProcessIfeClaim(u) \/ \E tx \in SpendingTxs : ClaimIncluded(u, tx) PROVE Books'
    <2>1. /\ PayOut(u) /\ UNCHANGED <<tokenUsableCapacity, unclaimedBonds>>
          /\ \A v \in Tickets \ {u} : ticketData'[v] = ticketData[v] /\ ifeClaimData'[v] = ifeClaimData[v]
      BY <1>6 DEF ProcessIfeClaim, ClaimIncluded, QuasarInv
    <2>2. State(u) \in {"reserved", "claimed"} /\ State(u)' = "closed"
      <3>1. CASE ProcessIfeClaim(u)
        BY <3>1 DEF ProcessIfeClaim, QuasarInv, State
      <3>2. CASE \E tx \in SpendingTxs : ClaimIncluded(u, tx)
        BY <3>2 DEF ClaimIncluded, ValidForClaim, QuasarInv, State
      <3> QED BY <1>6, <3>1, <3>2
    <2>3. \A k \in PoolTokens :
            held'[k] = held[k] - (IF k = TicketToken[u] THEN ticketData[u].reservedAmount ELSE 0)
                       - (IF k = Ether THEN bondValue ELSE 0)
      BY <2>1 DEF PayOut
    <2>4. held' \in [PoolTokens -> Int]
      BY <1>0, <2>1 DEF PayOut
    <2>5. ASSUME NEW k \in PoolTokens
          PROVE  held'[k] - held[k] = (tokenUsableCapacity'[k] - tokenUsableCapacity[k])
                                      + (IF k = Ether THEN unclaimedBonds' - unclaimedBonds ELSE 0)
                                      + (HeldFor(u, k)' - HeldFor(u, k))
      <3>1. HeldFor(u, k)' = 0
            /\ HeldFor(u, k) = (IF k = TicketToken[u] THEN ticketData[u].reservedAmount ELSE 0)
                               + (IF k = Ether THEN bondValue ELSE 0)
        BY <2>2, HeldByState
      <3>2. held[k] \in Int /\ tokenUsableCapacity[k] \in Int /\ tokenUsableCapacity'[k] = tokenUsableCapacity[k]
        BY <1>0, <2>1
      <3> QED BY <1>0, <2>1, <2>3, <3>1, <3>2
    <2> QED BY <1>0, <2>1, <2>4, <2>5, OneTicketCounts
  <1>7. ASSUME NEW u \in Tickets, NEW tx \in SpendingTxs, IfeClaim(u, tx) PROVE Books'
    <2>1. /\ UNCHANGED <<held, tokenUsableCapacity, unclaimedBonds>>
          /\ \A v \in Tickets \ {u} : ticketData'[v] = ticketData[v] /\ ifeClaimData'[v] = ifeClaimData[v]
      BY <1>7 DEF IfeClaim, poolVars, QuasarInv
    <2>2. State(u) = "reserved" /\ State(u)' = "claimed" /\ ticketData'[u].reservedAmount = ticketData[u].reservedAmount
      BY <1>7 DEF IfeClaim, ValidForClaim, QuasarInv, State
    <2>3. \A k \in PoolTokens : HeldFor(u, k)' = HeldFor(u, k) /\ HeldFor(u, k) \in Int
      BY <1>0, <2>2, HeldByState
    <2>4. \A k \in PoolTokens :
            held'[k] - held[k] = (tokenUsableCapacity'[k] - tokenUsableCapacity[k])
                                 + (IF k = Ether THEN unclaimedBonds' - unclaimedBonds ELSE 0)
                                 + (HeldFor(u, k)' - HeldFor(u, k))
      BY <1>0, <2>1, <2>3
    <2> QED BY <1>0, <2>1, <2>4, OneTicketCounts
  <1>8. ASSUME NEW u \in Tickets, NEW tx \in SpendingTxs, ChallengeIfeClaim(u, tx) PROVE Books'
    <2>1. /\ tokenUsableCapacity' = [tokenUsableCapacity EXCEPT ![TicketToken[u]] = @ + ticketData[u].reservedAmount]
          /\ held' = [held EXCEPT ![Ether] = @ - bondValue] /\ UNCHANGED <<unclaimedBonds, ticketData>>
          /\ \A v \in Tickets \ {u} : ticketData'[v] = ticketData[v] /\ ifeClaimData'[v] = ifeClaimData[v]
      BY <1>8 DEF ChallengeIfeClaim, QuasarInv
    <2>2. State(u) = "claimed" /\ State(u)' = "closed"
      BY <1>8 DEF ChallengeIfeClaim, QuasarInv, State
    <2>3. held' \in [PoolTokens -> Int] /\ tokenUsableCapacity' \in [PoolTokens -> Int]
      BY <1>0, <2>1
    <2>4. ASSUME NEW k \in PoolTokens
          PROVE  held'[k] - held[k] = (tokenUsableCapacity'[k] - tokenUsableCapacity[k])
                                      + (IF k = Ether THEN unclaimedBonds' - unclaimedBonds ELSE 0)
                                      + (HeldFor(u, k)' - HeldFor(u, k))
      <3>1. HeldFor(u, k)' = 0
            /\ HeldFor(u, k) = (IF k = TicketToken[u] THEN ticketData[u].reservedAmount ELSE 0)
                               + (IF k = Ether THEN bondValue ELSE 0)
        BY <2>2, HeldByState
      <3> QED BY <1>0, <2>1, <3>1
    <2> QED BY <1>0, <2>1, <2>3, <2>4, OneTicketCounts
  <1> QED BY <1>1, <1>2, <1>3, <1>4, <1>5, <1>6, <1>7, <1>8 DEF QuasarNext

\* What the Quasar holds is what its pool, its tickets and its bonds say, and nothing else.
THEOREM EverythingIsCounted == QuasarSpec => []EverythingCounted
  <1>1. QuasarInit => Books
    <2> SUFFICES ASSUME QuasarInit PROVE Books
      OBVIOUS
    <2>1. \A u \in Tickets : State(u) = "none"
      BY DEF QuasarInit, State, NoTicket, NoClaim
    <2>2. ASSUME NEW k \in PoolTokens PROVE SumFunction(Shares(k)) = 0
      <3>1. DOMAIN Shares(k) = Tickets /\ \A u \in Tickets : Shares(k)[u] = 0
        BY <2>1 DEF Shares, HeldFor
      <3>2. SumFunctionOnSet(Shares(k), Tickets) = 0
        BY <3>1, SumZero, QuasarAssumption
      <3> QED BY <3>1, <3>2 DEF SumFunction
    <2>3. /\ held = [k \in PoolTokens |-> 0] /\ tokenUsableCapacity = [k \in PoolTokens |-> 0] /\ unclaimedBonds = 0
      BY DEF QuasarInit
    <2> QED BY <2>2, <2>3 DEF Books, EverythingCounted, Shares
  <1>2. QuasarInv /\ QuasarInv' /\ Books /\ [QuasarNext]_<<clock, quasarVars>> => Books'
    BY NextCounts
  <1>3. Books => EverythingCounted
    BY DEF Books
  <1> QED BY <1>1, <1>2, <1>3, QuasarInvHolds, PTL DEF QuasarSpec
====
