---- MODULE Quasar ----
(***************************************************************************)
(* Fast exits (poc/fast_exits/Quasar.sol, QuasarPool.sol): the Quasar pays *)
(* an output at once when its owner spends it to the Quasar on the Plasma  *)
(* chain.  A ticket reserves the amount and takes a bond; a claim shows    *)
(* the transaction, included or, with a time to challenge it, in flight.   *)
(*                                                                         *)
(* Included and IfeStart say what the Plasma contracts know of a           *)
(* transaction.  Each call is made by whom the code lets make it.  A       *)
(* transfer that is refused reverts its call.                              *)
(***************************************************************************)
EXTENDS ChainTime, FiniteSetsExt

CONSTANTS
    TICKET_VALIDITY_PERIOD, IFE_CLAIM_MARGIN, IFE_CLAIM_WAITING_PERIOD,
    Ether, PoolTokens,
    bondValue,
    Tickets,            \* utxoPos of the outputs that tickets are for: finitely many, as numbers of one word
    TicketBlock, TicketToken, TicketAmount,
    SpendingTxs,
    SpentBy,            \* [SpendingTxs -> Seq(utxoPos)]
    FirstOutput,        \* [SpendingTxs -> [token, amount, toQuasar]]
    Included, IfeStart,
    CurrentBlock,       \* the last child block
    InitialMargin, Margins, Deposits, MaxHeld, QuasarTime    \* Margins to QuasarTime: bounds of the model

ASSUME QuasarAssumption ==
    /\ {TICKET_VALIDITY_PERIOD, IFE_CLAIM_MARGIN, IFE_CLAIM_WAITING_PERIOD, bondValue} \subseteq Nat
    /\ IsFiniteSet(Tickets) /\ TICKET_VALIDITY_PERIOD # 0
    /\ Ether \in PoolTokens /\ TicketToken \in [Tickets -> PoolTokens]
    /\ TicketAmount \in [Tickets -> Nat] /\ TicketBlock \in [Tickets -> Nat]
    /\ Included \subseteq SpendingTxs /\ IfeStart \in [SpendingTxs -> Nat]
    /\ Margins \cup Deposits \cup {CurrentBlock, InitialMargin, MaxHeld, QuasarTime} \subseteq Nat

VARIABLES
    tokenUsableCapacity,
    ticketData, ifeClaimData,
    unclaimedBonds, safeBlockMargin, isPaused,
    held,               \* [PoolTokens -> Int]: what the contract holds
    received            \* history, [Tickets -> Nat]: what was paid for the output

poolVars == <<tokenUsableCapacity, held>>
ticketVars == <<ticketData, ifeClaimData, received>>
quasarVars == <<poolVars, ticketVars, unclaimedBonds, safeBlockMargin, isPaused>>

NoTicket == [validityTimestamp |-> 0, reservedAmount |-> 0, isClaimed |-> FALSE]
NoClaim == [rlpClaimTx |-> <<>>, finalizationTimestamp |-> 0, isValid |-> FALSE]

QuasarInit ==
    /\ clock = 0
    /\ tokenUsableCapacity = [k \in PoolTokens |-> 0] /\ held = [k \in PoolTokens |-> 0]
    /\ ticketData = [u \in Tickets |-> NoTicket] /\ ifeClaimData = [u \in Tickets |-> NoClaim]
    /\ unclaimedBonds = 0 /\ safeBlockMargin = InitialMargin /\ isPaused = FALSE
    /\ received = [u \in Tickets |-> 0]

AddCapacity(token, amount) ==
    /\ held[token] + amount <= MaxHeld      \* bound
    /\ tokenUsableCapacity' = [tokenUsableCapacity EXCEPT ![token] = @ + amount]
    /\ held' = [held EXCEPT ![token] = @ + amount]
    /\ UNCHANGED <<clock, ticketVars, unclaimedBonds, safeBlockMargin, isPaused>>

Withdraw(token, amount) ==
    /\ amount <= tokenUsableCapacity[token]
    /\ tokenUsableCapacity' = [tokenUsableCapacity EXCEPT ![token] = @ - amount]
    /\ held' = [held EXCEPT ![token] = @ - amount]
    /\ UNCHANGED <<clock, ticketVars, unclaimedBonds, safeBlockMargin, isPaused>>

SetSafeBlockMargin(margin) ==
    /\ safeBlockMargin' = margin
    /\ UNCHANGED <<clock, poolVars, ticketVars, unclaimedBonds, isPaused>>

PauseOrResume ==
    /\ isPaused' \in BOOLEAN
    /\ UNCHANGED <<clock, poolVars, ticketVars, unclaimedBonds, safeBlockMargin>>

WithdrawUnclaimedBonds ==
    /\ held' = [held EXCEPT ![Ether] = @ - unclaimedBonds]
    /\ unclaimedBonds' = 0
    /\ UNCHANGED <<clock, tokenUsableCapacity, ticketVars, safeBlockMargin, isPaused>>

\* Blocks are counted in child blocks here; a margin beyond the first one reverts the call.
IsSafe(block) == safeBlockMargin <= CurrentBlock /\ block <= CurrentBlock - safeBlockMargin

ObtainTicket(u) ==
    /\ ~ isPaused
    /\ ~ ticketData[u].isClaimed /\ ticketData[u].validityTimestamp = 0
    /\ IsSafe(TicketBlock[u])
    /\ TicketAmount[u] # 0 /\ TicketAmount[u] <= tokenUsableCapacity[TicketToken[u]]
    /\ tokenUsableCapacity' = [tokenUsableCapacity EXCEPT ![TicketToken[u]] = @ - TicketAmount[u]]
    /\ ticketData' = [ticketData EXCEPT ![u] =
         [validityTimestamp |-> clock + TICKET_VALIDITY_PERIOD, reservedAmount |-> TicketAmount[u], isClaimed |-> FALSE]]
    /\ held' = [held EXCEPT ![Ether] = @ + bondValue]
    /\ UNCHANGED <<clock, ifeClaimData, received, unclaimedBonds, safeBlockMargin, isPaused>>

\* A mutant: the ticket stays to be flushed again.
FlushExpiredTicketKeep(u) ==
    /\ ~ ticketData[u].isClaimed
    /\ clock > ticketData[u].validityTimestamp /\ ticketData[u].validityTimestamp # 0
    /\ tokenUsableCapacity' = [tokenUsableCapacity EXCEPT ![TicketToken[u]] = @ + ticketData[u].reservedAmount]
    /\ ticketData' = [ticketData EXCEPT ![u].reservedAmount = 0]
    /\ unclaimedBonds' = unclaimedBonds + bondValue
    /\ UNCHANGED <<clock, held, ifeClaimData, received, safeBlockMargin, isPaused>>

FlushExpiredTicket(u) ==
    /\ ~ ticketData[u].isClaimed
    /\ clock > ticketData[u].validityTimestamp /\ ticketData[u].validityTimestamp # 0
    /\ tokenUsableCapacity' = [tokenUsableCapacity EXCEPT ![TicketToken[u]] = @ + ticketData[u].reservedAmount]
    /\ ticketData' = [ticketData EXCEPT ![u].reservedAmount = 0, ![u].validityTimestamp = 0]
    /\ unclaimedBonds' = unclaimedBonds + bondValue
    /\ UNCHANGED <<clock, held, ifeClaimData, received, safeBlockMargin, isPaused>>

\* A mutant: claimed tickets can be claimed.
ValidForClaimAgain(u) ==
    ticketData[u].validityTimestamp # 0 /\ clock <= ticketData[u].validityTimestamp
ValidForClaim(u) ==
    /\ ~ ticketData[u].isClaimed
    /\ ticketData[u].validityTimestamp # 0 /\ clock <= ticketData[u].validityTimestamp

CorrectlyFormed(u, tx) ==
    /\ SpentBy[tx][1] = u
    /\ FirstOutput[tx] = [token |-> TicketToken[u], amount |-> ticketData[u].reservedAmount, toQuasar |-> TRUE]

\* The reserved amount in its token, and the bond.
PayOut(u) ==
    /\ held' = [k \in PoolTokens |->
         held[k] - (IF k = TicketToken[u] THEN ticketData[u].reservedAmount ELSE 0) - (IF k = Ether THEN bondValue ELSE 0)]
    /\ received' = [received EXCEPT ![u] = @ + ticketData[u].reservedAmount]

ClaimIncluded(u, tx) ==
    /\ ValidForClaim(u) /\ CorrectlyFormed(u, tx) /\ tx \in Included
    /\ ticketData' = [ticketData EXCEPT ![u].isClaimed = TRUE]
    /\ PayOut(u)
    /\ UNCHANGED <<clock, tokenUsableCapacity, ifeClaimData, unclaimedBonds, safeBlockMargin, isPaused>>

IfeClaim(u, tx) ==
    /\ ValidForClaim(u) /\ CorrectlyFormed(u, tx)
    /\ IfeStart[tx] # 0 /\ IfeStart[tx] <= clock /\ clock <= IfeStart[tx] + IFE_CLAIM_MARGIN
    /\ ticketData' = [ticketData EXCEPT ![u].isClaimed = TRUE]
    /\ ifeClaimData' = [ifeClaimData EXCEPT ![u] =
         [rlpClaimTx |-> tx, finalizationTimestamp |-> clock + IFE_CLAIM_WAITING_PERIOD, isValid |-> TRUE]]
    /\ UNCHANGED <<clock, poolVars, received, unclaimedBonds, safeBlockMargin, isPaused>>

\* With another transaction that spends an input of the claim's; the bond goes to the challenger.
\* The creating transaction and the witness come with the call.
ChallengeIfeClaim(u, tx) ==
    /\ ticketData[u].isClaimed /\ ifeClaimData[u].isValid
    /\ clock <= ifeClaimData[u].finalizationTimestamp
    /\ tx # ifeClaimData[u].rlpClaimTx
    /\ \E j \in DOMAIN SpentBy[tx], k \in DOMAIN SpentBy[ifeClaimData[u].rlpClaimTx] :
         SpentBy[tx][j] = SpentBy[ifeClaimData[u].rlpClaimTx][k]
    /\ ifeClaimData' = [ifeClaimData EXCEPT ![u].isValid = FALSE]
    /\ tokenUsableCapacity' = [tokenUsableCapacity EXCEPT ![TicketToken[u]] = @ + ticketData[u].reservedAmount]
    /\ held' = [held EXCEPT ![Ether] = @ - bondValue]
    /\ UNCHANGED <<clock, ticketData, received, unclaimedBonds, safeBlockMargin, isPaused>>

\* A mutant: the claim can be processed again.
ProcessIfeClaimAgain(u) ==
    /\ ifeClaimData[u].isValid /\ clock > ifeClaimData[u].finalizationTimestamp
    /\ PayOut(u)
    /\ UNCHANGED <<clock, ticketData, ifeClaimData, tokenUsableCapacity, unclaimedBonds, safeBlockMargin, isPaused>>

ProcessIfeClaim(u) ==
    /\ ifeClaimData[u].isValid /\ clock > ifeClaimData[u].finalizationTimestamp
    /\ ifeClaimData' = [ifeClaimData EXCEPT ![u].isValid = FALSE]
    /\ PayOut(u)
    /\ UNCHANGED <<clock, ticketData, tokenUsableCapacity, unclaimedBonds, safeBlockMargin, isPaused>>

QuasarTick == TimePasses(QuasarTime) /\ UNCHANGED quasarVars

QuasarNext ==
    \/ QuasarTick \/ PauseOrResume \/ WithdrawUnclaimedBonds
    \/ \E margin \in Margins : SetSafeBlockMargin(margin)
    \/ \E token \in PoolTokens, amount \in Deposits : AddCapacity(token, amount) \/ Withdraw(token, amount)
    \/ \E u \in Tickets : ObtainTicket(u) \/ FlushExpiredTicket(u) \/ ProcessIfeClaim(u)
    \/ \E u \in Tickets, tx \in SpendingTxs : ClaimIncluded(u, tx) \/ IfeClaim(u, tx) \/ ChallengeIfeClaim(u, tx)

QuasarSpec == QuasarInit /\ [][QuasarNext]_<<clock, quasarVars>>

----------------------------------------------------------------------------

State(u) ==
    IF ifeClaimData[u].isValid THEN "claimed"
    ELSE IF ticketData[u].isClaimed THEN "closed"
    ELSE IF ticketData[u].validityTimestamp # 0 THEN "reserved"
    ELSE "none"

\* What a ticket in force or claimed has in the contract: its amount in its token, and the bond.
HeldFor(u, k) ==
    IF State(u) \in {"none", "closed"} THEN 0
    ELSE (IF k = TicketToken[u] THEN ticketData[u].reservedAmount ELSE 0) + (IF k = Ether THEN bondValue ELSE 0)

\* What the contract holds is what can still be reserved or withdrawn, what is reserved and the
\* bonds, each counted once on every path a ticket takes: nothing is promised twice, and nothing
\* is left that nobody can take out.
EverythingCounted ==
    \A k \in PoolTokens :
        held[k] = tokenUsableCapacity[k] + (IF k = Ether THEN unclaimedBonds ELSE 0)
                  + SumFunction([u \in Tickets |-> HeldFor(u, k)])

Promised == INSTANCE Promises WITH
    Outputs <- Tickets, Amount <- TicketAmount, promise <- [u \in Tickets |-> State(u)], paid <- received

\* For an output the Quasar pays once and its whole amount, or never: tickets that lapse, come
\* again, are claimed on either way, challenged and processed in any order do not pay twice, and
\* no ticket whose claim stands lapses.
KeepsPromises == Promised!Spec
====
