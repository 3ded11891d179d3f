---- MODULE InFlightExit ----
(***************************************************************************)
(* The in-flight exits of the payment exit game: an exit of a transaction  *)
(* that may or may not be included.  Owners of its inputs and outputs      *)
(* piggyback on it; in the canonicity game others show competitors, which  *)
(* spend one of its inputs, and the exit answers with its own inclusion.   *)
(* The outputs of a canonical transaction are paid, or else its inputs.    *)
(*                                                                         *)
(* The exit of t is kept under its exit id, the hash of t.  exitMap is the *)
(* set of the inputs and outputs piggybacked on, by their index; the queue *)
(* of a token holds the exit once something of that token is.              *)
(***************************************************************************)
EXTENDS ExitGameController

CONSTANTS
    InFlightTxs,        \* bound: the transactions for which in-flight exits are started
    LastInFlightStart   \* bound: no in-flight exit starts after this time

VARIABLE inFlightExits  \* [Txs -> InFlightExitData]

Infinity == Len(Deposits) + MaxBlocks + 1  \* a competitor that is in no block

InFlightExitData ==
    [isCanonical : BOOLEAN,
     exitStartTimestamp : Nat,                  \* 0: there is no such exit
     position : Nat,                            \* of the youngest input
     oldestCompetitorPosition : 0..Infinity,    \* 0: none; after a response, the exit's own
     bondSize : Nat,
     exitMap : SUBSET Slots,
     piggybackBond : [Slots -> Nat],
     piggybackBounty : [Slots -> Nat]]

NoInFlightExit ==
    [isCanonical |-> FALSE, exitStartTimestamp |-> 0, position |-> 0,
     oldestCompetitorPosition |-> 0, bondSize |-> 0, exitMap |-> {},
     piggybackBond |-> [s \in Slots |-> 0], piggybackBounty |-> [s \in Slots |-> 0]]

ASSUME InFlightExitAssumption == InFlightTxs \subseteq Txs /\ LastInFlightStart \in Nat

InFlightExitInit == inFlightExits = [t \in Txs |-> NoInFlightExit]

IsStarted(t) == inFlightExits[t].exitStartTimestamp # 0
IsInFirstPhase(t) ==
    (now - inFlightExits[t].exitStartTimestamp) \div (MinExitPeriod \div 2) < 1
Piggybacked(t, token) == {s \in inFlightExits[t].exitMap : Token(OutputAt(t, s)) = token}
Competes(c, t) == c # t /\ \E o \in Inputs(t) : Spends(c, o)

----------------------------------------------------------------------------

\* Anybody starts the exit of t, whose inputs must be where t says they are.  Whether inputs
\* or outputs are finalized already is not asked here.
StartInFlightExit(t, bondSize) ==
    /\ now <= LastInFlightStart
    /\ ~IsStarted(t)
    /\ Cardinality(Range(TxInputs[t])) = Len(TxInputs[t])   \* no input more than once
    /\ \A input \in Range(TxInputs[t]) : IsStandardFinalized(input.output[1], input.position)
    /\ IsCorrectStateTransition(t)
    /\ \E youngest \in Range(TxInputs[t]) :                 \* and so at least one
        /\ \A input \in Range(TxInputs[t]) : input.position <= youngest.position
        /\ inFlightExits' = [inFlightExits EXCEPT ![t] =
                [NoInFlightExit EXCEPT
                    !.isCanonical = TRUE,
                    !.exitStartTimestamp = now,
                    !.position = youngest.position,
                    !.bondSize = bondSize]]
    /\ ethBalance' = ethBalance + bondSize
    /\ UNCHANGED <<vaultBalance, withdrawn, controllerVars>>

\* A mutant: the first piggyback of any token.
IsFirstPiggyback(t, token) == inFlightExits[t].exitMap = {}

IsFirstPiggybackOfTheToken(t, token) == Piggybacked(t, token) = {}

\* A mutant: the bit next to that of the input or output s.
SetNextPiggybacked(t, s, bond) ==
    [inFlightExits[t] EXCEPT !.exitMap = @ \cup {<<s[1], s[2] + 1>>},
                             !.piggybackBond[s] = bond.size,
                             !.piggybackBounty[s] = bond.bounty]

SetPiggybacked(t, s, bond) ==
    [inFlightExits[t] EXCEPT !.exitMap = @ \cup {s},
                             !.piggybackBond[s] = bond.size,
                             !.piggybackBounty[s] = bond.bounty]

\* The owner of input or output s of t piggybacks on the exit, in its first phase.  The first
\* piggyback of a token, as the bits set now tell it, puts the exit into the token's queue.
Piggyback(t, s, bond) ==
    LET ife == inFlightExits[t]
        token == Token(OutputAt(t, s))
        exitableAt == CalculateTxExitableTimestamp(BlockOf(ife.position).timestamp)
    IN  /\ s \in InputSlots(t) \cup OutputSlots(t)
        /\ IsStarted(t)
        /\ IsInFirstPhase(t)
        /\ s \notin ife.exitMap
        /\ inFlightExits' = [inFlightExits EXCEPT ![t] = SetPiggybacked(t, s, bond)]
        /\ IF IsFirstPiggybackOfTheToken(t, token)
           THEN Enqueue(token, exitableAt, ife.position, InFlightExitId(t))
           ELSE UNCHANGED exitsQueues
        /\ ethBalance' = ethBalance + bond.size
        /\ UNCHANGED <<vaultBalance, withdrawn, outputsFinalizations>>

\* A mutant: the transaction itself is taken for a competitor.
ChallengeInFlightExitWithItself(t, competingTx, p) ==
    LET ife == inFlightExits[t]
    IN  /\ IsStarted(t)
        /\ IsInFirstPhase(t)
        /\ \E o \in Inputs(t) : Spends(competingTx, o)
        /\ p = Infinity \/ IsStandardFinalized(competingTx, p)
        /\ ife.oldestCompetitorPosition = 0 \/ ife.oldestCompetitorPosition > p
        /\ inFlightExits' = [inFlightExits EXCEPT ![t] =
                [ife EXCEPT !.oldestCompetitorPosition = p, !.isCanonical = FALSE]]
        /\ UNCHANGED <<fundVars, controllerVars>>

\* In the first phase anybody shows a competitor older than those known.
ChallengeInFlightExitNotCanonical(t, competingTx, p) ==
    LET ife == inFlightExits[t]
    IN  /\ IsStarted(t)
        /\ IsInFirstPhase(t)
        /\ Competes(competingTx, t)
        /\ p = Infinity \/ IsStandardFinalized(competingTx, p)
        /\ ife.oldestCompetitorPosition = 0 \/ ife.oldestCompetitorPosition > p
        /\ inFlightExits' = [inFlightExits EXCEPT ![t] =
                [ife EXCEPT !.oldestCompetitorPosition = p, !.isCanonical = FALSE]]
        /\ UNCHANGED <<fundVars, controllerVars>>

\* Anybody shows t itself in a block older than the oldest competitor, at any time.
RespondToNonCanonicalChallenge(t, p) ==
    LET ife == inFlightExits[t]
    IN  /\ IsStarted(t)
        /\ ife.oldestCompetitorPosition > p
        /\ IsStandardFinalized(t, p)
        /\ inFlightExits' = [inFlightExits EXCEPT ![t] =
                [ife EXCEPT !.oldestCompetitorPosition = p, !.isCanonical = TRUE]]
        /\ UNCHANGED <<fundVars, controllerVars>>

\* The bit of s is cleared and the challenger gets its bond; the queue is left as it is.
Unpiggyback(t, s) ==
    /\ s \in inFlightExits[t].exitMap
    /\ inFlightExits' = [inFlightExits EXCEPT ![t].exitMap = @ \ {s}]
    /\ ethBalance' = ethBalance - inFlightExits[t].piggybackBond[s]
    /\ UNCHANGED <<vaultBalance, withdrawn, controllerVars>>

ChallengeInFlightExitInputSpent(t, s, challengingTx) ==
    /\ IsStarted(t)
    /\ s \in InputSlots(t) /\ Spends(challengingTx, OutputAt(t, s))
    /\ challengingTx # t
    /\ Unpiggyback(t, s)

ChallengeInFlightExitOutputSpent(t, s, challengingTx) ==
    /\ IsStarted(t)
    /\ s \in OutputSlots(t)
    /\ \E p \in Positions(t) : SpendsAt(challengingTx, OutputAt(t, s), p)
    /\ Unpiggyback(t, s)

\* A mutant: the phase is tested the wrong way round.
DeleteInFlightExitInFirstPhase(t) ==
    /\ IsStarted(t)
    /\ IsInFirstPhase(t)
    /\ inFlightExits[t].exitMap = {}
    /\ inFlightExits' = [inFlightExits EXCEPT ![t] = NoInFlightExit]
    /\ ethBalance' = ethBalance - inFlightExits[t].bondSize
    /\ UNCHANGED <<vaultBalance, withdrawn, controllerVars>>

\* Once the first phase is over anybody deletes an exit that nobody piggybacks on, and the
\* bond goes back to who started it.
DeleteNonPiggybackedInFlightExit(t) ==
    /\ IsStarted(t)
    /\ ~IsInFirstPhase(t)
    /\ inFlightExits[t].exitMap = {}
    /\ inFlightExits' = [inFlightExits EXCEPT ![t] = NoInFlightExit]
    /\ ethBalance' = ethBalance - inFlightExits[t].bondSize
    /\ UNCHANGED <<vaultBalance, withdrawn, controllerVars>>

----------------------------------------------------------------------------

OmitInFlightExit(t) ==
    /\ ~IsStarted(t)
    /\ UNCHANGED <<fundVars, outputsFinalizations, inFlightExits>>

\* A mutant: whether other exits have the inputs is not asked.
ExitsInputsWhenNonCanonical(t) == ~inFlightExits[t].isCanonical

\* Whether inputs exit, and not outputs.
ExitsInputs(t) ==
    \/ ~inFlightExits[t].isCanonical
    \/ IsAnyInputFinalizedByOtherExit(Inputs(t), InFlightExitId(t))

\* What is piggybacked of the token on the side that exits: a function from the inputs or the
\* outputs to what they are outputIds of.
Exiting(t, token) ==
    LET side == IF ExitsInputs(t) THEN InputSlots(t) ELSE OutputSlots(t)
    IN  [s \in Piggybacked(t, token) \cap side |-> OutputAt(t, s)]

\* A mutant: a canonical exit flags inputs only of the token processed.
FlaggedOfToken(t, token) ==
    Range(Exiting(t, token)) \cup
        (IF ExitsInputs(t) THEN {} ELSE {i \in Inputs(t) : Token(i) = token})

\* A canonical exit flags every input, of whatever token, piggybacked or not.
Flagged(t, token) ==
    Range(Exiting(t, token)) \cup (IF ExitsInputs(t) THEN {} ELSE Inputs(t))

\* The bond of the exit itself, beside those of its piggybacks.
ExitBond == <<"exit", <<"exit", 0>> >>

\* A mutant: the bond of the exit goes back with each token.
BondsDueEachTime(t, token) ==
    LET ife == inFlightExits[t]
    IN  [b \in ({"bond", "bounty"} \X Piggybacked(t, token)) \cup {ExitBond} |->
            CASE b = ExitBond -> ife.bondSize
              [] b[1] = "bounty" -> ife.piggybackBounty[b[2]]
              [] b[1] = "bond" -> ife.piggybackBond[b[2]] - ife.piggybackBounty[b[2]]]

\* The transfers of ETH: for each piggyback of the token, whichever side it is on, its bond,
\* less the bounty for the caller of processExits, and with the last piggyback the exit's bond.
BondsDue(t, token) ==
    LET ife == inFlightExits[t]
        ends == ife.exitMap = Piggybacked(t, token)
    IN  [b \in ({"bond", "bounty"} \X Piggybacked(t, token)) \cup {ExitBond} |->
            CASE b = ExitBond -> (IF ends THEN ife.bondSize ELSE 0)
              [] b[1] = "bounty" -> ife.piggybackBounty[b[2]]
              [] b[1] = "bond" -> ife.piggybackBond[b[2]] - ife.piggybackBounty[b[2]]]

\* The vault pays for each input or output that exits and was not finalized before: one output
\* at two inputs is paid for at both.  Only then come the flags, the bonds and the bits of the
\* token.
FinalizeInFlightExit(t, token) ==
    LET exitId == InFlightExitId(t)
        exiting == Exiting(t, token)
        due == Restrict(exiting, {s \in DOMAIN exiting : ~IsOutputFinalized(exiting[s])})
        bonds == BondsDue(t, token)
        left == inFlightExits[t].exitMap \ Piggybacked(t, token)
    IN  /\ IsStarted(t)
        /\ \E paid \in Payable(token, due) : Withdraw(exitId, token, Restrict(due, paid))
        /\ BatchFlagOutputsFinalized(Flagged(t, token), exitId)
        /\ \E sent \in Accepted(DOMAIN bonds) : ethBalance' = ethBalance - SumFunctionOnSet(bonds, sent)
        /\ inFlightExits' = [inFlightExits EXCEPT ![t] =
                IF left = {} THEN NoInFlightExit ELSE [@ EXCEPT !.exitMap = left]]

ProcessInFlightExit(t, token) == OmitInFlightExit(t) \/ FinalizeInFlightExit(t, token)

InFlightExitTypeOK == inFlightExits \in [Txs -> InFlightExitData]
====
