---- MODULE StandardExit ----
(***************************************************************************)
(* The standard exits of the payment exit game: the owner of an output of  *)
(* an included transaction starts one under a bond, anybody who shows a    *)
(* transaction that spends the output challenges it and takes the bond,    *)
(* and processExits ends it.  A challenged exit stays in the map and in    *)
(* the queue, no longer exitable, until it is processed.                   *)
(***************************************************************************)
EXTENDS ExitGameController

CONSTANTS
    \* Bounds of the model, not of the code.
    StandardExitable,   \* the outputs whose owners use standard exits
    LastStart           \* no exit starts after this time

VARIABLE standardExits  \* [OutputIds -> StandardExitData], by output: the exit id is its hash

StandardExitData ==
    [exitable : BOOLEAN, utxoPos : Nat, amount : Nat, bondSize : Nat, bountySize : Nat]
NoStandardExit ==
    [exitable |-> FALSE, utxoPos |-> 0, amount |-> 0, bondSize |-> 0, bountySize |-> 0]

ASSUME StandardExitAssumption == StandardExitable \subseteq OutputIds /\ LastStart \in Nat

StandardExitInit == standardExits = [o \in OutputIds |-> NoStandardExit]

\* The owner of output o exits it, from the block p that includes its transaction.  That the
\* exit is not there already is read off its amount.
StartStandardExit(o, p, bond) ==
    LET exitableAt == IF IsDeposit(p)
            THEN CalculateDepositTxOutputExitableTimestamp
            ELSE CalculateTxExitableTimestamp(BlockOf(p).timestamp)
    IN  /\ now <= LastStart
        /\ IsStandardFinalized(o[1], p)
        /\ standardExits[o].amount = 0
        /\ ~IsOutputFinalized(o)
        /\ standardExits' = [standardExits EXCEPT ![o] =
                [exitable |-> TRUE, utxoPos |-> p, amount |-> Amount(o),
                 bondSize |-> bond.size, bountySize |-> bond.bounty]]
        /\ Enqueue(Token(o), exitableAt, p, StandardExitId(o))
        /\ ethBalance' = ethBalance + bond.size
        /\ UNCHANGED <<vaultBalance, withdrawn, outputsFinalizations>>

\* A mutant: a challenge deletes the exit.
ChallengeStandardExitDeleting(o, challengeTx) ==
    /\ standardExits[o].exitable
    /\ SpendsAt(challengeTx, o, standardExits[o].utxoPos)
    /\ standardExits' = [standardExits EXCEPT ![o] = NoStandardExit]
    /\ ethBalance' = ethBalance - standardExits[o].bondSize
    /\ UNCHANGED <<vaultBalance, withdrawn, controllerVars>>
\* A mutant: an exit can be challenged as long as it is there.
ChallengeStandardExitAgain(o, challengeTx) ==
    /\ standardExits[o].amount # 0
    /\ SpendsAt(challengeTx, o, standardExits[o].utxoPos)
    /\ standardExits' = [standardExits EXCEPT ![o].exitable = FALSE]
    /\ ethBalance' = ethBalance - standardExits[o].bondSize
    /\ UNCHANGED <<vaultBalance, withdrawn, controllerVars>>

\* Anybody shows a transaction, included or not, that spends the exiting output where the
\* exit says it is.
ChallengeStandardExit(o, challengeTx) ==
    /\ standardExits[o].exitable
    /\ SpendsAt(challengeTx, o, standardExits[o].utxoPos)
    /\ standardExits' = [standardExits EXCEPT ![o].exitable = FALSE]
    /\ ethBalance' = ethBalance - standardExits[o].bondSize
    /\ UNCHANGED <<vaultBalance, withdrawn, controllerVars>>

\* A mutant: the exit stays in the map.
OmitStandardExitKeeping(o) ==
    /\ ~standardExits[o].exitable \/ IsOutputFinalized(o)
    /\ UNCHANGED <<fundVars, outputsFinalizations, standardExits>>

\* An exit that was challenged, or whose output is finalized by another exit, is omitted: it
\* is deleted and nothing is paid, not even the bond of an exit nobody challenged.
OmitStandardExit(o) ==
    /\ ~standardExits[o].exitable \/ IsOutputFinalized(o)
    /\ standardExits' = [standardExits EXCEPT ![o] = NoStandardExit]
    /\ UNCHANGED <<fundVars, outputsFinalizations>>

\* Otherwise the output is flagged, the bond goes back less the bounty, which the caller of
\* processExits gets, and the vault pays.
FinalizeStandardExit(o) ==
    LET exit == standardExits[o]
        due == [toOwner |-> exit.bondSize - exit.bountySize, toProcessor |-> exit.bountySize]
    IN  /\ exit.exitable /\ ~IsOutputFinalized(o)
        /\ BatchFlagOutputsFinalized({o}, StandardExitId(o))
        /\ \E sent \in Accepted(DOMAIN due) : ethBalance' = ethBalance - SumFunctionOnSet(due, sent)
        /\ \E paid \in Payable(Token(o), [s \in {o} |-> o]) :
                Withdraw(StandardExitId(o), Token(o), [s \in paid |-> o])
        /\ standardExits' = [standardExits EXCEPT ![o] = NoStandardExit]

ProcessStandardExit(o) == OmitStandardExit(o) \/ FinalizeStandardExit(o)

StandardExitTypeOK == standardExits \in [OutputIds -> StandardExitData]
====
