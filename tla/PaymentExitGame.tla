---- MODULE PaymentExitGame ----
(***************************************************************************)
(* The payment exit game on the framework: standard and in-flight exits of *)
(* the same outputs share the queues, the finalization flags, the vaults   *)
(* and the ETH of the exit game, and anybody calls processExits.           *)
(*                                                                         *)
(* processExits takes up to a given number of exits off a queue in one     *)
(* call.  An action here takes one, which is a call for one exit; a call   *)
(* for several is that many actions in a row, and one that reverts at a    *)
(* later exit is no action, so every state of the code is reached.         *)
(***************************************************************************)
EXTENDS StandardExit, InFlightExit

vars == <<chainVars, fundVars, controllerVars, standardExits, inFlightExits>>

Init ==
    /\ ChainInit
    /\ FundsInit
    /\ ControllerInit
    /\ StandardExitInit
    /\ InFlightExitInit

\* One iteration of processExits: the head leaves its queue and the exit game is called back.
ProcessExit(token, priority) ==
    LET exitId == priority.exitId
    IN  /\ TakeHead(token, priority)
        /\ IF IsStandardExit(exitId)
           THEN ProcessStandardExit(exitId.of) /\ UNCHANGED inFlightExits
           ELSE ProcessInFlightExit(exitId.of[1], token) /\ UNCHANGED standardExits

ProcessExits(token) ==
    /\ HasExitQueue(token)
    /\ \E priority \in exitsQueues[token] : ProcessExit(token, priority)
    /\ UNCHANGED chainVars

TimePasses ==
    /\ Tick
    /\ UNCHANGED <<fundVars, controllerVars, standardExits, inFlightExits>>

Framework ==
    \/ /\ \E t \in Txs : SubmitBlock(t)
       /\ UNCHANGED <<fundVars, controllerVars, standardExits, inFlightExits>>
    \/ /\ \E k \in Tokens : AddExitQueue(k)
       /\ UNCHANGED <<chainVars, fundVars, standardExits, inFlightExits>>

StandardExits ==
    /\ \/ \E o \in StandardExitable, p \in DOMAIN chain, bond \in BondSizes :
            StartStandardExit(o, p, bond)
       \/ \E o \in StandardExitable, t \in Txs : ChallengeStandardExit(o, t)
    /\ UNCHANGED <<chainVars, inFlightExits>>

DeleteInFlightExit(t) ==
    /\ DeleteNonPiggybackedInFlightExit(t)
    /\ UNCHANGED <<chainVars, standardExits>>

InFlightGame ==
    /\ \/ \E t \in InFlightTxs, bond \in BondSizes : StartInFlightExit(t, bond.size)
       \/ \E t \in InFlightTxs, s \in Slots, bond \in BondSizes : Piggyback(t, s, bond)
       \/ \E t \in InFlightTxs, c \in Txs, p \in DOMAIN chain \cup {Infinity} :
            ChallengeInFlightExitNotCanonical(t, c, p)
       \/ \E t \in InFlightTxs, p \in DOMAIN chain : RespondToNonCanonicalChallenge(t, p)
       \/ \E t \in InFlightTxs, s \in Slots, c \in Txs : ChallengeInFlightExitInputSpent(t, s, c)
       \/ \E t \in InFlightTxs, s \in Slots, c \in Txs : ChallengeInFlightExitOutputSpent(t, s, c)
    /\ UNCHANGED <<chainVars, standardExits>>

Next ==
    \/ TimePasses
    \/ Framework
    \/ StandardExits
    \/ InFlightGame
    \/ \E t \in InFlightTxs : DeleteInFlightExit(t)
    \/ \E k \in Tokens : ProcessExits(k)

Spec == Init /\ [][Next]_vars

\* Time goes on, and for the bounty somebody calls processExits while something is exitable;
\* the owner of the bond of an in-flight exit without piggybacks asks for its deletion.
Fairness ==
    /\ WF_vars(TimePasses)
    /\ \A k \in Tokens : WF_vars(ProcessExits(k))
    /\ \A t \in InFlightTxs : WF_vars(DeleteInFlightExit(t))

FairSpec == Spec /\ Fairness

----------------------------------------------------------------------------

\* Every variable has its type.  The ETH of the exit game is in EthSolvency.
TypeOK ==
    /\ ChainTypeOK
    /\ ControllerTypeOK
    /\ StandardExitTypeOK
    /\ InFlightExitTypeOK
    /\ withdrawn \in [OutputIds -> Seq(ExitIds)]

\* How often an exit can ask for output o: the in-flight exit of a transaction that spends o at
\* each input that names it, any other exit once.
InputsNaming(t, o) == Cardinality({s \in InputSlots(t) : OutputAt(t, s) = o})
Claims(exitId, o) ==
    LET t == exitId.of[1]
    IN  IF ~IsStandardExit(exitId) /\ o \in Inputs(t) THEN InputsNaming(t, o) ELSE 1

\* Whatever mix of standard exits, in-flight exits of the transaction that makes it, in-flight
\* exits of those that spend it, and restarts of these an output takes part in, only the exit
\* that finalized it is paid for it, and no more often than once for each of its claims: once,
\* unless that exit's transaction names the output at several inputs.
WithdrawnByItsFinalizer ==
    \A o \in OutputIds : withdrawn[o] # <<>> =>
        /\ Range(withdrawn[o]) = {outputsFinalizations[o]}
        /\ Len(withdrawn[o]) <= Claims(outputsFinalizations[o], o)

\* Whether the exit of t was paid for output o.
WasPaid(t, o) == InFlightExitId(t) \in Range(withdrawn[o])

\* When the in-flight exit of t was paid an output of t, each input of t is finalized by that
\* same exit: no standard exit and no competing in-flight exit was or will be paid for it.
PaidOutputBlocksInputs ==
    \A t \in Txs : \A o \in Outputs(t) : WasPaid(t, o) =>
        \A i \in Inputs(t) : outputsFinalizations[i] = InFlightExitId(t)

\* Of two in-flight transactions that spend the same output, at most one has outputs paid
\* through in-flight exits, even if both exits end up canonical.
CompetitorsExclusive ==
    \A t, c \in Txs : c # t /\ Inputs(c) \cap Inputs(t) # {} =>
        ~ \E o \in Outputs(t), d \in Outputs(c) : WasPaid(t, o) /\ WasPaid(c, d)

\* A standard exit is in the map exactly while its token's queue holds it, and held once: it
\* is neither forgotten nor processed twice.
StandardExitQueuedOnce ==
    \A o \in OutputIds :
        LET entries == IF HasExitQueue(Token(o))
                       THEN {p \in exitsQueues[Token(o)] : p.exitId = StandardExitId(o)}
                       ELSE {}
        IN  Cardinality(entries) = IF standardExits[o] = NoStandardExit THEN 0 ELSE 1

\* Whatever is piggybacked has an entry in the queue of its token, so that it is processed:
\* challenges, new piggybacks, deletion and restarts never leave a piggyback without one.
PiggybackQueued ==
    \A t \in Txs : \A s \in inFlightExits[t].exitMap :
        LET token == Token(OutputAt(t, s))
        IN  /\ HasExitQueue(token)
            /\ \E p \in exitsQueues[token] : p.exitId = InFlightExitId(t)

\* The canonicity game can be won by who is right.  While t is included before any of its
\* competitors, a challenge of its exit can be answered, however often it was challenged and
\* answered before; while a competitor is included before t, the exit can still be challenged
\* with it, as long as the first phase lasts.
RightfulSideCanAnswer ==
    \A t \in Txs : IsStarted(t) =>
        LET ife == inFlightExits[t]
            competitors == {c \in Txs \ {t} : Inputs(c) \cap Inputs(t) # {}}
            rivals == UNION {Positions(c) : c \in competitors}
        IN  /\ ~ife.isCanonical /\ (\E p \in Positions(t) : \A q \in rivals : p < q) =>
                    \E p \in Positions(t) : ife.oldestCompetitorPosition > p
            /\ ife.isCanonical /\ IsInFirstPhase(t) =>
                    \A q \in rivals : (\A p \in Positions(t) : q < p) =>
                        ife.oldestCompetitorPosition \notin 1..q

\* What the exit game owes: the bonds of the standard exits that can still exit, of the
\* in-flight exits, and of the piggybacks.
Owed ==
    LET standard == {o \in OutputIds : standardExits[o].exitable}
        piggybacks == UNION {{t} \X inFlightExits[t].exitMap : t \in Txs}
    IN  SumFunction([o \in standard |-> standardExits[o].bondSize])
        + SumFunction([t \in Txs |-> inFlightExits[t].bondSize])
        + SumFunction([b \in piggybacks |-> inFlightExits[b[1]].piggybackBond[b[2]]])

\* The exit game can pay every bond it owes: no bond is paid twice.
EthSolvency == ethBalance >= Owed

\* Each step pays out or takes in exactly what the exit game stops or starts to owe, unless a
\* standard exit that nobody challenged is omitted: its bond stays in the contract for good.
\* (Where no receiver rejects ETH.)
BondsAccounted ==
    [][ \/ ethBalance' - ethBalance = Owed' - Owed
        \/ \E o \in OutputIds :
            /\ standardExits[o].exitable /\ IsOutputFinalized(o)
            /\ standardExits'[o] = NoStandardExit
            /\ ethBalance' = ethBalance]_vars

\* The exits implement Payouts: every step finalizes and pays as one exit may, or does neither.
Promised == INSTANCE Payouts WITH
    InputsOf <- [t \in Txs |-> [o \in OutputIds |-> InputsNaming(t, o)]],
    OutputsOf <- [t \in Txs |-> Outputs(t)],
    StandardExitOf <- [o \in OutputIds |-> StandardExitId(o)],
    InFlightExitOf <- [t \in Txs |-> InFlightExitId(t)],
    finalizedBy <- outputsFinalizations,
    paidTo <- withdrawn
ImplementsPayouts == Promised!Spec

\* While an exit is queued that was started no later than one period after the block of its
\* transaction, or is a deposit's, no exit of a younger transaction is processed from that
\* queue, except a standard exit of a deposit, whose period is shorter.
OlderGoesFirst ==
    [][\A k \in DOMAIN exitsQueues : \A p, q \in exitsQueues[k] :
        /\ p \notin exitsQueues'[k]
        /\ q \in exitsQueues'[k]
        /\ q.exitableAt <= BlockOf(q.txPos).timestamp + 2 * MinExitPeriod
        /\ q.txPos < p.txPos
        => IsStandardExit(p.exitId) /\ IsDeposit(p.txPos)]_vars

----------------------------------------------------------------------------
(* Statements of the repository that the code does not keep. *)

\* "An output can not be exited if [...] it is an output of a transaction for which at least
\* one of its inputs is already finalized": no output of t is paid through the in-flight exit
\* of t when an input of t was paid too.
OutputNotPaidAfterInput ==
    \A t \in Txs : \A o \in Outputs(t), i \in Inputs(t) :
        ~(WasPaid(t, o) /\ withdrawn[i] # <<>>)

\* "To prevent a double spend, it is needed to know if an output can be exited. An output can not
\* be exited if [...] it is finalized by an in-flight exit as input of a non-canonical
\* transaction": no output is paid for twice.
WithdrawnOnce == \A o \in OutputIds : Len(withdrawn[o]) <= 1

\* "Exit has already started": no standard exit is enqueued while a queue still holds it.
ExitStartedOnce ==
    [][\A k \in DOMAIN exitsQueues : \A p \in exitsQueues[k], q \in exitsQueues'[k] \ exitsQueues[k] :
        IsStandardExit(p.exitId) => p.exitId # q.exitId]_vars

\* "test_in_flight_exit_is_not_processed_before_exit_period_passes": an in-flight exit is paid
\* for only after the minimum exit period since its start.
InFlightExitAwaitsPeriod ==
    [][\A t \in Txs, o \in OutputIds : WasPaid(t, o)' /\ ~WasPaid(t, o) =>
            now > inFlightExits[t].exitStartTimestamp + MinExitPeriod]_vars

----------------------------------------------------------------------------

\* Every standard exit that was started is finalized or omitted in the end.
StandardExitEnds ==
    \A o \in StandardExitable : standardExits[o].amount # 0 ~> standardExits[o].amount = 0

\* Every in-flight exit ends, by processing or by deletion, and its bond leaves with it.
InFlightExitEnds ==
    \A t \in InFlightTxs : IsStarted(t) ~> ~IsStarted(t)

\* Once someone calls processExits and the deletion, no exit of either kind stays for ever,
\* whatever was challenged, restarted or omitted before.
ExitsEnd == StandardExitEnds /\ InFlightExitEnds
====
