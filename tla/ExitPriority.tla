---- MODULE ExitPriority ----
(***************************************************************************)
(* The numbers that order a queue of exits (ExitPriority.sol,              *)
(* ExitableTimestamp.sol): the time an exit becomes exitable, the position *)
(* of its transaction and its id, each cut to its width, in one word.  The *)
(* queue holds words only; whoever reads one (the contract, and            *)
(* plasma_core/utils/exit_priority.py for the tests) takes it apart again. *)
(* Beside the queue, the history says which exits the words stand for.     *)
(***************************************************************************)
EXTENDS UtxoPosition, ChainTime, FiniteSetsExt

CONSTANTS
    TimestampSize,      \* 2^32
    ExitIdSize,         \* 2^168
    ExitPositions,      \* the outputs that exit
    ExitIds,
    \* Bounds of the model, not of the code.
    PriorityTime, MaxWords

\* Last: the dates stay within the range of a timestamp, in the code until the year 2106.
ASSUME PriorityAssumption ==
    /\ {TimestampSize, ExitIdSize} \subseteq Nat \ {0}
    /\ PriorityTime \in Nat /\ MaxWords \in Nat
    /\ ExitPositions \subseteq UtxoPositions
    /\ ExitIds \subseteq 0 .. ExitIdSize - 1
    /\ PriorityTime + (2 * MinExitPeriod) < TimestampSize

VARIABLES
    words,              \* the queue
    exits               \* history: the exits that were enqueued and not processed

priorityVars == <<clock, words, exits>>

\* A mutant: the exit id before the position.
ComputePriorityIdFirst(exitableAt, id, exitId) ==
    (exitableAt * TxPosSize * ExitIdSize) + (exitId * TxPosSize) + TxPosition(id)

\* uint256(exitableAt) << 224 | uint256(txPos) << 168 | uint256(exitId)
ComputePriority(exitableAt, id, exitId) ==
    (((exitableAt * TxPosSize) + TxPosition(id)) * ExitIdSize) + exitId

ParseExitableAt(priority) == (priority \div (TxPosSize * ExitIdSize)) % TimestampSize
ParseExitId(priority) == priority % ExitIdSize

\* The same in Python: what is above the field is cleared by an exclusive or with itself.
ClearAbove(priority, size) == priority - ((priority \div size) * size)
ParseExitPriority(priority) ==
    [exitableAt |-> priority \div (TxPosSize * ExitIdSize),
     txPos |-> ClearAbove(priority, TxPosSize * ExitIdSize) \div ExitIdSize,
     exitId |-> ClearAbove(priority, ExitIdSize)]

\* A mutant: the age of the block counts alone.
CalculateTxExitableTimestampOfBlock(blockTimestamp) ==
    (blockTimestamp + (2 * MinExitPeriod)) % TimestampSize
Later(s, t) == IF s >= t THEN s ELSE t
CalculateTxExitableTimestamp(blockTimestamp) ==
    Later(blockTimestamp + (2 * MinExitPeriod), clock + MinExitPeriod) % TimestampSize
CalculateDepositTxOutputExitableTimestamp == (clock + MinExitPeriod) % TimestampSize

PriorityInit == clock = 0 /\ words = {} /\ exits = {}

PriorityTick ==
    /\ TimePasses(PriorityTime)
    /\ UNCHANGED <<words, exits>>

Enqueue(exitableAt, p, exitId) ==
    LET priority == ComputePriority(exitableAt, IdOf(p), exitId)
    IN  /\ Cardinality(exits) < MaxWords            \* bound
        /\ priority \notin words                    \* "The same priority is already enqueued"
        /\ words' = words \cup {priority}
        /\ exits' = exits \cup {[priority |-> priority, exitableAt |-> exitableAt, pos |-> p,
                                 exitId |-> exitId, start |-> clock]}
        /\ UNCHANGED clock

\* An exit of an output of a block of some earlier time, or of a deposit.
StartExit(p, exitId, blockTimestamp) ==
    Enqueue(CalculateTxExitableTimestamp(blockTimestamp), p, exitId)
StartDepositExit(p, exitId) == Enqueue(CalculateDepositTxOutputExitableTimestamp, p, exitId)

\* One iteration of processExits.  The exit game gets the id that the word holds.
ProcessExit(priority) ==
    /\ priority \in words /\ \A q \in words : priority <= q
    /\ ParseExitableAt(priority) < clock
    /\ words' = words \ {priority}
    /\ exits' = {e \in exits : e.priority # priority}
    /\ UNCHANGED clock

PriorityNext ==
    \/ PriorityTick
    \/ \E p \in ExitPositions, exitId \in ExitIds :
         StartDepositExit(p, exitId) \/ \E t \in 0 .. clock : StartExit(p, exitId, t)
    \/ \E priority \in words : ProcessExit(priority)

PrioritySpec == PriorityInit /\ [][PriorityNext]_priorityVars

----------------------------------------------------------------------------

\* The order that is promised: by the time, then by the age of the transaction, then by the id.
Earlier(p, q) == p.blknum < q.blknum \/ (p.blknum = q.blknum /\ p.txindex < q.txindex)
SameTx(p, q) == p.blknum = q.blknum /\ p.txindex = q.txindex
Precedes(e, f) ==
    \/ e.exitableAt < f.exitableAt
    \/ e.exitableAt = f.exitableAt /\ Earlier(e.pos, f.pos)
    \/ e.exitableAt = f.exitableAt /\ SameTx(e.pos, f.pos) /\ e.exitId < f.exitId

ExitType ==
    [priority : Nat, exitableAt : 0 .. TimestampSize - 1, pos : UtxoPositions,
     exitId : 0 .. ExitIdSize - 1, start : 0 .. PriorityTime]

PriorityTypeOK ==
    /\ clock \in 0 .. PriorityTime
    /\ exits \subseteq ExitType
    /\ words = {e.priority : e \in exits}

\* Words are in the order of the exits they stand for, whatever was cut to its width on the way
\* (positions up to the last block and leaf that PosLib takes), and contract and tests read out
\* of a word what was packed into it: none is lost, and two exits of one word are one exit.
WordsReadBack ==
    \A e \in exits :
        /\ ParseExitableAt(e.priority) = e.exitableAt
        /\ ParseExitId(e.priority) = e.exitId
        /\ ParseExitPriority(e.priority) =
            [exitableAt |-> e.exitableAt, txPos |-> TxPosition(IdOf(e.pos)), exitId |-> e.exitId]
WordsAreOrdered ==
    /\ WordsReadBack
    /\ \A e, f \in exits : Precedes(e, f) <=> e.priority < f.priority

\* No exit is processed before a whole exit period is over since its start: until 2106, no time
\* is cut to an earlier one.
NotBeforeItsPeriod ==
    [][\A e \in exits : e \notin exits' => clock > e.start + MinExitPeriod]_priorityVars
====
