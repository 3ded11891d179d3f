---- MODULE InFlightExitView ----
(***************************************************************************)
(* The exit map of one in-flight exit, as the contract keeps it            *)
(* (PaymentInFlightExitModelUtils, Bits), as the Python tests set it       *)
(* through one function for inputs and outputs (testlang.py,               *)
(* tests_utils/plasma_framework.py) and as InFlightExit in testlang.py     *)
(* reads it.  The indexes are shifted in three places.                     *)
(***************************************************************************)
EXTENDS Integers, Functions

CONSTANTS
    NUM_INPUTS, NUM_OUTPUTS,            \* of Transaction, in Python
    MAX_INPUT_NUM, MAX_OUTPUT_NUM,      \* of PaymentTransactionModel
    TokenOf,        \* the tokens of the exit's inputs and then outputs; of the empty ones, ETH
    Filled,         \* those that are not empty
    MaxQueued       \* bound: entries of the exit in the queue of a token

\* The bits of the exit map: of the inputs, then of the outputs.
MapBits == 0 .. MAX_INPUT_NUM + MAX_OUTPUT_NUM - 1
Tokens == {TokenOf[k] : k \in MapBits}
BitsOf(token) == {k \in MapBits : TokenOf[k] = token}

\* Both sides say five; the Python side can only be right if they agree.
ASSUME NumAssumption ==
    /\ {NUM_INPUTS, NUM_OUTPUTS, MAX_INPUT_NUM, MAX_OUTPUT_NUM} \subseteq Nat \ {0}
    /\ NUM_INPUTS = MAX_INPUT_NUM /\ NUM_OUTPUTS = MAX_OUTPUT_NUM
    /\ DOMAIN TokenOf = MapBits /\ Filled \subseteq MapBits /\ MaxQueued \in Nat
    \* What powers are, which the proofs know from here only: of the bits that are read.
    /\ 2^0 = 1 /\ \A k \in 1 .. 2 * (NUM_INPUTS + NUM_OUTPUTS) : 2^k = 2 * 2^(k - 1)

VARIABLES
    phase,                  \* 0: there is no such exit, 1: it is in its first phase, 2: after that
    exitMap,                \* InFlightExit.exitMap of the contract
    queued, ripe,           \* the entries in the queues of the tokens; those of them that are exitable
    inputs, outputs         \* history: piggybacked, and neither challenged nor processed since

viewVars == <<phase, exitMap, queued, ripe, inputs, outputs>>

ViewInit ==
    /\ phase = 0 /\ exitMap = 0 /\ inputs = {} /\ outputs = {}
    /\ queued = [token \in Tokens |-> 0] /\ ripe = queued

----------------------------------------------------------------------------
\* The contract.

GetBit(map, k) == (map \div 2^k) % 2
SetBit(map, k) == map + ((1 - GetBit(map, k)) * 2^k)
ClearBit(map, k) == map - (GetBit(map, k) * 2^k)

\* All the bits of ks, one after another.
ClearBits(map, ks) == map - SumFunctionOnSet([k \in MapBits |-> GetBit(map, k) * 2^k], ks)

NothingPiggybacked(map) == \A k \in MapBits : GetBit(map, k) = 0

\* The first piggyback of a token puts the exit in the token's queue.
Enqueue(token) ==
    IF \E k \in BitsOf(token) : GetBit(exitMap, k) = 1 THEN UNCHANGED queued
    ELSE queued[token] < MaxQueued /\ queued' = [queued EXCEPT ![token] = @ + 1]

SetPiggybacked(k) ==
    /\ phase = 1
    /\ k \in Filled /\ GetBit(exitMap, k) = 0
    /\ Enqueue(TokenOf[k])
    /\ exitMap' = SetBit(exitMap, k)
    /\ UNCHANGED <<phase, ripe>>

SetInputPiggybacked(i) == i < MAX_INPUT_NUM /\ SetPiggybacked(i)
SetOutputPiggybacked(j) == j < MAX_OUTPUT_NUM /\ SetPiggybacked(j + MAX_INPUT_NUM)

\* The map of an exit that is not there is empty, which the start relies on.
StartExit ==
    /\ phase = 0
    /\ phase' = 1
    /\ UNCHANGED <<exitMap, queued, ripe, inputs, outputs>>

\* What is queued in the first phase is not exitable before its end.
FirstPhaseEnds ==
    /\ phase = 1
    /\ phase' = 2
    /\ ripe' = queued
    /\ UNCHANGED <<exitMap, queued, inputs, outputs>>

ChallengeInFlightExitInputSpent(i) ==
    /\ phase # 0
    /\ i < MAX_INPUT_NUM /\ GetBit(exitMap, i) = 1
    /\ exitMap' = ClearBit(exitMap, i)
    /\ inputs' = inputs \ {i}
    /\ UNCHANGED <<phase, queued, ripe, outputs>>

ChallengeInFlightExitOutputSpent(j) ==
    /\ phase # 0
    /\ j < MAX_OUTPUT_NUM /\ GetBit(exitMap, j + MAX_INPUT_NUM) = 1
    /\ exitMap' = ClearBit(exitMap, j + MAX_INPUT_NUM)
    /\ outputs' = outputs \ {j}
    /\ UNCHANGED <<phase, queued, ripe, inputs>>

\* The queue of the token gets to an entry of the exit, which may be left from before the exit was
\* deleted and started again.  What is paid is not seen in the map.
ProcessExit(token) ==
    LET cleared == ClearBits(exitMap, BitsOf(token))
    IN  /\ ripe[token] > 0
        /\ ripe' = [ripe EXCEPT ![token] = @ - 1]
        /\ queued' = [queued EXCEPT ![token] = @ - 1]
        /\ IF phase = 0 THEN UNCHANGED <<phase, exitMap, inputs, outputs>>     \* omitted
           ELSE /\ IF NothingPiggybacked(cleared) THEN phase' = 0 /\ exitMap' = 0
                   ELSE exitMap' = cleared /\ UNCHANGED phase
                /\ inputs' = inputs \ BitsOf(token)
                /\ outputs' = {j \in outputs : j + NUM_INPUTS \notin BitsOf(token)}

DeleteExit ==
    /\ phase = 2 /\ NothingPiggybacked(exitMap)
    /\ phase' = 0 /\ exitMap' = 0
    /\ UNCHANGED <<queued, ripe, inputs, outputs>>

----------------------------------------------------------------------------
\* The testing language.

\* A mutant: the last input counts as an output.
PiggybackInFlightExitLast(k) ==
    IF k < NUM_INPUTS - 1 THEN SetInputPiggybacked(k) ELSE SetOutputPiggybacked(k - NUM_INPUTS + 1)

\* piggybackInFlightExit of the wrapper: inputs first, then outputs.
PiggybackInFlightExit(k) ==
    IF k < NUM_INPUTS THEN SetInputPiggybacked(k) ELSE SetOutputPiggybacked(k - NUM_INPUTS)

\* Any index will do: those after the inputs' are the outputs'.
PiggybackInFlightExitInput(k) ==
    /\ PiggybackInFlightExit(k)
    /\ IF k < NUM_INPUTS THEN inputs' = inputs \cup {k} /\ UNCHANGED outputs
       ELSE outputs' = outputs \cup {k - NUM_INPUTS} /\ UNCHANGED inputs

PiggybackInFlightExitOutput(j) ==
    /\ j \in 0 .. NUM_OUTPUTS - 1
    /\ PiggybackInFlightExitInput(j + NUM_INPUTS)

\* The last index is one too many.
ViewNext ==
    \/ StartExit \/ FirstPhaseEnds \/ DeleteExit
    \/ \E k \in 0 .. NUM_INPUTS + NUM_OUTPUTS : PiggybackInFlightExitInput(k)
    \/ \E j \in 0 .. NUM_OUTPUTS : PiggybackInFlightExitOutput(j)
    \/ \E i \in 0 .. NUM_INPUTS - 1 : ChallengeInFlightExitInputSpent(i)
    \/ \E j \in 0 .. NUM_OUTPUTS - 1 : ChallengeInFlightExitOutputSpent(j)
    \/ \E token \in Tokens : ProcessExit(token)

ViewSpec == ViewInit /\ [][ViewNext]_viewVars

----------------------------------------------------------------------------
\* The class InFlightExit, with the map that get_in_flight_exit reads.

InputPiggybacked(k) == (exitMap \div 2^k) % 2 = 1
OutputPiggybacked(j) == InputPiggybacked(j + NUM_INPUTS)
InputBlocked(i) == InputPiggybacked(i + NUM_INPUTS + NUM_OUTPUTS)
OutputBlocked(j) == InputBlocked(j + NUM_INPUTS)

\* What a test reads off an exit is what was piggybacked through the testing language and neither
\* challenged nor processed since, for the exit's tokens one by one, over its end, its deletion and
\* its next start, whatever the index shifts in between did; and nothing is ever blocked, for which
\* the contract has no bits.
ReadsBack ==
    /\ \A i \in 0 .. NUM_INPUTS - 1 : InputPiggybacked(i) <=> i \in inputs
    /\ \A j \in 0 .. NUM_OUTPUTS - 1 : OutputPiggybacked(j) <=> j \in outputs
    /\ \A i \in 0 .. NUM_INPUTS - 1 : ~ InputBlocked(i)
    /\ \A j \in 0 .. NUM_OUTPUTS - 1 : ~ OutputBlocked(j)
====
