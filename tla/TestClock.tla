---- MODULE TestClock ----
(***************************************************************************)
(* The time of the chain that the Python tests run on.  AutominingEth      *)
(* (tests_utils/convenience_wrappers.py) mines a block per transaction and *)
(* gives it its timestamp; the testing language (testlang.py) forwards     *)
(* time through it, and the contracts take the timestamp for the phases of *)
(* an in-flight exit.  One object serves all the tests of a session.       *)
(***************************************************************************)
EXTENDS Integers

CONSTANTS
    MIN_EXIT_PERIOD,
    Amounts,            \* seconds that tests forward
    MaxTime, MaxPending \* bounds of the model, not of the code

ASSUME ClockAssumption ==
    /\ MIN_EXIT_PERIOD \in Nat /\ MIN_EXIT_PERIOD >= 2
    /\ Amounts \subseteq Nat \ {0}
    /\ MaxTime \in Nat /\ MaxPending \in Nat

None == 0                               \* timestamps are above 0
IN_FLIGHT_PERIOD == MIN_EXIT_PERIOD \div 2

VARIABLES
    height, latest,     \* the number and the timestamp of the latest block
    nextTimestamp,      \* _next_timestamp
    automine,           \* _mine
    pending,            \* transactions that are not mined
    exitStart,          \* the timestamp of the block that started an in-flight exit
    askedPeriod         \* history: the period of the last forward, if it was one to a period

clockVars == <<height, latest, nextTimestamp, automine, pending, exitStart, askedPeriod>>

ClockInit ==
    /\ height = 0 /\ latest = 1
    /\ nextTimestamp = None
    /\ automine = TRUE
    /\ pending = 0
    /\ exitStart = None
    /\ askedPeriod = 1

\* Nothing is mined: the next block gets the time, and only the last call counts.
IncreaseTime(seconds) ==
    /\ latest + seconds <= MaxTime        \* bound
    /\ nextTimestamp' = latest + seconds
    /\ UNCHANGED <<height, latest, automine, pending, exitStart>>

ForwardTimestamp(amount) ==
    /\ IncreaseTime(amount)
    /\ askedPeriod' = 1

\* A mutant: just before the period.
ForwardToPeriodBefore(period) ==
    /\ period > 1
    /\ IncreaseTime(((period - 1) * IN_FLIGHT_PERIOD) - 1)
    /\ askedPeriod' = period

\* To period 1 nothing is forwarded.
ForwardToPeriod(period) ==
    /\ period > 1
    /\ IncreaseTime((period - 1) * IN_FLIGHT_PERIOD)
    /\ askedPeriod' = period

GetNextTimestamp == IF nextTimestamp # None THEN nextTimestamp ELSE latest + 1

MineBlock ==
    /\ GetNextTimestamp <= MaxTime              \* bound
    /\ height' = height + 1
    /\ latest' = GetNextTimestamp
    /\ nextTimestamp' = None
    /\ pending' = 0
    /\ askedPeriod' = 1
    /\ UNCHANGED automine

\* mine(), without a timestamp: no test passes one.
Mine == MineBlock /\ UNCHANGED exitStart

SendTransaction ==
    /\ IF automine THEN MineBlock
       ELSE /\ pending < MaxPending             \* bound
            /\ pending' = pending + 1
            /\ UNCHANGED <<height, latest, nextTimestamp, automine, askedPeriod>>
    /\ UNCHANGED exitStart

\* A transaction that starts an in-flight exit.
StartInFlightExit == automine /\ exitStart = None /\ MineBlock /\ exitStart' = latest'

DisableAutoMine ==
    /\ automine' = FALSE
    /\ UNCHANGED <<height, latest, nextTimestamp, pending, exitStart, askedPeriod>>

\* The fixture w3 after a test; the next one has other contracts, but the same chain.
EndTest ==
    /\ automine' = TRUE
    /\ exitStart' = None
    /\ UNCHANGED <<height, latest, nextTimestamp, pending, askedPeriod>>

ClockNext ==
    \/ \E amount \in Amounts : ForwardTimestamp(amount)
    \/ \E period \in 2 .. 4 : ForwardToPeriod(period)
    \/ Mine
    \/ SendTransaction
    \/ StartInFlightExit
    \/ DisableAutoMine
    \/ EndTest

ClockSpec == ClockInit /\ [][ClockNext]_clockVars

\* PaymentInFlightExitModelUtils.isInFirstPhase at a time.
IsInFirstPhase(time) == (time - exitStart) \div (MIN_EXIT_PERIOD \div 2) < 1

----------------------------------------------------------------------------

\* Time moves on with every block: of the blocks whose times the exit games compare, no two have
\* the same and none goes back, whatever was forwarded before, in this test or the one before.
\* The first block after forward_to_period is past the period asked for, so that what it carries is
\* not in the first phase of an exit started before.
PeriodReached ==
    [][ height' # height =>
            /\ latest' > latest
            /\ askedPeriod > 1 /\ exitStart # None => ~ IsInFirstPhase(latest') ]_clockVars
====
