---- MODULE Payouts ----
(***************************************************************************)
(* What the exits promise about money, whatever queue, bond or challenge   *)
(* led there: which exit finalized an output, and which exits the vaults   *)
(* paid it to.  The exits named here are the standard exit of each output  *)
(* and the in-flight exit of each transaction; one of them finalizes some  *)
(* outputs in one step and is paid for some of those it is the first to    *)
(* finalize: once for each, but an in-flight exit that gives inputs back   *)
(* up to once for each input that names the output.                        *)
(***************************************************************************)
EXTENDS Naturals, Sequences

CONSTANTS
    Txs, OutputIds,
    InputsOf,                       \* [Txs -> [OutputIds -> Nat]]: how many inputs name the output
    OutputsOf,                      \* [Txs -> SUBSET OutputIds]
    StandardExitOf,                 \* [OutputIds -> exit id]
    InFlightExitOf,                 \* [Txs -> exit id]
    NoExit

VARIABLES
    finalizedBy,    \* [OutputIds -> exit id or NoExit]
    paidTo          \* [OutputIds -> Seq(exit id)]

payoutVars == <<finalizedBy, paidTo>>

Init ==
    /\ finalizedBy = [o \in OutputIds |-> NoExit]
    /\ paidTo = [o \in OutputIds |-> <<>>]

Finalized(o) == finalizedBy[o] # NoExit

\* exitId finalizes those of flagged that no exit finalized before, and is paid for each of
\* these at most as often as it may claim it.
Finalize(exitId, flagged, claims) ==
    /\ finalizedBy' = [o \in OutputIds |->
            IF o \in flagged /\ ~Finalized(o) THEN exitId ELSE finalizedBy[o]]
    /\ paidTo' = [o \in OutputIds |-> paidTo'[o]]
    /\ \A o \in OutputIds :
            \E times \in 0..(IF o \in flagged /\ ~Finalized(o) THEN claims[o] ELSE 0) :
                paidTo'[o] = paidTo[o] \o [n \in 1..times |-> exitId]

AllInputs(t) == {o \in OutputIds : InputsOf[t][o] > 0}
OnceEach == [o \in OutputIds |-> 1]

\* The standard exit of an output.
ExitOutput(o) == Finalize(StandardExitOf[o], {o}, OnceEach)

\* The in-flight exit of t gives inputs back.
ExitInputs(t) ==
    \E flagged \in SUBSET AllInputs(t) : Finalize(InFlightExitOf[t], flagged, InputsOf[t])

\* The in-flight exit of t hands outputs out: only if no other exit has an input of t, and
\* then none will get one.
ExitOutputs(t) ==
    /\ \A i \in AllInputs(t) : finalizedBy[i] \in {NoExit, InFlightExitOf[t]}
    /\ \E flagged \in SUBSET OutputsOf[t] :
            Finalize(InFlightExitOf[t], flagged \cup AllInputs(t),
                     [o \in OutputIds |-> IF o \in OutputsOf[t] THEN 1 ELSE 0])

Next ==
    \/ \E o \in OutputIds : ExitOutput(o)
    \/ \E t \in Txs : ExitInputs(t) \/ ExitOutputs(t)

Spec == Init /\ [][Next]_payoutVars
====
