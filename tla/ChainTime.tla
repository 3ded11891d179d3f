---- MODULE ChainTime ----
(***************************************************************************)
(* The clock of the root chain, as the contracts read it: block.timestamp, *)
(* in a unit that fits the periods of the component.                       *)
(***************************************************************************)
EXTENDS Integers

CONSTANT MinExitPeriod

ASSUME PeriodAssumption == MinExitPeriod \in Nat \ {0}

VARIABLE clock

\* Up to a bound of the model.
TimePasses(bound) == clock < bound /\ clock' = clock + 1
====
