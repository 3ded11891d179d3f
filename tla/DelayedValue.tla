---- MODULE DelayedValue ----
(***************************************************************************)
(* What is promised of a value that the maintainer may change: who reads   *)
(* it now knows it for the whole delay, unless a change is announced, and  *)
(* then knows when it comes.  A later announcement takes the place of one  *)
(* that has not come.  A value that is not there yet can be set at once.   *)
(***************************************************************************)
EXTENDS Integers

CONSTANTS Initial, Values, Delay, Unset
VARIABLES
    clock,
    value,
    next, due           \* the change that is announced, and its time; Unset and 0 if there is none

Init == clock = 0 /\ value = Initial /\ next = Unset /\ due = 0

Tick ==
    /\ clock' = clock + 1
    /\ IF next # Unset /\ due = clock'
       THEN value' = next /\ next' = Unset /\ due' = 0
       ELSE UNCHANGED <<value, next, due>>

Set(new) ==
    /\ value = Unset
    /\ value' = new
    /\ UNCHANGED <<clock, next, due>>

Announce(new) ==
    /\ value # Unset
    /\ next' = new /\ due' = clock + Delay
    /\ UNCHANGED <<clock, value>>

Next == Tick \/ \E new \in Values : Set(new) \/ Announce(new)

Spec == Init /\ [][Next]_<<clock, value, next, due>>
====
