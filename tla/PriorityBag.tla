---- MODULE PriorityBag ----
(***************************************************************************)
(* What a priority queue promises: it takes any element, equal ones as     *)
(* often as they come, and gives back the smallest one it has.             *)
(***************************************************************************)
EXTENDS Integers

CONSTANT Elements
VARIABLES
    bag,        \* [Elements -> Nat]: how often each is there
    out         \* the element given back last; before the first one, 0

Init == bag = [e \in Elements |-> 0] /\ out = 0

Insert(element) ==
    /\ bag' = [bag EXCEPT ![element] = @ + 1]
    /\ UNCHANGED out

There == {e \in Elements : bag[e] > 0}

DelMin ==
    \E least \in There :
        /\ \A other \in There : least <= other
        /\ bag' = [bag EXCEPT ![least] = @ - 1]
        /\ out' = least

Next == (\E element \in Elements : Insert(element)) \/ DelMin

Spec == Init /\ [][Next]_<<bag, out>>
====
