---- MODULE Promises ----
(***************************************************************************)
(* What the Quasar promises for an output: once reserved, its amount is    *)
(* paid once, or not at all after the time to claim it went by or the      *)
(* claim was refuted.  A claim that stands is never given up.              *)
(***************************************************************************)
EXTENDS Integers

CONSTANTS Outputs, Amount
VARIABLES promise, paid

Init ==
    /\ promise = [o \in Outputs |-> "none"]
    /\ paid = [o \in Outputs |-> 0]

Becomes(o, state) == promise' = [promise EXCEPT ![o] = state]

Reserve(o) == promise[o] = "none" /\ Becomes(o, "reserved") /\ UNCHANGED paid
Lapse(o) == promise[o] = "reserved" /\ Becomes(o, "none") /\ UNCHANGED paid
Claim(o) == promise[o] = "reserved" /\ Becomes(o, "claimed") /\ UNCHANGED paid
Refute(o) == promise[o] = "claimed" /\ Becomes(o, "closed") /\ UNCHANGED paid
Keep(o) ==
    /\ promise[o] \in {"reserved", "claimed"} /\ Becomes(o, "closed")
    /\ paid' = [paid EXCEPT ![o] = @ + Amount[o]]

Next == \E o \in Outputs : Reserve(o) \/ Lapse(o) \/ Claim(o) \/ Refute(o) \/ Keep(o)

Spec == Init /\ [][Next]_<<promise, paid>>
====
