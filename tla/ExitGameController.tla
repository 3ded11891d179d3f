---- MODULE ExitGameController ----
(***************************************************************************)
(* PlasmaFramework's part of the exits: one priority queue per token, and  *)
(* the flags that say which exit finalized an output.                      *)
(*                                                                         *)
(* A priority is computed from (exitableAt, txPos, exitId), most           *)
(* significant first, so it names the exit and its place.  The contract    *)
(* keeps beside the queue a delegation, the exit game to call, for each    *)
(* priority: there is one exit game here, so a priority has a delegation   *)
(* exactly while it is in its queue.                                       *)
(***************************************************************************)
EXTENDS Funds

CONSTANT NoExit         \* outputsFinalizations holds 0: not finalized
VARIABLES
    exitsQueues,            \* for each token that has a queue, the priorities in it
    outputsFinalizations    \* [OutputIds -> exit id or NoExit]

controllerVars == <<exitsQueues, outputsFinalizations>>

\* The highest bit of an exit id tells the kinds apart; the rest is a hash of what exits, an
\* output or a whole transaction (index 0).
StandardExitId(o) == [kind |-> "standard", of |-> o]
InFlightExitId(t) == [kind |-> "inFlight", of |-> <<t, 0>>]
IsStandardExit(exitId) == exitId.kind = "standard"
ExitIds == {StandardExitId(o) : o \in OutputIds} \cup {InFlightExitId(t) : t \in Txs}

ASSUME NoExitAssumption == NoExit \notin ExitIds

ComputePriority(exitableAt, txPos, exitId) ==
    [exitableAt |-> exitableAt, txPos |-> txPos, exitId |-> exitId]
Priorities == [exitableAt : Nat, txPos : Nat, exitId : ExitIds]

\* The order of the queue.  Two exits of one kind that agree on the rest are ordered by their
\* hashes, which may order them either way.
Before(p, q) ==
    \/ p.exitableAt < q.exitableAt
    \/ p.exitableAt = q.exitableAt /\ p.txPos < q.txPos
    \/ /\ p.exitableAt = q.exitableAt
       /\ p.txPos = q.txPos
       /\ IsStandardExit(p.exitId) /\ ~IsStandardExit(q.exitId)

GetMin(queue) == {p \in queue : \A q \in queue : ~Before(q, p)}

HasExitQueue(token) == token \in DOMAIN exitsQueues

ControllerInit ==
    /\ exitsQueues = [k \in {} |-> {}]
    /\ outputsFinalizations = [o \in OutputIds |-> NoExit]

AddExitQueue(token) ==
    /\ ~HasExitQueue(token)
    /\ exitsQueues' = [k \in DOMAIN exitsQueues \cup {token} |->
            IF k = token THEN {} ELSE exitsQueues[k]]
    /\ UNCHANGED outputsFinalizations

Enqueue(token, exitableAt, txPos, exitId) ==
    LET priority == ComputePriority(exitableAt, txPos, exitId)
    IN  /\ HasExitQueue(token)
        /\ priority \notin exitsQueues[token]   \* "The same priority is already enqueued"
        /\ exitsQueues' = [exitsQueues EXCEPT ![token] = @ \cup {priority}]

\* The exit at the head of the queue, once it is exitable: the iteration of processExits takes
\* it out before it calls the exit game.
TakeHead(token, priority) ==
    /\ HasExitQueue(token)
    /\ priority \in GetMin(exitsQueues[token])
    /\ priority.exitableAt < now
    /\ exitsQueues' = [exitsQueues EXCEPT ![token] = @ \ {priority}]

IsOutputFinalized(o) == outputsFinalizations[o] # NoExit
IsAnyInputFinalizedByOtherExit(os, exitId) ==
    \E o \in os : outputsFinalizations[o] \notin {NoExit, exitId}

\* A mutant: the last exit to flag an output keeps it.
BatchFlagOutputsFinalizedAgain(os, exitId) ==
    outputsFinalizations' = [o \in OutputIds |-> IF o \in os THEN exitId ELSE outputsFinalizations[o]]

\* The first exit to flag an output keeps it.
BatchFlagOutputsFinalized(os, exitId) ==
    outputsFinalizations' = [o \in OutputIds |->
        IF o \in os /\ ~IsOutputFinalized(o) THEN exitId ELSE outputsFinalizations[o]]

ControllerTypeOK ==
    /\ DOMAIN exitsQueues \subseteq Tokens
    /\ \A k \in DOMAIN exitsQueues : exitsQueues[k] \subseteq Priorities
    /\ outputsFinalizations \in [OutputIds -> ExitIds \cup {NoExit}]
====
