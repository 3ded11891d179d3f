---- MODULE ExitBatches ----
(***************************************************************************)
(* What processExits promises to the one who calls it: the exits that      *)
(* leave are the first ones of the queue that are exitable, as many as     *)
(* were asked for, in their order and each through the exit game that      *)
(* enqueued it; or, when one of them cannot be paid, none.                 *)
(***************************************************************************)
EXTENDS Integers, FiniteSets, Sequences

CONSTANTS
    Entries,            \* [queue, priority, processor]
    Before(_, _),       \* the order of priorities
    AnyExit, None

VARIABLES
    clock,
    pending,            \* the entries in the queues
    refusing,           \* the ids of exits that cannot be paid at present
    event               \* ProcessedExitsNum, with the call's arguments and exits, right after the call

Init == clock = 0 /\ pending = {} /\ refusing = {} /\ event = None

Time == clock' = clock + 1 /\ event' = None /\ UNCHANGED <<pending, refusing>>

Refusing == refusing' # refusing /\ event' = None /\ UNCHANGED <<clock, pending>>

\* An exit is exitable later than now; a priority is in a queue once.
Add(entry) ==
    /\ entry.priority.exitableAt > clock
    /\ \A other \in pending : other.queue = entry.queue => other.priority # entry.priority
    /\ pending' = pending \cup {entry}
    /\ event' = None
    /\ UNCHANGED <<clock, refusing>>

Ahead(entry, entries) == {other \in entries : Before(other.priority, entry.priority)}

\* A sequence of the priorities and exit games of a batch, first things first.
InOrder(processed, batch) ==
    LET served == {[priority |-> entry.priority, processor |-> entry.processor] : entry \in batch}
    IN  /\ processed \in Seq(served)
        /\ served = {processed[i] : i \in DOMAIN processed}
        /\ \A i, j \in DOMAIN processed : i < j => Before(processed[i].priority, processed[j].priority)

Process(queue, topExitId, maxExits, processed) ==
    LET entries == {entry \in pending : entry.queue = queue}
        batch == {entry \in entries : /\ entry.priority.exitableAt < clock
                                      /\ Cardinality(Ahead(entry, entries)) < maxExits}
    IN  /\ \E head \in entries : Ahead(head, entries) = {} /\ topExitId \in {AnyExit, head.priority.exitId}
        /\ \A entry \in batch : entry.priority.exitId \notin refusing
        /\ InOrder(processed, batch)
        /\ pending' = pending \ batch
        /\ event' = [queue |-> queue, topExitId |-> topExitId, maxExits |-> maxExits, processed |-> processed]
        /\ UNCHANGED <<clock, refusing>>

Call == event' # None /\ Process(event'.queue, event'.topExitId, event'.maxExits, event'.processed)

Next == Time \/ Refusing \/ (\E entry \in Entries : Add(entry)) \/ Call

Spec == Init /\ [][Next]_<<clock, pending, refusing, event>>
====
