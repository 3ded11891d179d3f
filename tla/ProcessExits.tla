---- MODULE ProcessExits ----
(***************************************************************************)
(* PlasmaFramework.processExits, which is not atomic: it takes an exit     *)
(* from the queue and lets the exit game pay it, and the receiver may call *)
(* back before it takes the next.  A payment that reverts takes the whole  *)
(* call back.  The mutex keeps callbacks out of everything that changes    *)
(* exits.                                                                  *)
(*                                                                         *)
(* Priorities are the time and the id here; the position that comes        *)
(* between them is in ExitPriority.  The heap is taken for the set it      *)
(* holds (PriorityQueue); no priority is in a queue twice.                 *)
(***************************************************************************)
EXTENDS ChainTime, FiniteSets, SequencesExt

CONSTANTS
    Queues,             \* the pairs of vault and token that have a queue
    QueuedIds,          \* exit ids, numbers above 0
    GameOf,             \* [QueuedIds -> exit games]: the one that enqueues and pays an exit
    Fickle,             \* the exits whose payment may revert
    MaxQueued, MaxBatch, ProcessTime        \* bounds of the model, not of the code

ASSUME QueuedAssumption == 
    /\ QueuedIds \subseteq Nat \ {0} /\ Fickle \subseteq QueuedIds /\ DOMAIN GameOf = QueuedIds
    /\ {MaxQueued, MaxBatch, ProcessTime} \subseteq Nat

VARIABLES
    exitsQueues,        \* [Queues -> priorities]
    delegations,        \* queue and priority -> exit game
    mutex,
    calls,              \* the calls of processExits that are not over, the innermost last
    refusing,           \* the exits whose payment reverts at present
    event               \* ProcessedExitsNum, with the call's arguments and exits, right after the call

exitVars == <<exitsQueues, delegations, mutex, calls, refusing, event>>
processVars == <<clock, exitVars>>

AnyExit == 0                \* topExitId 0: no check
NoEvent == [queue |-> "none"]

Before(p, q) == p.exitableAt < q.exitableAt \/ (p.exitableAt = q.exitableAt /\ p.exitId < q.exitId)
GetMin(queue) == CHOOSE p \in queue : \A q \in queue \ {p} : Before(p, q)

ProcessInit ==
    /\ clock = 0
    /\ exitsQueues = [k \in Queues |-> {}]
    /\ delegations = [e \in {} |-> {}]
    /\ mutex = FALSE /\ calls = <<>>
    /\ refusing = {}
    /\ event = NoEvent

ProcessTick ==
    /\ calls = <<>> /\ TimePasses(ProcessTime)
    /\ event' = NoEvent
    /\ UNCHANGED <<exitsQueues, delegations, mutex, calls, refusing>>

\* A token or a receiver changes its mind.
Refuse ==
    /\ calls = <<>>
    /\ refusing' \in (SUBSET Fickle) \ {refusing}
    /\ event' = NoEvent
    /\ UNCHANGED <<clock, exitsQueues, delegations, mutex, calls>>

\* Anyone may call now: between transactions, or called back by a payment.
Callable == calls # <<>> => Last(calls).pc = "paying"

\* A start of an exit or a piggyback, which hold the mutex until they are over.
EnqueueExit(k, exitableAt, exitId) ==
    LET priority == [exitableAt |-> exitableAt, exitId |-> exitId]
    IN  /\ Callable /\ ~ mutex                      \* "Reentrant call"
        /\ <<k, priority>> \notin DOMAIN delegations    \* "The same priority is already enqueued"
        /\ exitsQueues' = [exitsQueues EXCEPT ![k] = @ \cup {priority}]
        /\ delegations' = [e \in DOMAIN delegations \cup {<<k, priority>>} |->
                             IF e = <<k, priority>> THEN GameOf[exitId] ELSE delegations[e]]
        /\ event' = NoEvent
        /\ UNCHANGED <<clock, mutex, calls, refusing>>

Saved == [exitsQueues |-> exitsQueues, delegations |-> delegations, mutex |-> mutex]

Start(k, topExitId, maxExits) ==
    LET priority == GetMin(exitsQueues[k])
    IN  /\ exitsQueues[k] # {}                      \* "Exit queue is empty"
        /\ topExitId \in {AnyExit, priority.exitId}     \* "Top exit ID of the queue is different ..."
        /\ calls' = Append(calls,
             [queue |-> k, topExitId |-> topExitId, maxExits |-> maxExits, processed |-> <<>>,
              priority |-> priority, processor |-> delegations[<<k, priority>>], pc |-> "loop", saved |-> Saved])
        /\ mutex' = TRUE
        /\ UNCHANGED <<clock, exitsQueues, delegations, refusing, event>>

\* A mutant: without the mutex.
ProcessExitsReentrant(k, topExitId, maxExits) ==
    /\ Callable
    /\ Len(calls) < 2                               \* bound
    /\ Start(k, topExitId, maxExits)

ProcessExits(k, topExitId, maxExits) ==
    /\ Callable /\ ~ mutex                          \* "Reentrant call"
    /\ Start(k, topExitId, maxExits)

Call == Last(calls)
InLoop == calls # <<>> /\ Call.pc = "loop"
TakesNext == Len(Call.processed) < Call.maxExits /\ Call.priority.exitableAt < clock
Goes(call) == calls' = Append(Front(calls), call)

TakeHead ==
    /\ InLoop /\ TakesNext
    /\ delegations' = [e \in DOMAIN delegations \ {<<Call.queue, Call.priority>>} |-> delegations[e]]
    /\ exitsQueues' = [exitsQueues EXCEPT ![Call.queue] = @ \ {GetMin(@)}]
    /\ Goes([Call EXCEPT !.processed = Append(@, [priority |-> Call.priority, processor |-> Call.processor]),
                          !.pc = "paying"])
    /\ UNCHANGED <<clock, mutex, refusing, event>>

\* processor.processExit returns; the next head is looked at.
Pay ==
    /\ calls # <<>> /\ Call.pc = "paying" /\ Call.priority.exitId \notin refusing
    /\ LET queue == exitsQueues[Call.queue]
           next == GetMin(queue)
       IN  Goes(IF queue = {} THEN [Call EXCEPT !.pc = "end"]
                ELSE [Call EXCEPT !.priority = next, !.processor = delegations[<<Call.queue, next>>],
                                  !.pc = "loop"])
    /\ UNCHANGED <<clock, exitsQueues, delegations, mutex, refusing, event>>

\* A mutant: as if the exit had been paid.
RevertSkip ==
    /\ calls # <<>> /\ Call.pc = "paying" /\ Call.priority.exitId \in refusing
    /\ Goes([Call EXCEPT !.pc = "end"])
    /\ UNCHANGED <<clock, exitsQueues, delegations, mutex, refusing, event>>

\* It reverts, and processExits with it.
Revert ==
    /\ calls # <<>> /\ Call.pc = "paying" /\ Call.priority.exitId \in refusing
    /\ exitsQueues' = Call.saved.exitsQueues
    /\ delegations' = Call.saved.delegations
    /\ mutex' = Call.saved.mutex
    /\ calls' = Front(calls)
    /\ UNCHANGED <<clock, refusing, event>>

Return ==
    /\ calls # <<>> /\ (Call.pc = "end" \/ (Call.pc = "loop" /\ ~ TakesNext))
    /\ mutex' = FALSE
    /\ calls' = Front(calls)
    /\ event' = [queue |-> Call.queue, topExitId |-> Call.topExitId, maxExits |-> Call.maxExits,
                 processed |-> Call.processed]
    /\ UNCHANGED <<clock, exitsQueues, delegations, refusing>>

ProcessNext ==
    \/ ProcessTick \/ Refuse
    \/ \E k \in Queues, exitId \in QueuedIds, periods \in {1, 2} :
         /\ Cardinality(DOMAIN delegations) < MaxQueued      \* bound
         /\ EnqueueExit(k, clock + (periods * MinExitPeriod), exitId)
    \/ \E k \in Queues, topExitId \in QueuedIds \cup {AnyExit}, maxExits \in 1 .. MaxBatch :
         ProcessExits(k, topExitId, maxExits)
    \/ TakeHead \/ Pay \/ Revert \/ Return

ProcessSpec == ProcessInit /\ [][ProcessNext]_processVars

----------------------------------------------------------------------------

\* From outside, while a call goes on nothing has happened yet.
Pending ==
    LET games == IF calls = <<>> THEN delegations ELSE calls[1].saved.delegations
    IN  {[queue |-> e[1], priority |-> e[2], processor |-> games[e]] : e \in DOMAIN games}

Batches == INSTANCE ExitBatches WITH
    Entries <- [queue : Queues, processor : {GameOf[i] : i \in QueuedIds},
                priority : [exitableAt : 0 .. ProcessTime + (2 * MinExitPeriod), exitId : QueuedIds]],
    None <- NoEvent,
    pending <- Pending

\* Every call of processExits takes out the first exitable exits of the queue at one moment, no
\* more than asked for, in order, each by its own exit game, and the first one is the one
\* named; or it takes none, if one of them is refused.  Callbacks make no difference to it.
IsBatched == Batches!Spec
====
