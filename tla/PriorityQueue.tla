---- MODULE PriorityQueue ----
(***************************************************************************)
(* The heap that a queue of exits is kept in (PriorityQueue.sol).  The     *)
(* array has a 0 in front, which no element gets ahead of.  One step is    *)
(* one turn of a loop; the value on its way is written when the loop ends, *)
(* so that until then its place is a hole with an old value in it.         *)
(***************************************************************************)
EXTENDS Integers, FiniteSets

CONSTANTS
    Elements,
    MaxSize             \* bound of the model, not of the code

ASSUME ElementsAssumption == Elements \subseteq Nat /\ MaxSize \in Nat

VARIABLES
    heapList, currentSize,
    percolating,        \* "no", "up" or "down"
    hole, newVal,       \* i and newVal of the loop
    retVal

heapVars == <<heapList, currentSize, percolating, hole, newVal, retVal>>

HeapInit ==
    /\ heapList = [k \in {0} |-> 0]
    /\ currentSize = 0
    /\ percolating = "no" /\ hole = 0 /\ newVal = 0
    /\ retVal = 0

\* Assignments to one element, a new last one included.
Put(list, k, value) == [m \in DOMAIN list \cup {k} |-> IF m = k THEN value ELSE list[m]]

Insert(element) ==
    /\ percolating = "no"
    /\ currentSize < MaxSize            \* bound
    /\ currentSize' = currentSize + 1
    /\ heapList' = Put(heapList, currentSize', element)
    /\ percolating' = "up" /\ hole' = currentSize' /\ newVal' = element
    /\ UNCHANGED retVal

\* A mutant: the parent as in an array that starts with the first element.
ParentFromZero(k) == IF k = 0 THEN 0 ELSE (k - 1) \div 2
Parent(k) == k \div 2

PercUp ==
    /\ percolating = "up" /\ newVal < heapList[Parent(hole)]
    /\ heapList' = Put(heapList, hole, heapList[Parent(hole)])
    /\ hole' = Parent(hole)
    /\ UNCHANGED <<currentSize, percolating, newVal, retVal>>

PercUpEnds ==
    /\ percolating = "up" /\ ~ (newVal < heapList[Parent(hole)])
    /\ heapList' = Put(heapList, hole, newVal)
    /\ percolating' = "no"
    /\ UNCHANGED <<currentSize, hole, newVal, retVal>>

\* The last element comes to the front, and leaves a 0 that is cut off when the loop has ended.
DelMin ==
    /\ percolating = "no" /\ currentSize > 0        \* "Queue is empty"
    /\ retVal' = heapList[1]
    /\ heapList' = Put(Put(heapList, 1, heapList[currentSize]), currentSize, 0)
    /\ currentSize' = currentSize - 1
    /\ percolating' = "down" /\ hole' = 1 /\ newVal' = heapList'[1]

\* A mutant: the right child even where there is none.
MinChildBothChildren(k) ==
    IF (2 * k) + 1 > currentSize + 1 \/ heapList[2 * k] < heapList[(2 * k) + 1] THEN 2 * k ELSE (2 * k) + 1

MinChild(k) ==
    IF (2 * k) + 1 > currentSize \/ heapList[2 * k] < heapList[(2 * k) + 1] THEN 2 * k ELSE (2 * k) + 1

GoesDown == MinChild(hole) <= currentSize /\ newVal > heapList[MinChild(hole)]

PercDown ==
    /\ percolating = "down" /\ GoesDown
    /\ heapList' = Put(heapList, hole, heapList[MinChild(hole)])
    /\ hole' = MinChild(hole)
    /\ UNCHANGED <<currentSize, percolating, newVal, retVal>>

PercDownEnds ==
    /\ percolating = "down" /\ ~ GoesDown
    /\ heapList' = [k \in 0 .. currentSize |-> IF k = hole THEN newVal ELSE heapList[k]]
    /\ percolating' = "no"
    /\ UNCHANGED <<currentSize, hole, newVal, retVal>>

HeapNext ==
    \/ \E element \in Elements : Insert(element)
    \/ DelMin
    \/ PercUp \/ PercUpEnds \/ PercDown \/ PercDownEnds

HeapSpec == HeapInit /\ [][HeapNext]_heapVars

----------------------------------------------------------------------------

Places == 1 .. currentSize

\* With the value on its way at its place.
Held(k) == IF percolating # "no" /\ k = hole THEN newVal ELSE heapList[k]

Contents == [e \in Elements |-> Cardinality({k \in Places : Held(k) = e})]

Bag == INSTANCE PriorityBag WITH bag <- Contents, out <- retVal

HeapTypeOK ==
    /\ currentSize \in Nat /\ hole \in Nat
    /\ percolating \in {"no", "up", "down"}
    /\ DOMAIN heapList = 0 .. (IF percolating = "down" THEN currentSize + 1 ELSE currentSize)
    /\ \A k \in DOMAIN heapList : heapList[k] \in Nat
    /\ {newVal, retVal} \subseteq Nat

\* What getMin shows between two calls is a smallest element of all that are in the heap,
\* after any mix of insertions and removals, equal elements among them.
MinFirst ==
    percolating = "no" => \A k \in Places : heapList[1] <= heapList[k]

\* Every insertion and removal is one of a bag: no element is lost, doubled or made up on the
\* way through the array, and each removal gives back a smallest one.
IsPriorityBag == Bag!Spec
====
