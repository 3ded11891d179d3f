---- MODULE BlockController ----
(***************************************************************************)
(* The numbering of the Plasma blocks.  The operator's block takes the     *)
(* next multiple of the interval; the blocks that the vaults submit for    *)
(* deposits go into the numbers between the last one and the next, as long *)
(* as there are any left.                                                  *)
(***************************************************************************)
EXTENDS Integers

CONSTANTS
    ChildBlockInterval,
    MaxChildBlocks, MaxTime     \* bounds of the model, not of the code

\* The deployment passes the interval and no code checks it; with 0 every block is block 0.
ASSUME IntervalAssumption ==
    /\ ChildBlockInterval \in Nat \ {0}
    /\ MaxChildBlocks \in Nat /\ MaxTime \in Nat

VARIABLES
    now,                \* block.timestamp
    nextChildBlock,
    nextDeposit,
    blocks              \* block number -> [kind, timestamp], for the blocks submitted

vars == <<now, nextChildBlock, nextDeposit, blocks>>

Init ==
    /\ now = 1
    /\ nextChildBlock = ChildBlockInterval
    /\ nextDeposit = 1
    /\ blocks = [n \in {} |-> [kind |-> "child", timestamp |-> 0]]

NextDepositBlock == nextChildBlock - ChildBlockInterval + nextDeposit

\* blocks[n] = Block(root, block.timestamp), over whatever was there.
Store(n, kind) ==
    blocks' = [m \in DOMAIN blocks \cup {n} |->
                IF m = n THEN [kind |-> kind, timestamp |-> now] ELSE blocks[m]]

\* A mutant: the next block is announced before this one is stored.
SubmitBlockAtNext ==
    /\ nextChildBlock <= MaxChildBlocks * ChildBlockInterval
    /\ nextChildBlock' = nextChildBlock + ChildBlockInterval
    /\ Store(nextChildBlock', "child")
    /\ nextDeposit' = 1
    /\ UNCHANGED now

SubmitBlock ==
    /\ nextChildBlock <= MaxChildBlocks * ChildBlockInterval     \* bound
    /\ Store(nextChildBlock, "child")
    /\ nextChildBlock' = nextChildBlock + ChildBlockInterval
    /\ nextDeposit' = 1
    /\ UNCHANGED now

\* A mutant: the deposit is not counted.
SubmitDepositBlockNotCounted ==
    /\ nextDeposit < ChildBlockInterval
    /\ Store(NextDepositBlock, "deposit")
    /\ UNCHANGED <<now, nextChildBlock, nextDeposit>>

\* A mutant: one deposit too many between two child blocks.
SubmitDepositBlockOneMore ==
    /\ nextDeposit <= ChildBlockInterval
    /\ Store(NextDepositBlock, "deposit")
    /\ nextDeposit' = nextDeposit + 1
    /\ UNCHANGED <<now, nextChildBlock>>

SubmitDepositBlock ==
    /\ nextDeposit < ChildBlockInterval
    /\ Store(NextDepositBlock, "deposit")
    /\ nextDeposit' = nextDeposit + 1
    /\ UNCHANGED <<now, nextChildBlock>>

Tick ==
    /\ now < MaxTime        \* bound
    /\ now' = now + 1
    /\ UNCHANGED <<nextChildBlock, nextDeposit, blocks>>

Next == SubmitBlock \/ SubmitDepositBlock \/ Tick

Spec == Init /\ [][Next]_vars

IsDeposit(n) == n % ChildBlockInterval # 0

----------------------------------------------------------------------------

TypeOK ==
    /\ now \in Nat
    /\ nextChildBlock \in Nat
    /\ nextDeposit \in Nat
    /\ blocks \in [DOMAIN blocks -> [kind : {"child", "deposit"}, timestamp : Nat]]
    /\ DOMAIN blocks \subseteq Nat

\* A block is never overwritten, and each new one has a number above all the others: numbers
\* order the blocks as they were submitted.  The exit games compare positions as ages.
AppendOnly ==
    [][ /\ DOMAIN blocks \subseteq DOMAIN blocks'
        /\ \A m \in DOMAIN blocks : blocks'[m] = blocks[m]
        /\ \A m \in DOMAIN blocks, n \in DOMAIN blocks' \ DOMAIN blocks : m < n ]_vars

\* A block with a higher number is not older: its exits are not exitable before those of a
\* block with a lower number that were started at the same time.
TimestampsOrdered ==
    \A m, n \in DOMAIN blocks : m < n => blocks[m].timestamp <= blocks[n].timestamp

\* isDeposit, which only looks at the number, tells the blocks of the vaults from the
\* operator's: a deposit's exit waits one period instead of two.
DepositsRecognized ==
    \A n \in DOMAIN blocks : IsDeposit(n) <=> blocks[n].kind = "deposit"
====
