---- MODULE Framework_proofs ----
(***************************************************************************)
(* What holds of the parts of the framework that the exit games are built  *)
(* on, each on its own, for every interval, width, delay, bound and        *)
(* sequence of calls: the numbers of the Plasma blocks order them by       *)
(* submission; the words that order a queue of exits order it as the exits *)
(* do, the heap keeps the least first and loses none, and processing the   *)
(* queue takes its exits out in whole batches, whatever its callbacks do;  *)
(* and what the operator may change changes as is promised, bonds and      *)
(* deposit verifiers with notice, bonds by bounded steps, contracts one to *)
(* one and in quarantine.                                                  *)
(***************************************************************************)
EXTENDS BlockController, ExitPriority, PriorityQueue, ProcessExits, BondSize, DepositVerifier, Registries,
    FiniteSetTheorems, WellFoundedInduction, TLAPS

----------------------------------------------------------------------------
(* The numbers of the blocks. *)

\* Every block submitted so far is below the number of the next deposit, and that is at most
\* the number of the next child block.
NumbersBelow ==
    /\ ChildBlockInterval <= nextChildBlock
    /\ 1 <= nextDeposit /\ nextDeposit <= ChildBlockInterval
    /\ \A n \in DOMAIN blocks : n < NextDepositBlock

\* The inductive invariant: no block is from the future either.
IInv ==
    /\ TypeOK
    /\ NumbersBelow
    /\ \A n \in DOMAIN blocks : blocks[n].timestamp <= now
    /\ TimestampsOrdered

LEMMA InitIInv == Init => IInv
  BY IntervalAssumption DEF Init, IInv, TypeOK, NumbersBelow, NextDepositBlock, TimestampsOrdered

\* Storing a block above all others keeps the timestamps in order.
LEMMA StoreLemma ==
    ASSUME IInv, NEW n \in Nat, NEW kind \in {"child", "deposit"}, Store(n, kind), now' = now,
           \A m \in DOMAIN blocks : m < n
    PROVE  /\ blocks' \in [DOMAIN blocks' -> [kind : {"child", "deposit"}, timestamp : Nat]]
           /\ DOMAIN blocks' = DOMAIN blocks \cup {n}
           /\ \A m \in DOMAIN blocks' : blocks'[m].timestamp <= now'
           /\ TimestampsOrdered'
           /\ \A m \in DOMAIN blocks : blocks'[m] = blocks[m]
  <1>1. DOMAIN blocks' = DOMAIN blocks \cup {n}
    BY DEF Store
  <1>2. blocks'[n] = [kind |-> kind, timestamp |-> now]
    BY DEF Store
  <1>3. \A m \in DOMAIN blocks : blocks'[m] = blocks[m]
    BY DEF Store
  <1>4. \A m \in DOMAIN blocks' : blocks'[m] \in [kind : {"child", "deposit"}, timestamp : Nat]
    BY <1>1, <1>2, <1>3 DEF IInv, TypeOK
  <1>5. blocks' = [m \in DOMAIN blocks' |-> blocks'[m]]
    BY DEF Store
  <1>6. \A m \in DOMAIN blocks' : blocks'[m].timestamp <= now'
    BY <1>1, <1>2, <1>3 DEF IInv, TypeOK
  <1>7. TimestampsOrdered'
    <2> SUFFICES ASSUME NEW l \in DOMAIN blocks', NEW m \in DOMAIN blocks', l < m
                 PROVE  blocks'[l].timestamp <= blocks'[m].timestamp
      BY DEF TimestampsOrdered
    <2>1. CASE m = n
      BY <2>1, <1>2, <1>6
    <2>2. CASE m \in DOMAIN blocks
      <3>1. l \in DOMAIN blocks
        BY <1>1, <2>2 DEF IInv, TypeOK
      <3> QED BY <3>1, <2>2, <1>3 DEF IInv, TimestampsOrdered
    <2> QED BY <1>1, <2>1, <2>2
  <1> QED BY <1>1, <1>3, <1>4, <1>5, <1>6, <1>7

LEMMA NextIInv == IInv /\ [Next]_vars => IInv'
  <1> SUFFICES ASSUME IInv, [Next]_vars PROVE IInv'
    OBVIOUS
  <1>1. CASE SubmitBlock
    <2>1. nextChildBlock \in Nat /\ \A m \in DOMAIN blocks : m < nextChildBlock
      BY IntervalAssumption DEF IInv, TypeOK, NumbersBelow, NextDepositBlock
    <2>2. Store(nextChildBlock, "child") /\ now' = now
      BY <1>1 DEF SubmitBlock
    <2>3. /\ blocks' \in [DOMAIN blocks' -> [kind : {"child", "deposit"}, timestamp : Nat]]
          /\ DOMAIN blocks' = DOMAIN blocks \cup {nextChildBlock}
          /\ \A m \in DOMAIN blocks' : blocks'[m].timestamp <= now'
          /\ TimestampsOrdered'
      BY <2>1, <2>2, StoreLemma
    <2>4. nextChildBlock' = nextChildBlock + ChildBlockInterval /\ nextDeposit' = 1
      BY <1>1 DEF SubmitBlock
    <2>5. TypeOK'
      BY <2>2, <2>3, <2>4, IntervalAssumption DEF IInv, TypeOK
    <2>6. NumbersBelow'
      BY <2>1, <2>3, <2>4, IntervalAssumption DEF IInv, TypeOK, NumbersBelow, NextDepositBlock
    <2> QED BY <2>3, <2>5, <2>6 DEF IInv
  <1>2. CASE SubmitDepositBlock
    <2>1. NextDepositBlock \in Nat /\ \A m \in DOMAIN blocks : m < NextDepositBlock
      BY IntervalAssumption DEF IInv, TypeOK, NumbersBelow, NextDepositBlock
    <2>2. Store(NextDepositBlock, "deposit") /\ now' = now
      BY <1>2 DEF SubmitDepositBlock
    <2>3. /\ blocks' \in [DOMAIN blocks' -> [kind : {"child", "deposit"}, timestamp : Nat]]
          /\ DOMAIN blocks' = DOMAIN blocks \cup {NextDepositBlock}
          /\ \A m \in DOMAIN blocks' : blocks'[m].timestamp <= now'
          /\ TimestampsOrdered'
      BY <2>1, <2>2, StoreLemma
    <2>4. /\ nextDeposit < ChildBlockInterval
          /\ nextChildBlock' = nextChildBlock /\ nextDeposit' = nextDeposit + 1
      BY <1>2 DEF SubmitDepositBlock
    <2>5. TypeOK'
      BY <2>1, <2>2, <2>3, <2>4 DEF IInv, TypeOK
    <2>6. NumbersBelow'
      BY <2>1, <2>3, <2>4, IntervalAssumption DEF IInv, TypeOK, NumbersBelow, NextDepositBlock
    <2> QED BY <2>3, <2>5, <2>6 DEF IInv
  <1>3. CASE Tick
    BY <1>3 DEF Tick, IInv, TypeOK, NumbersBelow, NextDepositBlock, TimestampsOrdered
  <1>4. CASE UNCHANGED vars
    BY <1>4 DEF vars, IInv, TypeOK, NumbersBelow, NextDepositBlock, TimestampsOrdered
  <1> QED BY <1>1, <1>2, <1>3, <1>4 DEF Next

\* The inductive invariant holds throughout, for every interval.
THEOREM Invariance == Spec => []IInv
  BY InitIInv, NextIInv, PTL DEF Spec

\* The timestamps of the blocks follow their numbers: among exits of blocks, a higher
\* position never means an older block.
THEOREM TimestampsAreOrdered == Spec => []TimestampsOrdered
  BY Invariance, PTL DEF IInv

LEMMA StepAppends ==
    ASSUME IInv, [Next]_vars
    PROVE  \/ UNCHANGED vars
           \/ /\ DOMAIN blocks \subseteq DOMAIN blocks'
              /\ \A m \in DOMAIN blocks : blocks'[m] = blocks[m]
              /\ \A m \in DOMAIN blocks, n \in DOMAIN blocks' \ DOMAIN blocks : m < n
  <1> USE IntervalAssumption DEF IInv, TypeOK, NumbersBelow, NextDepositBlock
  <1>1. CASE SubmitBlock
    <2>1. \A m \in DOMAIN blocks : m < nextChildBlock
      OBVIOUS
    <2> QED BY <1>1, <2>1 DEF SubmitBlock, Store
  <1>2. CASE SubmitDepositBlock
    BY <1>2 DEF SubmitDepositBlock, Store
  <1>3. CASE Tick
    BY <1>3 DEF Tick
  <1> QED BY <1>1, <1>2, <1>3 DEF Next

\* No block is overwritten, and blocks are numbered in the order of their submission, for
\* every interval: what the exit games take for the age of a transaction is its age.
THEOREM BlocksAreAppended == Spec => AppendOnly
  <1>1. IInv /\ [Next]_vars =>
          [ /\ DOMAIN blocks \subseteq DOMAIN blocks'
            /\ \A m \in DOMAIN blocks : blocks'[m] = blocks[m]
            /\ \A m \in DOMAIN blocks, n \in DOMAIN blocks' \ DOMAIN blocks : m < n ]_vars
    BY StepAppends
  <1> QED BY <1>1, Invariance, PTL DEF Spec, AppendOnly

----------------------------------------------------------------------------
(* What a number says about its block. *)

LEMMA RemainderLemma ==
    ASSUME NEW k \in Nat \ {0}, NEW q \in Int, NEW r \in 0..(k - 1), k * q + r \in Nat
    PROVE  (k * q + r) % k = r
  OBVIOUS

\* The number of the next child block is a multiple of the interval: the other half of the
\* invariant behind isDeposit.
KindsInv ==
    /\ \E c \in Int : nextChildBlock = ChildBlockInterval * c
    /\ DepositsRecognized

LEMMA InitKinds == Init => KindsInv
  <1> SUFFICES ASSUME Init PROVE KindsInv
    OBVIOUS
  <1>1. nextChildBlock = ChildBlockInterval * 1
    BY IntervalAssumption DEF Init
  <1> QED BY <1>1 DEF Init, KindsInv, DepositsRecognized

\* A block that is stored under a number of its kind is recognized, and changes no other.
LEMMA StoreKinds ==
    ASSUME DepositsRecognized, NEW n, NEW kind, Store(n, kind), IsDeposit(n) <=> kind = "deposit"
    PROVE  DepositsRecognized'
  <1>1. /\ DOMAIN blocks' = DOMAIN blocks \cup {n}
        /\ blocks'[n].kind = kind
        /\ \A m \in DOMAIN blocks \ {n} : blocks'[m] = blocks[m]
    BY DEF Store
  <1>2. \A m \in DOMAIN blocks' : IsDeposit(m) <=> blocks'[m].kind = "deposit"
    BY <1>1 DEF DepositsRecognized
  <1> QED BY <1>2 DEF DepositsRecognized, IsDeposit

LEMMA NextKinds ==
    ASSUME IInv, KindsInv, [Next]_vars
    PROVE  KindsInv'
  <1>1. PICK c \in Int : nextChildBlock = ChildBlockInterval * c
    BY DEF KindsInv
  <1>2. nextChildBlock \in Nat /\ nextDeposit \in Nat /\ 1 <= nextDeposit
    BY DEF IInv, TypeOK, NumbersBelow
  <1>3. CASE SubmitBlock
    <2>1. ~IsDeposit(nextChildBlock)
      <3>1. (ChildBlockInterval * c + 0) % ChildBlockInterval = 0
        BY <1>1, <1>2, IntervalAssumption, RemainderLemma
      <3> QED BY <3>1, <1>1, <1>2 DEF IsDeposit
    <2>2. DepositsRecognized'
      BY <1>3, <2>1, StoreKinds DEF SubmitBlock, KindsInv
    <2>3. nextChildBlock' = ChildBlockInterval * (c + 1)
      BY <1>1, <1>3, IntervalAssumption DEF SubmitBlock
    <2> QED BY <2>2, <2>3 DEF KindsInv
  <1>4. CASE SubmitDepositBlock
    <2>1. NextDepositBlock = ChildBlockInterval * (c - 1) + nextDeposit
      BY <1>1, <1>2, IntervalAssumption DEF NextDepositBlock
    <2>2. NextDepositBlock \in Nat
      BY <1>2, IntervalAssumption DEF IInv, NumbersBelow, NextDepositBlock
    <2>3. nextDeposit \in 1..(ChildBlockInterval - 1)
      BY <1>2, <1>4, IntervalAssumption DEF SubmitDepositBlock
    <2>4. IsDeposit(NextDepositBlock)
      <3>1. NextDepositBlock % ChildBlockInterval = nextDeposit
        BY <2>1, <2>2, <2>3, IntervalAssumption, RemainderLemma
      <3> QED BY <3>1, <2>3 DEF IsDeposit
    <2>5. DepositsRecognized'
      BY <1>4, <2>4, StoreKinds DEF SubmitDepositBlock, KindsInv
    <2> QED BY <1>1, <1>4, <2>5 DEF SubmitDepositBlock, KindsInv
  <1>5. CASE Tick \/ UNCHANGED vars
    BY <1>5 DEF Tick, vars, KindsInv, DepositsRecognized, IsDeposit
  <1> QED BY <1>3, <1>4, <1>5 DEF Next

\* isDeposit is right about every block, for every interval: the exits that wait one period
\* are those of the vaults' blocks, and the operator cannot submit one.
THEOREM DepositsAreRecognized == Spec => []DepositsRecognized
  <1>1. IInv /\ KindsInv /\ [Next]_vars => KindsInv'
    BY NextKinds
  <1>2. KindsInv => DepositsRecognized
    BY DEF KindsInv
  <1> QED BY <1>1, <1>2, InitKinds, Invariance, PTL DEF Spec

----------------------------------------------------------------------------
(* The priority words. *)

\* Two numbers in one: a high one and one below size.

LEMMA PackedOrder ==
    ASSUME NEW size \in Nat \ {0}, NEW a \in Nat, NEW b \in Nat, NEW x \in 0 .. size - 1, NEW y \in 0 .. size - 1
    PROVE  (a * size) + x < (b * size) + y <=> (a < b \/ (a = b /\ x < y))
  <1>1. CASE a < b
    <2>1. (a + 1) * size <= b * size
      BY <1>1
    <2>2. (a + 1) * size = (a * size) + size
      OBVIOUS
    <2>3. a * size \in Nat /\ b * size \in Nat
      OBVIOUS
    <2> QED BY <1>1, <2>1, <2>2, <2>3
  <1>2. CASE a = b
    <2>1. a * size \in Nat
      OBVIOUS
    <2> QED BY <1>2, <2>1
  <1>3. CASE b < a
    <2>1. (b + 1) * size <= a * size
      BY <1>3
    <2>2. (b + 1) * size = (b * size) + size
      OBVIOUS
    <2>3. a * size \in Nat /\ b * size \in Nat
      OBVIOUS
    <2> QED BY <1>3, <2>1, <2>2, <2>3
  <1> QED BY <1>1, <1>2, <1>3

LEMMA PackedEqual ==
    ASSUME NEW size \in Nat \ {0}, NEW a \in Nat, NEW b \in Nat, NEW x \in 0 .. size - 1, NEW y \in 0 .. size - 1
    PROVE  (a * size) + x = (b * size) + y <=> (a = b /\ x = y)
  <1>1. (a * size) + x < (b * size) + y <=> (a < b \/ (a = b /\ x < y))
    BY PackedOrder
  <1>2. (b * size) + y < (a * size) + x <=> (b < a \/ (b = a /\ y < x))
    BY PackedOrder
  <1>3. a * size \in Nat /\ b * size \in Nat
    OBVIOUS
  <1> QED BY <1>1, <1>2, <1>3

LEMMA Unpacked ==
    ASSUME NEW size \in Nat \ {0}, NEW a \in Nat, NEW x \in 0 .. size - 1
    PROVE  ((a * size) + x) \div size = a /\ ((a * size) + x) % size = x
  OBVIOUS

LEMMA PackedBound ==
    ASSUME NEW size \in Nat \ {0}, NEW above \in Nat \ {0}, NEW a \in 0 .. above - 1, NEW x \in 0 .. size - 1
    PROVE  (a * size) + x \in 0 .. (above * size) - 1
  <1>1. (a + 1) * size <= above * size /\ (a + 1) * size = (a * size) + size
    OBVIOUS
  <1>2. a * size \in Nat /\ above * size \in Nat
    OBVIOUS
  <1> QED BY <1>1, <1>2

----------------------------------------------------------------------------
\* Positions.

TxsPerBlock == BLKNUM_OFFSET \div TXINDEX_OFFSET
PosOf(p) == (p.blknum * TxsPerBlock) + p.txindex

LEMMA Offsets ==
    /\ TxsPerBlock \in Nat \ {0} /\ BLKNUM_OFFSET = TxsPerBlock * TXINDEX_OFFSET
    /\ TxIndexSize <= TxsPerBlock
  BY OffsetAssumption DEF TxsPerBlock

\* The position fits its field, up to the last block and leaf that PosLib takes.
LEMMA PositionFits ==
    ASSUME NEW p \in UtxoPositions
    PROVE  PosOf(p) \in 0 .. TxPosSize - 1 /\ TxPosition(IdOf(p)) = PosOf(p)
  <1>1. TXINDEX_OFFSET \in Nat \ {0} /\ TxIndexSize \in Nat \ {0} /\ TxPosSize \in Nat \ {0} /\ TxIndexSize <= TxPosSize
    BY OffsetAssumption
  <1>2. MAX_BLOCK_NUM = (TxPosSize - TxIndexSize) \div TxsPerBlock
    <2>1. (TxPosSize - 1) - (TxIndexSize - 1) = TxPosSize - TxIndexSize
      BY <1>1
    <2> QED BY <2>1 DEF MAX_BLOCK_NUM, MAX_TX_INDEX, TxsPerBlock
  <1>3. MAX_BLOCK_NUM \in Nat /\ MAX_BLOCK_NUM * TxsPerBlock <= TxPosSize - TxIndexSize
    BY <1>1, <1>2, Offsets
  <1>4. /\ p.blknum \in Nat /\ p.blknum <= MAX_BLOCK_NUM
        /\ p.txindex \in Nat /\ p.txindex <= TxIndexSize - 1
        /\ p.oindex \in 0 .. TXINDEX_OFFSET - 1
    BY <1>1, <1>3 DEF UtxoPositions, MAX_TX_INDEX
  <1>5. p.blknum * TxsPerBlock \in Nat /\ p.blknum * TxsPerBlock <= MAX_BLOCK_NUM * TxsPerBlock
    BY <1>3, <1>4, Offsets
  <1>6. PosOf(p) \in 0 .. TxPosSize - 1
    <2> DEFINE blockCount == p.blknum * TxsPerBlock
               most == MAX_BLOCK_NUM * TxsPerBlock
    <2>1. blockCount \in Nat /\ blockCount <= most /\ most \in Nat /\ most <= TxPosSize - TxIndexSize
      BY <1>3, <1>5, Offsets
    <2> HIDE DEF blockCount, most
    <2>2. blockCount + p.txindex \in 0 .. TxPosSize - 1
      BY <1>1, <1>4, <2>1
    <2> QED BY <2>2 DEF PosOf, blockCount
  <1>7. IdOf(p) = (PosOf(p) * TXINDEX_OFFSET) + p.oindex
    <2>1. p.blknum * (TxsPerBlock * TXINDEX_OFFSET) = (p.blknum * TxsPerBlock) * TXINDEX_OFFSET
      BY <1>1, <1>4, Offsets
    <2>2. ((p.blknum * TxsPerBlock) + p.txindex) * TXINDEX_OFFSET
             = ((p.blknum * TxsPerBlock) * TXINDEX_OFFSET) + (p.txindex * TXINDEX_OFFSET)
      BY <1>1, <1>4, <1>5
    <2> QED BY <2>1, <2>2, Offsets DEF IdOf, Encode, PosOf
  <1>8. IdOf(p) \div TXINDEX_OFFSET = PosOf(p)
    <2>1. PosOf(p) \in Nat
      BY <1>6
    <2>2. ((PosOf(p) * TXINDEX_OFFSET) + p.oindex) \div TXINDEX_OFFSET = PosOf(p)
      BY <1>1, <1>4, <2>1, Unpacked
    <2> QED BY <1>7, <2>2
  <1>9. PosOf(p) % TxPosSize = PosOf(p)
    BY <1>1, <1>6
  <1> QED BY <1>6, <1>8, <1>9 DEF TxPosition

\* Positions are in the order of age, and one position is one transaction.
LEMMA PositionOrder ==
    ASSUME NEW p \in UtxoPositions, NEW q \in UtxoPositions
    PROVE  /\ PosOf(p) < PosOf(q) <=> Earlier(p, q)
           /\ PosOf(p) = PosOf(q) <=> SameTx(p, q)
  <1>1. /\ p.blknum \in Nat /\ q.blknum \in Nat
        /\ p.txindex \in 0 .. TxsPerBlock - 1 /\ q.txindex \in 0 .. TxsPerBlock - 1
    BY Offsets, OffsetAssumption DEF UtxoPositions, MAX_TX_INDEX, MAX_BLOCK_NUM, TxsPerBlock
  <1>2. TxsPerBlock \in Nat \ {0}
    BY Offsets
  <1>3. \A a, b \in Nat : \A x, y \in 0 .. TxsPerBlock - 1 :
            /\ (a * TxsPerBlock) + x < (b * TxsPerBlock) + y <=> (a < b \/ (a = b /\ x < y))
            /\ (a * TxsPerBlock) + x = (b * TxsPerBlock) + y <=> (a = b /\ x = y)
    BY <1>2, PackedOrder, PackedEqual
  <1> QED BY <1>1, <1>3 DEF PosOf, Earlier, SameTx

----------------------------------------------------------------------------
\* Words.

Upper(exitableAt, p) == (exitableAt * TxPosSize) + PosOf(p)

LEMMA WordOf ==
    ASSUME NEW exitableAt \in Nat, NEW p \in UtxoPositions, NEW exitId \in 0 .. ExitIdSize - 1
    PROVE  LET word == ComputePriority(exitableAt, IdOf(p), exitId)
           IN  /\ word \in Nat /\ Upper(exitableAt, p) \in Nat
               /\ word = (Upper(exitableAt, p) * ExitIdSize) + exitId
               /\ word = (exitableAt * (TxPosSize * ExitIdSize)) + ((PosOf(p) * ExitIdSize) + exitId)
               /\ (PosOf(p) * ExitIdSize) + exitId \in 0 .. (TxPosSize * ExitIdSize) - 1
  <1>1. PosOf(p) \in 0 .. TxPosSize - 1 /\ TxPosition(IdOf(p)) = PosOf(p)
    BY PositionFits
  <1>2. TxPosSize \in Nat \ {0} /\ ExitIdSize \in Nat \ {0}
    BY OffsetAssumption, PriorityAssumption
  <1>3. Upper(exitableAt, p) \in Nat
    BY <1>1, <1>2 DEF Upper
  <1>4. Upper(exitableAt, p) * ExitIdSize \in Nat
    BY <1>2, <1>3
  <1>5. Upper(exitableAt, p) * ExitIdSize = (exitableAt * (TxPosSize * ExitIdSize)) + (PosOf(p) * ExitIdSize)
    <2>1. exitableAt * (TxPosSize * ExitIdSize) = (exitableAt * TxPosSize) * ExitIdSize
      BY <1>2
    <2>2. ((exitableAt * TxPosSize) + PosOf(p)) * ExitIdSize
            = ((exitableAt * TxPosSize) * ExitIdSize) + (PosOf(p) * ExitIdSize)
      BY <1>1, <1>2
    <2> QED BY <2>1, <2>2 DEF Upper
  <1>6. PosOf(p) * ExitIdSize \in Nat /\ exitableAt * (TxPosSize * ExitIdSize) \in Nat
    BY <1>1, <1>2
  <1>7. (PosOf(p) * ExitIdSize) + exitId \in 0 .. (TxPosSize * ExitIdSize) - 1
    BY <1>1, <1>2, PackedBound
  <1> QED BY <1>1, <1>2, <1>3, <1>4, <1>5, <1>6, <1>7 DEF ComputePriority, Upper

LEMMA WordsInOrder ==
    ASSUME NEW s \in Nat, NEW p \in UtxoPositions, NEW i \in 0 .. ExitIdSize - 1,
           NEW t \in Nat, NEW q \in UtxoPositions, NEW j \in 0 .. ExitIdSize - 1
    PROVE  ComputePriority(s, IdOf(p), i) < ComputePriority(t, IdOf(q), j) <=>
              \/ s < t
              \/ s = t /\ Earlier(p, q)
              \/ s = t /\ SameTx(p, q) /\ i < j
  <1>1. PosOf(p) \in 0 .. TxPosSize - 1 /\ PosOf(q) \in 0 .. TxPosSize - 1
    BY PositionFits
  <1>2. TxPosSize \in Nat \ {0} /\ ExitIdSize \in Nat \ {0}
    BY OffsetAssumption, PriorityAssumption
  <1>3. ComputePriority(s, IdOf(p), i) < ComputePriority(t, IdOf(q), j) <=>
            (Upper(s, p) < Upper(t, q) \/ (Upper(s, p) = Upper(t, q) /\ i < j))
    <2>1. /\ Upper(s, p) \in Nat /\ Upper(t, q) \in Nat
          /\ ComputePriority(s, IdOf(p), i) = (Upper(s, p) * ExitIdSize) + i
          /\ ComputePriority(t, IdOf(q), j) = (Upper(t, q) * ExitIdSize) + j
      BY WordOf
    <2>2. (Upper(s, p) * ExitIdSize) + i < (Upper(t, q) * ExitIdSize) + j <=>
            (Upper(s, p) < Upper(t, q) \/ (Upper(s, p) = Upper(t, q) /\ i < j))
      BY <1>2, <2>1, PackedOrder
    <2> QED BY <2>1, <2>2
  <1>4. Upper(s, p) < Upper(t, q) <=> (s < t \/ (s = t /\ PosOf(p) < PosOf(q)))
    BY <1>1, <1>2, PackedOrder DEF Upper
  <1>5. Upper(s, p) = Upper(t, q) <=> (s = t /\ PosOf(p) = PosOf(q))
    BY <1>1, <1>2, PackedEqual DEF Upper
  <1> QED BY <1>3, <1>4, <1>5, PositionOrder

LEMMA WordsGiveBack ==
    ASSUME NEW exitableAt \in 0 .. TimestampSize - 1, NEW p \in UtxoPositions, NEW exitId \in 0 .. ExitIdSize - 1
    PROVE  LET word == ComputePriority(exitableAt, IdOf(p), exitId)
           IN  /\ ParseExitableAt(word) = exitableAt
               /\ ParseExitId(word) = exitId
               /\ ParseExitPriority(word) =
                    [exitableAt |-> exitableAt, txPos |-> TxPosition(IdOf(p)), exitId |-> exitId]
  <1> DEFINE word == ComputePriority(exitableAt, IdOf(p), exitId)
             low == (PosOf(p) * ExitIdSize) + exitId
  <1>1. exitableAt \in Nat /\ TimestampSize \in Nat \ {0} /\ exitableAt % TimestampSize = exitableAt
    BY PriorityAssumption
  <1>2. TxPosSize \in Nat \ {0} /\ ExitIdSize \in Nat \ {0} /\ TxPosSize * ExitIdSize \in Nat \ {0}
    BY OffsetAssumption, PriorityAssumption
  <1>3. /\ Upper(exitableAt, p) \in Nat
        /\ word = (Upper(exitableAt, p) * ExitIdSize) + exitId
        /\ word = (exitableAt * (TxPosSize * ExitIdSize)) + low
        /\ low \in 0 .. (TxPosSize * ExitIdSize) - 1
    BY <1>1, WordOf
  <1>4. PosOf(p) \in Nat /\ TxPosition(IdOf(p)) = PosOf(p)
    BY PositionFits
  <1>5. word \div (TxPosSize * ExitIdSize) = exitableAt
    <2> DEFINE size == TxPosSize * ExitIdSize
    <2>1. size \in Nat \ {0} /\ low \in 0 .. size - 1
      BY <1>2, <1>3
    <2> HIDE DEF low, size
    <2>2. ((exitableAt * size) + low) \div size = exitableAt
      BY <1>1, <2>1, Unpacked
    <2> QED BY <1>3, <2>2 DEF size
  <1>6. word % ExitIdSize = exitId /\ word \div ExitIdSize = Upper(exitableAt, p)
    <2> DEFINE upper == Upper(exitableAt, p)
    <2>1. upper \in Nat
      BY <1>3
    <2> HIDE DEF upper
    <2>2. ((upper * ExitIdSize) + exitId) \div ExitIdSize = upper /\ ((upper * ExitIdSize) + exitId) % ExitIdSize = exitId
      BY <1>2, <2>1, Unpacked
    <2> QED BY <1>3, <2>2 DEF upper
  <1>7. low \div ExitIdSize = PosOf(p)
    BY <1>2, <1>4, Unpacked
  <1>8. ClearAbove(word, TxPosSize * ExitIdSize) = low
    <2>1. exitableAt * (TxPosSize * ExitIdSize) \in Nat
      BY <1>1, <1>2
    <2> HIDE DEF word, low
    <2> QED BY <1>3, <1>5, <2>1 DEF ClearAbove
  <1>9. ClearAbove(word, ExitIdSize) = exitId
    <2>1. Upper(exitableAt, p) * ExitIdSize \in Nat
      BY <1>2, <1>3
    <2> HIDE DEF word
    <2> QED BY <1>3, <1>6, <2>1 DEF ClearAbove
  <1> HIDE DEF word, low
  <1>10. ParseExitableAt(word) = exitableAt /\ ParseExitId(word) = exitId
    BY <1>1, <1>5, <1>6 DEF ParseExitableAt, ParseExitId
  <1>11. ParseExitPriority(word) =
            [exitableAt |-> exitableAt, txPos |-> TxPosition(IdOf(p)), exitId |-> exitId]
    BY <1>4, <1>5, <1>7, <1>8, <1>9 DEF ParseExitPriority
  <1> QED BY <1>10, <1>11 DEF word

----------------------------------------------------------------------------
\* The queue.

\* The words are those of the exits, and no time was cut off.
PriorityInv ==
    /\ PriorityTypeOK
    /\ \A e \in exits : /\ e.priority = ComputePriority(e.exitableAt, IdOf(e.pos), e.exitId)
                        /\ e.exitableAt >= e.start + MinExitPeriod

LEMMA EnqueueKeepsInv ==
  ASSUME PriorityInv, NEW p \in ExitPositions, NEW exitId \in ExitIds, NEW exitableAt \in 0 .. TimestampSize - 1,
         exitableAt >= clock + MinExitPeriod, Enqueue(exitableAt, p, exitId)
  PROVE  PriorityInv'
  <1> DEFINE word == ComputePriority(exitableAt, IdOf(p), exitId)
             new == [priority |-> word, exitableAt |-> exitableAt, pos |-> p, exitId |-> exitId, start |-> clock]
  <1>1. p \in UtxoPositions /\ exitId \in 0 .. ExitIdSize - 1 /\ exitableAt \in Nat
    BY PriorityAssumption
  <1>2. word \in Nat
    BY <1>1, WordOf
  <1>3. words' = words \cup {word} /\ exits' = exits \cup {new} /\ clock' = clock
    BY DEF Enqueue
  <1>4. /\ new \in ExitType /\ new.priority = word /\ new.exitableAt = exitableAt
        /\ new.pos = p /\ new.exitId = exitId /\ new.start = clock
    <2> HIDE DEF word
    <2> QED BY <1>1, <1>2 DEF PriorityInv, PriorityTypeOK, ExitType
  <1> HIDE DEF new
  <1>5. PriorityTypeOK'
    BY <1>3, <1>4 DEF PriorityInv, PriorityTypeOK
  <1> QED BY <1>3, <1>4, <1>5 DEF PriorityInv

\* Until the bound on the clock no time of an exit is cut off.
LEMMA TimesFit ==
    ASSUME PriorityInv, NEW t \in 0 .. clock
    PROVE  /\ CalculateTxExitableTimestamp(t) \in 0 .. TimestampSize - 1
           /\ CalculateTxExitableTimestamp(t) >= clock + MinExitPeriod
           /\ CalculateDepositTxOutputExitableTimestamp \in 0 .. TimestampSize - 1
           /\ CalculateDepositTxOutputExitableTimestamp >= clock + MinExitPeriod
  <1>1. /\ clock \in Nat /\ clock <= PriorityTime /\ PriorityTime \in Nat
        /\ MinExitPeriod \in Nat \ {0} /\ TimestampSize \in Nat
        /\ PriorityTime + (2 * MinExitPeriod) < TimestampSize
    BY PriorityAssumption, PeriodAssumption DEF PriorityInv, PriorityTypeOK
  <1>2. \A time \in 0 .. TimestampSize - 1 : time % TimestampSize = time
    BY <1>1
  <1>3. Later(t + (2 * MinExitPeriod), clock + MinExitPeriod) \in (clock + MinExitPeriod) .. TimestampSize - 1
    BY <1>1 DEF Later
  <1>4. clock + MinExitPeriod \in 0 .. TimestampSize - 1
    BY <1>1
  <1> QED BY <1>1, <1>2, <1>3, <1>4 DEF CalculateTxExitableTimestamp, CalculateDepositTxOutputExitableTimestamp

LEMMA PriorityInvHolds == PrioritySpec => []PriorityInv
  <1>1. PriorityInit => PriorityInv
    BY PriorityAssumption DEF PriorityInit, PriorityInv, PriorityTypeOK
  <1>2. PriorityInv /\ [PriorityNext]_priorityVars => PriorityInv'
    <2> SUFFICES ASSUME PriorityInv, [PriorityNext]_priorityVars PROVE PriorityInv'
      OBVIOUS
    <2>1. CASE PriorityTick
      BY <2>1, PriorityAssumption DEF PriorityTick, TimePasses, PriorityInv, PriorityTypeOK
    <2>2. ASSUME NEW p \in ExitPositions, NEW exitId \in ExitIds, StartDepositExit(p, exitId) PROVE PriorityInv'
      <3>1. 0 \in 0 .. clock
        BY DEF PriorityInv, PriorityTypeOK
      <3> QED BY <2>2, <3>1, TimesFit, EnqueueKeepsInv DEF StartDepositExit
    <2>3. ASSUME NEW p \in ExitPositions, NEW exitId \in ExitIds, NEW t \in 0 .. clock, StartExit(p, exitId, t)
          PROVE PriorityInv'
      BY <2>3, TimesFit, EnqueueKeepsInv DEF StartExit
    <2>4. ASSUME NEW priority \in words, ProcessExit(priority) PROVE PriorityInv'
      BY <2>4 DEF ProcessExit, PriorityInv, PriorityTypeOK
    <2>5. CASE UNCHANGED priorityVars
      BY <2>5 DEF priorityVars, PriorityInv, PriorityTypeOK
    <2> QED BY <2>1, <2>2, <2>3, <2>4, <2>5 DEF PriorityNext
  <1> QED BY <1>1, <1>2, PTL DEF PrioritySpec

\* For any widths, words are in the order of their exits and give back their fields.
THEOREM PriorityWordsAreOrdered == PrioritySpec => []WordsAreOrdered
  <1>1. PriorityInv => WordsAreOrdered
    <2> SUFFICES ASSUME PriorityInv PROVE WordsAreOrdered
      OBVIOUS
    <2>1. ASSUME NEW e \in exits
          PROVE  /\ e.exitableAt \in 0 .. TimestampSize - 1 /\ e.exitableAt \in Nat
                 /\ e.pos \in UtxoPositions /\ e.exitId \in 0 .. ExitIdSize - 1
                 /\ e.priority = ComputePriority(e.exitableAt, IdOf(e.pos), e.exitId)
      BY DEF PriorityInv, PriorityTypeOK, ExitType
    <2>2. WordsReadBack
      BY <2>1, WordsGiveBack DEF WordsReadBack
    <2>3. \A e, f \in exits : Precedes(e, f) <=> e.priority < f.priority
      BY <2>1, WordsInOrder DEF Precedes
    <2> QED BY <2>2, <2>3 DEF WordsAreOrdered
  <1> QED BY <1>1, PriorityInvHolds, PTL

\* For any exit period, none is processed before it is over.
THEOREM NoneBeforeItsPeriod == PrioritySpec => NotBeforeItsPeriod
  <1> DEFINE Waited == \A e \in exits : e \notin exits' => clock > e.start + MinExitPeriod
  <1>1. PriorityInv /\ [PriorityNext]_priorityVars => [Waited]_priorityVars
    <2> SUFFICES ASSUME PriorityInv, [PriorityNext]_priorityVars, NEW e \in exits, e \notin exits'
                 PROVE  clock > e.start + MinExitPeriod
      OBVIOUS
    <2>1. PICK priority \in words : ProcessExit(priority)
      BY DEF PriorityNext, PriorityTick, StartExit, StartDepositExit, Enqueue, priorityVars
    <2>2. e.priority = priority /\ ParseExitableAt(priority) < clock
      BY <2>1 DEF ProcessExit
    <2>3. /\ e.exitableAt \in 0 .. TimestampSize - 1 /\ e.pos \in UtxoPositions
          /\ e.exitId \in 0 .. ExitIdSize - 1 /\ e.start \in Nat /\ clock \in Nat
          /\ e.priority = ComputePriority(e.exitableAt, IdOf(e.pos), e.exitId)
          /\ e.exitableAt >= e.start + MinExitPeriod
      BY DEF PriorityInv, PriorityTypeOK, ExitType
    <2>4. ParseExitableAt(priority) = e.exitableAt
      BY <2>2, <2>3, WordsGiveBack
    <2> QED BY <2>2, <2>3, <2>4, PriorityAssumption, PeriodAssumption
  <1> QED BY <1>1, PriorityInvHolds, PTL DEF PrioritySpec, NotBeforeItsPeriod

----------------------------------------------------------------------------
\* Bonds.

\* No update leaves a size of 0, and one that waits is a step from the size that is in force until
\* it comes: it cannot be overtaken by another one.
BondInv ==
    /\ clock \in Nat /\ effectiveUpdateTime \in Nat
    /\ previousBondSize \in Nat \ {0} /\ updatedBondSize \in Nat
    /\ previousExitBountySize \in 0 .. previousBondSize
    /\ updatedExitBountySize \in 0 .. updatedBondSize
    /\ updatedBondSize = 0 => effectiveUpdateTime = FarFuture
    /\ Waits => updatedBondSize \in (previousBondSize \div LowerBoundDivisor) .. (previousBondSize * UpperBoundMultiplier)
    /\ clock <= BondTime

\* The bounds on an update leave the size as it is.
LEMMA StepsContainNone ==
    ASSUME NEW d \in Nat \ {0}, NEW m \in Nat \ {0}, NEW size \in Nat
    PROVE  size \in (size \div d) .. (size * m)
  <1>1. size \div d \in Nat /\ size \div d <= size
    OBVIOUS
  <1>2. size * m \in Nat /\ size * m >= size
    OBVIOUS
  <1> QED BY <1>1, <1>2

LEMMA BondInvHolds == BondSpec => []BondInv
  <1>1. BondInit => BondInv
    BY BondAssumption DEF BondInit, BondInv, Waits
  <1>2. BondInv /\ [BondNext]_bondVars => BondInv'
    <2> SUFFICES ASSUME BondInv, [BondNext]_bondVars PROVE BondInv'
      OBVIOUS
    <2>1. CASE BondTick
      BY <2>1, BondAssumption DEF BondInv, BondTick, TimePasses, paramVars, Waits
    <2>2. CASE \E bond, bounty \in BondSizes : UpdateBondSize(bond, bounty)
      <3> PICK bond \in BondSizes, bounty \in BondSizes : UpdateBondSize(bond, bounty)
        BY <2>2
      <3>1. bond \in Nat \ {0} /\ bounty \in 0 .. bond
        BY BondAssumption DEF UpdateBondSize, ValidBondSize
      <3>2. updatedBondSize # 0 \/ clock < effectiveUpdateTime
        BY BondAssumption DEF BondInv
      <3>3. previousBondSize' = BondSize /\ previousExitBountySize' = ExitBountySize
        BY <3>2 DEF BondInv, UpdateBondSize, BondSize, ExitBountySize
      <3>4. BondSize \in Nat \ {0} /\ ExitBountySize \in 0 .. BondSize
        BY <3>2 DEF BondInv, BondSize, ExitBountySize
      <3>5. bond \in (BondSize \div LowerBoundDivisor) .. (BondSize * UpperBoundMultiplier)
        <4>1. BondSize \div LowerBoundDivisor \in Int /\ BondSize * UpperBoundMultiplier \in Int
          BY <3>4, BondAssumption
        <4> QED BY <4>1, <3>1 DEF UpdateBondSize, ValidBondSize
      <3> QED BY <3>1, <3>3, <3>4, <3>5, BondAssumption DEF BondInv, UpdateBondSize, Announced, Waits
    <2>3. CASE UNCHANGED bondVars
      BY <2>3 DEF BondInv, bondVars, paramVars, Waits
    <2> QED BY <2>1, <2>2, <2>3 DEF BondNext
  <1> QED BY <1>1, <1>2, PTL DEF BondSpec

\* Whatever is updated when, the sizes in force are those announced one waiting period before, or
\* the first ones.
THEOREM BondsAreDelayed == BondSpec => BondIsDelayed
  <1>1. BondInit => Bond!Init
    BY BondAssumption DEF BondInit, Bond!Init, BondSize, ExitBountySize, Waits
  <1> DEFINE sizes == <<BondSize, ExitBountySize>>
             next == IF Waits THEN <<updatedBondSize, updatedExitBountySize>> ELSE <<>>
             due == IF Waits THEN effectiveUpdateTime ELSE 0
  <1>2. BondInv /\ [BondNext]_bondVars => [Bond!Next]_<<clock, sizes, next, due>>
    <2> SUFFICES ASSUME BondInv, [BondNext]_bondVars PROVE [Bond!Next]_<<clock, sizes, next, due>>
      OBVIOUS
    <2>0. updatedBondSize # 0 \/ clock < effectiveUpdateTime
      BY BondAssumption DEF BondInv
    <2>1. CASE BondTick
      <3>1. clock' = clock + 1 /\ UNCHANGED paramVars
        BY <2>1 DEF BondTick, TimePasses
      <3>2. CASE Waits /\ effectiveUpdateTime = clock'
        BY <3>1, <3>2 DEF BondInv, Waits, paramVars, BondSize, ExitBountySize, Bond!Next, Bond!Tick
      <3>3. CASE ~ (Waits /\ effectiveUpdateTime = clock')
        <4>1. Waits' = Waits
          BY <3>1, <3>3, BondAssumption DEF BondInv, Waits, paramVars
        <4>2. BondSize' = BondSize /\ ExitBountySize' = ExitBountySize
          BY <3>1, <3>3, <2>0, <2>1, BondAssumption
          DEF BondInv, Waits, paramVars, BondSize, ExitBountySize, BondTick, TimePasses
        <4>3. ~ (next # <<>> /\ due = clock')
          BY <3>3
        <4> QED BY <3>1, <4>1, <4>2, <4>3 DEF paramVars, Bond!Next, Bond!Tick
      <3> QED BY <3>2, <3>3
    <2>2. CASE \E bond, bounty \in BondSizes : UpdateBondSize(bond, bounty)
      <3> PICK bond \in BondSizes, bounty \in BondSizes : UpdateBondSize(bond, bounty)
        BY <2>2
      <3>1. Waits' /\ clock' = clock
        BY BondAssumption DEF BondInv, UpdateBondSize, ValidBondSize, Announced, Waits
      <3>2. BondSize' = BondSize /\ ExitBountySize' = ExitBountySize
        BY <3>1, <2>0 DEF BondInv, UpdateBondSize, BondSize, ExitBountySize, Waits
      <3>3. next' = <<bond, bounty>> /\ due' = clock + WAITING_PERIOD
        BY <3>1 DEF UpdateBondSize, Announced
      <3>4. Bond!Announce(<<bond, bounty>>)
        BY <3>1, <3>2, <3>3 DEF Bond!Announce
      <3>5. <<bond, bounty>> \in BondSizes \X BondSizes
        OBVIOUS
      <3> QED BY <3>4, <3>5 DEF Bond!Next
    <2>3. CASE UNCHANGED bondVars
      BY <2>3 DEF bondVars, paramVars, Waits, BondSize, ExitBountySize
    <2> QED BY <2>1, <2>2, <2>3 DEF BondNext
  <1> QED BY <1>1, <1>2, BondInvHolds, PTL DEF BondSpec, BondIsDelayed, Bond!Spec

\* The size in force moves by no more than the divisor and the multiplier at a time, is never 0
\* and pays its bounty, for any of them, whichever updates replace each other.
THEOREM BondsMoveInBounds == BondSpec => BondMovesInBounds
  <1> DEFINE Bounded == /\ BondSize' \in (BondSize \div LowerBoundDivisor) .. (BondSize * UpperBoundMultiplier)
                        /\ BondSize' > 0 /\ BondSize' >= ExitBountySize'
  <1>1. BondInv /\ BondInv' /\ [BondNext]_bondVars => [Bounded]_bondVars
    <2> SUFFICES ASSUME BondInv, BondInv', [BondNext]_bondVars PROVE Bounded
      OBVIOUS
    <2>0. updatedBondSize # 0 \/ clock < effectiveUpdateTime
      BY BondAssumption DEF BondInv
    <2>1. BondSize' \in Nat \ {0} /\ ExitBountySize' \in 0 .. BondSize'
      BY BondAssumption DEF BondInv, BondSize, ExitBountySize
    <2>2. BondSize \in Nat \ {0}
      BY <2>0 DEF BondInv, BondSize
    <2>3. BondSize \in (BondSize \div LowerBoundDivisor) .. (BondSize * UpperBoundMultiplier)
      BY <2>2, StepsContainNone, BondAssumption
    <2>4. CASE BondTick
      <3>1. CASE BondSize' = BondSize
        BY <3>1, <2>1, <2>3
      <3>2. CASE BondSize' # BondSize
        <4>1. Waits /\ BondSize' = updatedBondSize /\ BondSize = previousBondSize
          BY <2>0, <2>4, <3>2, BondAssumption DEF BondInv, BondTick, TimePasses, paramVars, Waits, BondSize
        <4> QED BY <4>1, <2>1 DEF BondInv
      <3> QED BY <3>1, <3>2
    <2>5. CASE \E bond, bounty \in BondSizes : UpdateBondSize(bond, bounty)
      <3> PICK bond \in BondSizes, bounty \in BondSizes : UpdateBondSize(bond, bounty)
        BY <2>5
      <3>1. BondSize' = BondSize
        BY <2>0, BondAssumption DEF BondInv, UpdateBondSize, Announced, BondSize
      <3> QED BY <3>1, <2>1, <2>3
    <2>6. CASE UNCHANGED bondVars
      <3>1. BondSize' = BondSize
        BY <2>6 DEF bondVars, paramVars, BondSize
      <3> QED BY <3>1, <2>1, <2>3
    <2> QED BY <2>4, <2>5, <2>6 DEF BondNext
  <1> QED BY <1>1, BondInvHolds, PTL DEF BondSpec, BondMovesInBounds

----------------------------------------------------------------------------
\* Deposit verifiers.

\* Something matures only when there is a first verifier and a second one.
VerifierInv ==
    /\ clock \in Nat /\ clock <= VerifierTime
    /\ newDepositVerifierMaturityTimestamp \in Nat
    /\ DOMAIN depositVerifiers = 0 .. 1
    /\ \A k \in 0 .. 1 : depositVerifiers[k] \in Verifiers \cup {NoVerifier}
    /\ depositVerifiers[1] = NoVerifier => newDepositVerifierMaturityTimestamp = NeverMature
    /\ depositVerifiers[0] = NoVerifier => depositVerifiers[1] = NoVerifier

LEMMA VerifierInvHolds == VerifierSpec => []VerifierInv
  <1>1. VerifierInit => VerifierInv
    BY VerifierAssumption DEF VerifierInit, VerifierInv
  <1>2. VerifierInv /\ [VerifierNext]_verifierVars => VerifierInv'
    <2> SUFFICES ASSUME VerifierInv, [VerifierNext]_verifierVars PROVE VerifierInv'
      OBVIOUS
    <2>1. CASE VerifierTick
      BY <2>1, VerifierAssumption DEF VerifierInv, VerifierTick, TimePasses
    <2>2. ASSUME NEW verifier \in Verifiers, SetDepositVerifier(verifier) PROVE VerifierInv'
      <3>1. CASE depositVerifiers[0] # NoVerifier
        <4>1. GetEffectiveDepositVerifier \in Verifiers
          BY <3>1, VerifierAssumption DEF VerifierInv, GetEffectiveDepositVerifier
        <4>2. depositVerifiers' = [k \in 0 .. 1 |-> IF k = 0 THEN GetEffectiveDepositVerifier ELSE verifier]
          BY <3>1, <2>2 DEF SetDepositVerifier
        <4>3. depositVerifiers'[0] = GetEffectiveDepositVerifier /\ depositVerifiers'[1] = verifier
          BY <4>2
        <4>4. clock' = clock /\ newDepositVerifierMaturityTimestamp' = clock + (2 * MinExitPeriod)
          BY <3>1, <2>2 DEF SetDepositVerifier
        <4> QED BY <4>1, <4>2, <4>3, <4>4, <2>2, VerifierAssumption, PeriodAssumption DEF VerifierInv
      <3>2. CASE depositVerifiers[0] = NoVerifier
        BY <3>2, <2>2, VerifierAssumption DEF VerifierInv, SetDepositVerifier
      <3> QED BY <3>1, <3>2
    <2>3. CASE UNCHANGED verifierVars
      BY <2>3 DEF VerifierInv, verifierVars
    <2> QED BY <2>1, <2>2, <2>3 DEF VerifierNext
  <1> QED BY <1>1, <1>2, PTL DEF VerifierSpec

\* The verifier in force is the first one, or one that was set two exit periods before.
THEOREM VerifiersAreDelayed == VerifierSpec => VerifierIsDelayed
  <1>1. VerifierInit => Verifier!Init
    BY VerifierAssumption DEF VerifierInit, Verifier!Init, GetEffectiveDepositVerifier, Matures
  <1> DEFINE value == GetEffectiveDepositVerifier
             next == IF Matures THEN depositVerifiers[1] ELSE NoVerifier
             due == IF Matures THEN newDepositVerifierMaturityTimestamp ELSE 0
  <1>2. VerifierInv /\ [VerifierNext]_verifierVars => [Verifier!Next]_<<clock, value, next, due>>
    <2> SUFFICES ASSUME VerifierInv, [VerifierNext]_verifierVars PROVE [Verifier!Next]_<<clock, value, next, due>>
      OBVIOUS
    <2>1. CASE VerifierTick
      <3>1. /\ clock' = clock + 1 /\ clock < VerifierTime
            /\ UNCHANGED <<depositVerifiers, newDepositVerifierMaturityTimestamp>>
        BY <2>1 DEF VerifierTick, TimePasses
      <3>2. CASE Matures /\ newDepositVerifierMaturityTimestamp = clock'
        BY <3>1, <3>2 DEF VerifierInv, Matures, GetEffectiveDepositVerifier, Verifier!Next, Verifier!Tick
      <3>3. CASE ~ (Matures /\ newDepositVerifierMaturityTimestamp = clock')
        <4>1. Matures' = Matures
          BY <3>1, <3>3, VerifierAssumption DEF VerifierInv, Matures
        <4>2. value' = value
          BY <3>1, <3>3, VerifierAssumption DEF VerifierInv, Matures, GetEffectiveDepositVerifier
        <4>3. ~ (next # NoVerifier /\ due = clock')
          BY <3>3
        <4> QED BY <3>1, <4>1, <4>2, <4>3 DEF Verifier!Next, Verifier!Tick
      <3> QED BY <3>2, <3>3
    <2>2. ASSUME NEW verifier \in Verifiers, SetDepositVerifier(verifier) PROVE Verifier!Next
      <3>1. CASE depositVerifiers[0] # NoVerifier
        <4>1. depositVerifiers' = [k \in 0 .. 1 |-> IF k = 0 THEN value ELSE verifier]
          BY <3>1, <2>2 DEF SetDepositVerifier
        <4>2. depositVerifiers'[0] = value /\ depositVerifiers'[1] = verifier
          BY <4>1
        <4>3. clock' = clock /\ newDepositVerifierMaturityTimestamp' = clock + (2 * MinExitPeriod)
          BY <3>1, <2>2 DEF SetDepositVerifier
        <4>4. Matures'
          BY <4>2, <4>3, VerifierAssumption, PeriodAssumption DEF VerifierInv, Matures
        <4>5. value' = value
          BY <4>2, <4>4 DEF Matures, GetEffectiveDepositVerifier
        <4>6. value # NoVerifier
          BY <3>1, VerifierAssumption DEF VerifierInv, GetEffectiveDepositVerifier
        <4>7. Verifier!Announce(verifier)
          BY <4>2, <4>3, <4>4, <4>5, <4>6 DEF Verifier!Announce
        <4> QED BY <4>7 DEF Verifier!Next
      <3>2. CASE depositVerifiers[0] = NoVerifier
        <4>1. depositVerifiers' = [depositVerifiers EXCEPT ![0] = verifier]
              /\ UNCHANGED <<clock, newDepositVerifierMaturityTimestamp>>
          BY <3>2, <2>2 DEF SetDepositVerifier
        <4>2. depositVerifiers'[0] = verifier /\ depositVerifiers'[1] = NoVerifier
          BY <4>1, <3>2 DEF VerifierInv
        <4>3. clock < newDepositVerifierMaturityTimestamp
          BY <3>2, VerifierAssumption DEF VerifierInv
        <4>4. value = NoVerifier /\ value' = verifier
          BY <4>1, <4>2, <4>3, <3>2 DEF GetEffectiveDepositVerifier
        <4>5. ~ Matures /\ ~ Matures'
          BY <4>2, <3>2 DEF Matures, VerifierInv
        <4>6. Verifier!Set(verifier)
          BY <4>1, <4>4, <4>5 DEF Verifier!Set
        <4> QED BY <4>6 DEF Verifier!Next
      <3> QED BY <3>1, <3>2
    <2>3. CASE UNCHANGED verifierVars
      BY <2>3 DEF verifierVars, Matures, GetEffectiveDepositVerifier
    <2> QED BY <2>1, <2>2, <2>3 DEF VerifierNext
  <1> QED BY <1>1, <1>2, VerifierInvHolds, PTL DEF VerifierSpec, VerifierIsDelayed, Verifier!Spec

----------------------------------------------------------------------------
\* Registries.

\* The contracts of a kind that may act without a quarantine.
Immune(kind) == {c \in Registrants : KindOf(c) = kind /\ idOf[c] # 0 /\ store[c] = 0}
Initially(kind) == IF kind = "vault" THEN InitialImmuneVaults ELSE InitialImmuneExitGames

RegistryTypeOK ==
    /\ clock \in Nat
    /\ registered \in [Kinds -> [RegistryIds -> Registrants \cup {NoContract}]]
    /\ idOf \in [Registrants -> RegistryIds \cup {0}]
    /\ store \in [Registrants -> Nat]
    /\ immunitiesRemaining \in [Kinds -> Nat]
    /\ registeredAt \in [Registrants -> Nat]

RegisteredBothWays ==
    \A kind \in Kinds, id \in RegistryIds, c \in Registrants :
        registered[kind][id] = c <=> (KindOf(c) = kind /\ idOf[c] = id)

ImmunitiesUsed ==
    \A kind \in Kinds :
        IsFiniteSet(Immune(kind)) /\ Cardinality(Immune(kind)) + immunitiesRemaining[kind] = Initially(kind)

\* A quarantine starts with the registration.
QuarantineFromStart ==
    \A c \in Registrants : store[c] # 0 => store[c] = registeredAt[c] + QuarantinePeriod(KindOf(c))

RegistryInv == RegistryTypeOK /\ RegisteredBothWays /\ ImmunitiesUsed /\ QuarantineFromStart

LEMMA KindsOfContracts == \A c \in Registrants : KindOf(c) \in Kinds
  BY DEF KindOf, Kinds

LEMMA PeriodsArePositive == \A kind \in Kinds : QuarantinePeriod(kind) \in Nat \ {0}
  <1>1. 2 * MinExitPeriod \in Nat \ {0} /\ 4 * MinExitPeriod \in Nat \ {0}
    BY PeriodAssumption
  <1> QED BY <1>1 DEF QuarantinePeriod

LEMMA RegistryInvStarts == RegistryInit => RegistryInv
  <1> SUFFICES ASSUME RegistryInit PROVE RegistryInv
    OBVIOUS
  <1>1. RegistryTypeOK
    BY RegistryAssumption DEF RegistryInit, RegistryTypeOK, Kinds
  <1>2. RegisteredBothWays
    BY RegistryAssumption DEF RegistryInit, RegisteredBothWays, Registrants
  <1>3. ImmunitiesUsed
    <2> SUFFICES ASSUME NEW kind \in Kinds
                 PROVE  IsFiniteSet(Immune(kind)) /\ Cardinality(Immune(kind)) + immunitiesRemaining[kind] = Initially(kind)
      BY DEF ImmunitiesUsed
    <2>1. Immune(kind) = {}
      BY DEF RegistryInit, Immune
    <2>2. immunitiesRemaining[kind] = Initially(kind) /\ Initially(kind) \in Nat
      BY RegistryAssumption DEF RegistryInit, Initially
    <2> QED BY <2>1, <2>2, FS_EmptySet
  <1>4. QuarantineFromStart
    BY DEF RegistryInit, QuarantineFromStart
  <1> QED BY <1>1, <1>2, <1>3, <1>4 DEF RegistryInv

LEMMA RegisterKeepsInv ==
  ASSUME RegistryInv, NEW id \in RegistryIds, NEW contract \in Registrants, Register(id, contract)
  PROVE  RegistryInv'
  <1> DEFINE kind == KindOf(contract)
  <1>0. kind \in Kinds /\ QuarantinePeriod(kind) \in Nat \ {0} /\ id # 0
    BY KindsOfContracts, PeriodsArePositive, RegistryAssumption
  <1> USE DEF RegistryInv, RegistryTypeOK
  <1>1. /\ registered[kind][id] = NoContract /\ idOf[contract] = 0 /\ store[contract] = 0
        /\ registered' = [registered EXCEPT ![kind][id] = contract]
        /\ idOf' = [idOf EXCEPT ![contract] = id]
        /\ registeredAt' = [registeredAt EXCEPT ![contract] = clock]
        /\ clock' = clock
    BY DEF Register, Quarantine
  <1>2. CASE immunitiesRemaining[kind] = 0
    <2>1. store' = [store EXCEPT ![contract] = clock + QuarantinePeriod(kind)]
          /\ immunitiesRemaining' = immunitiesRemaining
      BY <1>2 DEF Register, Quarantine
    <2>2. clock + QuarantinePeriod(kind) \in Nat \ {0}
      BY <1>0
    <2>3. RegistryTypeOK'
      BY <1>0, <1>1, <2>1, <2>2
    <2>4. RegisteredBothWays'
      BY <1>0, <1>1, RegistryAssumption, KindsOfContracts DEF RegisteredBothWays, Registrants
    <2>5. ImmunitiesUsed'
      <3>1. \A k \in Kinds : Immune(k)' = Immune(k)
        BY <1>1, <2>1, <2>2 DEF Immune
      <3> QED BY <3>1, <2>1 DEF ImmunitiesUsed
    <2>6. QuarantineFromStart'
      BY <1>1, <2>1 DEF QuarantineFromStart
    <2> QED BY <2>3, <2>4, <2>5, <2>6
  <1>3. CASE immunitiesRemaining[kind] # 0
    <2>1. immunitiesRemaining' = [immunitiesRemaining EXCEPT ![kind] = @ - 1] /\ store' = store
      BY <1>3 DEF Register, Quarantine
    <2>2. immunitiesRemaining[kind] - 1 \in Nat
      BY <1>0, <1>3
    <2>3. RegistryTypeOK'
      BY <1>0, <1>1, <2>1, <2>2
    <2>4. RegisteredBothWays'
      BY <1>0, <1>1, RegistryAssumption, KindsOfContracts DEF RegisteredBothWays, Registrants
    <2>5. ImmunitiesUsed'
      <3> SUFFICES ASSUME NEW k \in Kinds
                   PROVE  IsFiniteSet(Immune(k)') /\ Cardinality(Immune(k)') + immunitiesRemaining'[k] = Initially(k)
        BY DEF ImmunitiesUsed
      <3>1. CASE k = kind
        <4>1. Immune(k)' = Immune(k) \cup {contract} /\ contract \notin Immune(k)
          BY <1>0, <1>1, <2>1, <3>1 DEF Immune
        <4>2. IsFiniteSet(Immune(k)') /\ Cardinality(Immune(k)') = Cardinality(Immune(k)) + 1
          BY <4>1, FS_AddElement DEF ImmunitiesUsed
        <4>3. Cardinality(Immune(k)) \in Nat
          BY FS_CardinalityType DEF ImmunitiesUsed
        <4>4. immunitiesRemaining'[k] = immunitiesRemaining[k] - 1
          BY <2>1, <3>1
        <4> QED BY <4>2, <4>3, <4>4 DEF ImmunitiesUsed
      <3>2. CASE k # kind
        <4>1. Immune(k)' = Immune(k)
          BY <1>1, <2>1, <3>2 DEF Immune
        <4> QED BY <4>1, <2>1, <3>2 DEF ImmunitiesUsed
      <3> QED BY <3>1, <3>2
    <2>6. QuarantineFromStart'
      BY <1>1, <2>1 DEF QuarantineFromStart
    <2> QED BY <2>3, <2>4, <2>5, <2>6
  <1> QED BY <1>2, <1>3

LEMMA RegistryInvHolds == RegistrySpec => []RegistryInv
  <1>1. RegistryInv /\ [RegistryNext]_registryVars => RegistryInv'
    <2> SUFFICES ASSUME RegistryInv, [RegistryNext]_registryVars PROVE RegistryInv'
      OBVIOUS
    <2>1. CASE RegistryTick
      <3>1. clock' \in Nat /\ UNCHANGED <<registered, idOf, store, immunitiesRemaining, registeredAt>>
        BY <2>1 DEF RegistryTick, TimePasses, RegistryInv, RegistryTypeOK
      <3>2. \A kind \in Kinds : Immune(kind)' = Immune(kind)
        BY <3>1 DEF Immune
      <3> QED BY <3>1, <3>2 DEF RegistryInv, RegistryTypeOK, RegisteredBothWays, ImmunitiesUsed, QuarantineFromStart
    <2>2. CASE \E id \in RegistryIds, contract \in Registrants : Register(id, contract)
      BY <2>2, RegisterKeepsInv
    <2>3. CASE UNCHANGED registryVars
      <3>1. \A kind \in Kinds : Immune(kind)' = Immune(kind)
        BY <2>3 DEF Immune, registryVars
      <3> QED BY <2>3, <3>1 DEF registryVars, RegistryInv, RegistryTypeOK, RegisteredBothWays, ImmunitiesUsed, QuarantineFromStart
    <2> QED BY <2>1, <2>2, <2>3 DEF RegistryNext
  <1> QED BY <1>1, RegistryInvStarts, PTL DEF RegistrySpec

\* Registration goes one to one both ways, and immunities are used up, for any vaults, exit games
\* and ids.
THEOREM RegistriesAreOneToOne == RegistrySpec => []OneToOne
  <1>1. RegistryInv => OneToOne
    BY DEF RegistryInv, RegisteredBothWays, ImmunitiesUsed, Immune, Initially, OneToOne
  <1> QED BY <1>1, RegistryInvHolds, PTL

\* Whoever does not trust a new vault or exit game has the time to leave, for any exit period.
THEOREM UsersCanLeave == RegistrySpec => []TimeToLeave
  <1>1. RegistryInv => TimeToLeave
    <2> SUFFICES ASSUME RegistryInv, NEW c \in Registrants, CanAct(c), store[c] # 0,
                        NEW block \in 0 .. registeredAt[c],
                        NEW start \in registeredAt[c] .. registeredAt[c]
                            + ((IF c \in Vaults THEN 2 ELSE 3) * MinExitPeriod) - 1
                 PROVE  ExitableAt(block, start) < IF c \in Vaults THEN clock + MinExitPeriod ELSE clock
      BY DEF TimeToLeave
    <2>1. store[c] = registeredAt[c] + QuarantinePeriod(KindOf(c)) /\ registeredAt[c] \in Nat /\ clock \in Nat
      BY DEF RegistryInv, RegistryTypeOK, QuarantineFromStart
    <2>2. clock >= store[c]
      BY <2>1, KindsOfContracts, PeriodsArePositive DEF CanAct, IsQuarantined
    <2>3. CASE c \in Vaults
      BY <2>1, <2>2, <2>3, PeriodAssumption DEF KindOf, QuarantinePeriod, ExitableAt
    <2>4. CASE c \notin Vaults
      BY <2>1, <2>2, <2>4, PeriodAssumption DEF KindOf, QuarantinePeriod, ExitableAt
    <2> QED BY <2>3, <2>4
  <1> QED BY <1>1, RegistryInvHolds, PTL
----------------------------------------------------------------------------
(* The heap. *)

\* On every edge of the tree that does not touch a hole, the parent is no larger.
EdgesInOrder ==
    \A k \in Places :
        percolating = "no" \/ (k # hole /\ Parent(k) # hole) => heapList[Parent(k)] <= heapList[k]

\* Whatever is below a hole fits below what is above it.
Bridged ==
    percolating # "no" =>
        \A k \in Places : Parent(k) = hole => heapList[Parent(hole)] <= heapList[k]

\* On its way up, the value fits above what is below the hole; on its way down, below what is above.
FitsBelow ==
    percolating = "up" => hole \in Places /\ \A k \in Places : Parent(k) = hole => newVal <= heapList[k]
FitsAbove ==
    percolating = "down" => hole \in 1 .. currentSize + 1 /\ heapList[Parent(hole)] <= newVal

HeapInv == HeapTypeOK /\ heapList[0] = 0 /\ EdgesInOrder /\ Bridged /\ FitsBelow /\ FitsAbove

----------------------------------------------------------------------------

LEMMA ParentOf ==
    \A k \in Nat \ {0} :
        /\ Parent(k) \in Nat /\ Parent(k) < k
        /\ \A j \in Nat : Parent(k) = j <=> k \in {2 * j, (2 * j) + 1}
  BY DEF Parent

LEMMA AfterPut ==
    ASSUME NEW list, NEW top \in Nat, NEW place \in 0 .. top, NEW value, DOMAIN list \cup {place} = 0 .. top
    PROVE  /\ DOMAIN Put(list, place, value) = 0 .. top /\ Put(list, place, value)[place] = value
           /\ \A m \in 0 .. top : m # place => Put(list, place, value)[m] = list[m]
  BY DEF Put

\* The smaller child is no larger than any other.
LEMMA MinChildIsMin ==
    ASSUME HeapInv, percolating = "down", MinChild(hole) <= currentSize
    PROVE  /\ MinChild(hole) \in Places /\ Parent(MinChild(hole)) = hole /\ hole \in Places
           /\ \A k \in Places : Parent(k) = hole => heapList[MinChild(hole)] <= heapList[k]
  <1>1. currentSize \in Nat /\ hole \in Nat \ {0}
    BY DEF HeapInv, HeapTypeOK, FitsAbove
  <1>2. \A k \in Places : heapList[k] \in Nat
    BY <1>1 DEF HeapInv, HeapTypeOK, Places
  <1>3. \A k \in Places : Parent(k) = hole <=> k \in {2 * hole, (2 * hole) + 1}
    BY <1>1, ParentOf DEF Places
  <1>4. MinChild(hole) \in {2 * hole, (2 * hole) + 1} /\ MinChild(hole) \in Places /\ hole \in Places
    BY <1>1 DEF MinChild, Places
  <1>5. \A k \in Places : k \in {2 * hole, (2 * hole) + 1} => heapList[MinChild(hole)] <= heapList[k]
    <2>1. CASE (2 * hole) + 1 > currentSize
      BY <1>1, <1>2, <2>1 DEF MinChild, Places
    <2>2. CASE ~ ((2 * hole) + 1 > currentSize)
      <3>1. 2 * hole \in Places /\ (2 * hole) + 1 \in Places
        BY <1>1, <2>2 DEF Places
      <3>2. MinChild(hole) = IF heapList[2 * hole] < heapList[(2 * hole) + 1] THEN 2 * hole ELSE (2 * hole) + 1
        BY <2>2 DEF MinChild
      <3>3. heapList[2 * hole] \in Nat /\ heapList[(2 * hole) + 1] \in Nat
        BY <1>2, <3>1
      <3>4. heapList[MinChild(hole)] <= heapList[2 * hole] /\ heapList[MinChild(hole)] <= heapList[(2 * hole) + 1]
        BY <3>2, <3>3
      <3> QED BY <3>4
    <2> QED BY <2>1, <2>2
  <1> QED BY <1>3, <1>4, <1>5

LEMMA InsertKeepsInv ==
  ASSUME HeapInv, NEW element \in Elements, Insert(element)
  PROVE  HeapInv'
  <1> DEFINE n == currentSize + 1
  <1>1. /\ currentSize \in Nat /\ element \in Nat /\ percolating = "no" /\ DOMAIN heapList = 0 .. currentSize
        /\ \A m \in 0 .. currentSize : heapList[m] \in Nat
    BY ElementsAssumption DEF HeapInv, HeapTypeOK, Insert
  <1>2. /\ currentSize' = n /\ heapList' = Put(heapList, n, element)
        /\ percolating' = "up" /\ hole' = n /\ newVal' = element /\ retVal' = retVal
    BY DEF Insert
  <1>3. DOMAIN heapList' = 0 .. n /\ heapList'[n] = element /\ \A m \in 0 .. currentSize : heapList'[m] = heapList[m]
    <2>1. n \in Nat /\ n \in 0 .. n /\ DOMAIN heapList \cup {n} = 0 .. n /\ \A m \in 0 .. currentSize : m \in 0 .. n /\ m # n
      BY <1>1
    <2> HIDE DEF n
    <2> QED BY <1>2, <2>1, AfterPut
  <1>4. HeapTypeOK'
    BY <1>1, <1>2, <1>3 DEF HeapTypeOK, HeapInv
  <1>5. heapList'[0] = 0
    BY <1>1, <1>3 DEF HeapInv
  <1>6. EdgesInOrder'
    <2> SUFFICES ASSUME NEW k \in 1 .. n, k # n PROVE heapList'[Parent(k)] <= heapList'[k]
      BY <1>2 DEF EdgesInOrder, Places, Parent
    <2>1. k \in Places /\ Parent(k) \in 0 .. currentSize /\ k \in 0 .. currentSize
      BY <1>1, ParentOf DEF Places
    <2> QED BY <1>1, <1>3, <2>1 DEF HeapInv, EdgesInOrder
  <1>7. \A k \in 1 .. n : Parent(k) # n
    BY <1>1, ParentOf
  <1>8. Bridged' /\ FitsBelow' /\ FitsAbove'
    BY <1>1, <1>2, <1>7 DEF Bridged, FitsBelow, FitsAbove, Places, Parent
  <1> QED BY <1>4, <1>5, <1>6, <1>8 DEF HeapInv

LEMMA PercUpKeepsInv ==
  ASSUME HeapInv, PercUp
  PROVE  HeapInv'
  <1> DEFINE up == Parent(hole)
  <1>1. /\ currentSize \in Nat /\ percolating = "up" /\ DOMAIN heapList = 0 .. currentSize /\ hole \in Places
        /\ newVal \in Nat /\ newVal < heapList[up] /\ heapList[0] = 0
        /\ \A m \in 0 .. currentSize : heapList[m] \in Nat
    BY DEF HeapInv, HeapTypeOK, PercUp, FitsBelow
  <1>2. /\ heapList' = Put(heapList, hole, heapList[up]) /\ hole' = up
        /\ currentSize' = currentSize /\ percolating' = "up" /\ newVal' = newVal /\ retVal' = retVal
    BY <1>1 DEF PercUp
  <1>3. /\ DOMAIN heapList' = 0 .. currentSize /\ heapList'[hole] = heapList[up]
        /\ \A m \in 0 .. currentSize : m # hole => heapList'[m] = heapList[m]
    <2>1. hole \in 0 .. currentSize /\ DOMAIN heapList \cup {hole} = 0 .. currentSize
      BY <1>1 DEF Places
    <2> QED BY <1>1, <1>2, <2>1, AfterPut
  <1>4. up \in Places /\ up # hole /\ Parent(up) \in 0 .. currentSize /\ Parent(up) # hole
    BY <1>1, ParentOf DEF Places
  <1>5. HeapTypeOK'
    BY <1>1, <1>2, <1>3, <1>4 DEF HeapTypeOK, HeapInv, Places
  <1>6. heapList'[0] = 0
    BY <1>1, <1>3 DEF Places
  <1>7. \A k \in Places : k \in 0 .. currentSize /\ Parent(k) \in 0 .. currentSize
    BY <1>1, ParentOf DEF Places
  \* The edges that the hole leaves behind.
  <1>8. \A k \in Places : k # hole /\ Parent(k) # hole => heapList[Parent(k)] <= heapList[k]
    BY <1>1 DEF HeapInv, EdgesInOrder
  <1>9. \A k \in Places : Parent(k) = hole => heapList[up] <= heapList[k]
    BY <1>1 DEF HeapInv, Bridged
  <1>10. EdgesInOrder'
    <2> SUFFICES ASSUME NEW k \in Places, k # up, Parent(k) # up PROVE heapList'[Parent(k)] <= heapList'[k]
      BY <1>2 DEF EdgesInOrder, Places, Parent
    <2>1. k # hole
      OBVIOUS
    <2>2. CASE Parent(k) = hole
      BY <1>3, <1>7, <1>9, <2>1, <2>2
    <2>3. CASE Parent(k) # hole
      BY <1>3, <1>7, <1>8, <2>1, <2>3
    <2> QED BY <2>2, <2>3
  \* Below where the hole is now: where it was, and what was beside it.
  <1>11. \A k \in Places : Parent(k) = up => heapList[up] <= heapList'[k]
    <2> SUFFICES ASSUME NEW k \in Places, Parent(k) = up PROVE heapList[up] <= heapList'[k]
      OBVIOUS
    <2>1. CASE k = hole
      BY <1>1, <1>3, <1>4, <2>1 DEF Places
    <2>2. CASE k # hole
      BY <1>3, <1>4, <1>7, <1>8, <2>2
    <2> QED BY <2>1, <2>2
  <1>12. heapList'[Parent(up)] <= heapList[up]
    BY <1>3, <1>4, <1>8
  <1>13. heapList'[Parent(up)] \in Nat /\ heapList[up] \in Nat /\ \A k \in Places : heapList'[k] \in Nat
    BY <1>1, <1>3, <1>4, <1>7 DEF Places
  <1>14. Bridged'
    <2> SUFFICES ASSUME NEW k \in Places, Parent(k) = up PROVE heapList'[Parent(up)] <= heapList'[k]
      BY <1>2 DEF Bridged, Places, Parent
    <2> QED BY <1>11, <1>12, <1>13
  <1>15. FitsBelow'
    <2> SUFFICES ASSUME NEW k \in Places, Parent(k) = up PROVE newVal <= heapList'[k]
      BY <1>2, <1>4 DEF FitsBelow, Places, Parent
    <2> QED BY <1>1, <1>11, <1>13
  <1>16. FitsAbove'
    BY <1>2 DEF FitsAbove
  <1> QED BY <1>5, <1>6, <1>10, <1>14, <1>15, <1>16 DEF HeapInv

LEMMA PercUpEndsKeepsInv ==
  ASSUME HeapInv, PercUpEnds
  PROVE  HeapInv'
  <1>1. /\ currentSize \in Nat /\ percolating = "up" /\ DOMAIN heapList = 0 .. currentSize /\ hole \in Places
        /\ newVal \in Nat /\ heapList[Parent(hole)] <= newVal /\ heapList[0] = 0
        /\ \A m \in 0 .. currentSize : heapList[m] \in Nat
    <2>1. /\ currentSize \in Nat /\ percolating = "up" /\ DOMAIN heapList = 0 .. currentSize /\ hole \in Places
          /\ newVal \in Nat /\ ~ (newVal < heapList[Parent(hole)]) /\ heapList[0] = 0
          /\ \A m \in 0 .. currentSize : heapList[m] \in Nat
      BY DEF HeapInv, HeapTypeOK, PercUpEnds, FitsBelow
    <2>2. Parent(hole) \in 0 .. currentSize
      BY <2>1, ParentOf DEF Places
    <2> QED BY <2>1, <2>2
  <1>2. /\ heapList' = Put(heapList, hole, newVal) /\ hole' = hole
        /\ currentSize' = currentSize /\ percolating' = "no" /\ newVal' = newVal /\ retVal' = retVal
    BY DEF PercUpEnds
  <1>3. /\ DOMAIN heapList' = 0 .. currentSize /\ heapList'[hole] = newVal
        /\ \A m \in 0 .. currentSize : m # hole => heapList'[m] = heapList[m]
    <2>1. hole \in 0 .. currentSize /\ DOMAIN heapList \cup {hole} = 0 .. currentSize
      BY <1>1 DEF Places
    <2> QED BY <1>1, <1>2, <2>1, AfterPut
  <1>4. HeapTypeOK'
    BY <1>1, <1>2, <1>3 DEF HeapTypeOK, HeapInv, Places
  <1>5. heapList'[0] = 0
    BY <1>1, <1>3 DEF Places
  <1>6. \A k \in Places : k \in 0 .. currentSize /\ Parent(k) \in 0 .. currentSize /\ Parent(k) # k
    BY <1>1, ParentOf DEF Places
  <1>7. EdgesInOrder'
    <2> SUFFICES ASSUME NEW k \in Places PROVE heapList'[Parent(k)] <= heapList'[k]
      BY <1>2 DEF EdgesInOrder, Places, Parent
    <2>1. CASE k = hole
      BY <1>1, <1>3, <1>6, <2>1
    <2>2. CASE Parent(k) = hole
      BY <1>1, <1>3, <1>6, <2>2 DEF HeapInv, FitsBelow
    <2>3. CASE k # hole /\ Parent(k) # hole
      BY <1>1, <1>3, <1>6, <2>3 DEF HeapInv, EdgesInOrder
    <2> QED BY <2>1, <2>2, <2>3
  <1>8. Bridged' /\ FitsBelow' /\ FitsAbove'
    BY <1>2 DEF Bridged, FitsBelow, FitsAbove
  <1> QED BY <1>4, <1>5, <1>7, <1>8 DEF HeapInv

LEMMA DelMinKeepsInv ==
  ASSUME HeapInv, DelMin
  PROVE  HeapInv'
  <1> DEFINE n == currentSize - 1
             front == Put(heapList, 1, heapList[currentSize])
  <1>1. /\ currentSize \in Nat \ {0} /\ n \in Nat /\ percolating = "no" /\ DOMAIN heapList = 0 .. currentSize
        /\ heapList[0] = 0 /\ \A m \in 0 .. currentSize : heapList[m] \in Nat
    BY DEF HeapInv, HeapTypeOK, DelMin
  <1>2. /\ heapList' = Put(front, currentSize, 0) /\ hole' = 1 /\ newVal' = heapList'[1]
        /\ currentSize' = n /\ percolating' = "down" /\ retVal' = heapList[1]
    BY DEF DelMin
  <1>3. /\ DOMAIN front = 0 .. currentSize /\ front[1] = heapList[currentSize]
        /\ \A m \in 0 .. currentSize : m # 1 => front[m] = heapList[m]
    <2>1. currentSize \in Nat /\ 1 \in 0 .. currentSize /\ DOMAIN heapList \cup {1} = 0 .. currentSize
      BY <1>1
    <2> QED BY <2>1, AfterPut
  <1>4. /\ DOMAIN heapList' = 0 .. currentSize /\ heapList'[currentSize] = 0
        /\ \A m \in 0 .. currentSize : m # currentSize => heapList'[m] = front[m]
    <2> HIDE DEF front
    <2>1. currentSize \in Nat /\ currentSize \in 0 .. currentSize /\ DOMAIN front \cup {currentSize} = 0 .. currentSize
      BY <1>1, <1>3
    <2> QED BY <1>2, <2>1, AfterPut
  <1> HIDE DEF front
  <1>5. \A m \in 0 .. currentSize : heapList'[m] \in Nat
    BY <1>1, <1>3, <1>4
  <1>6. HeapTypeOK'
    BY <1>1, <1>2, <1>4, <1>5 DEF HeapTypeOK
  <1>7. heapList'[0] = 0
    BY <1>1, <1>3, <1>4
  <1>8. \A k \in 1 .. n : k # 1 => heapList'[k] = heapList[k]
    BY <1>1, <1>3, <1>4
  <1>9. EdgesInOrder'
    <2> SUFFICES ASSUME NEW k \in 1 .. n, k # 1, Parent(k) # 1 PROVE heapList'[Parent(k)] <= heapList'[k]
      BY <1>2 DEF EdgesInOrder, Places, Parent
    <2>1. k \in Places /\ Parent(k) \in 1 .. n
      BY <1>1, ParentOf DEF Places
    <2> QED BY <1>1, <1>8, <2>1 DEF HeapInv, EdgesInOrder
  <1>10. Parent(1) = 0
    BY DEF Parent
  <1>11. Bridged'
    <2> SUFFICES ASSUME NEW k \in 1 .. n PROVE heapList'[Parent(1)] <= heapList'[k]
      BY <1>2 DEF Bridged, Places, Parent
    <2> QED BY <1>1, <1>5, <1>7, <1>10
  <1>12. FitsAbove'
    <2>1. heapList'[0] <= heapList'[1]
      BY <1>1, <1>5, <1>7
    <2> QED BY <1>1, <1>2, <1>10, <2>1 DEF FitsAbove, Parent
  <1>13. FitsBelow'
    BY <1>2 DEF FitsBelow
  <1> QED BY <1>6, <1>7, <1>9, <1>11, <1>12, <1>13 DEF HeapInv

LEMMA PercDownKeepsInv ==
  ASSUME HeapInv, PercDown
  PROVE  HeapInv'
  <1> DEFINE child == MinChild(hole)
  <1>1. /\ currentSize \in Nat /\ percolating = "down" /\ DOMAIN heapList = 0 .. currentSize + 1
        /\ newVal \in Nat /\ heapList[child] < newVal /\ heapList[0] = 0
        /\ \A m \in 0 .. currentSize + 1 : heapList[m] \in Nat
        /\ child <= currentSize
    BY DEF HeapInv, HeapTypeOK, PercDown, GoesDown
  <1>2. /\ child \in Places /\ Parent(child) = hole /\ hole \in Places
        /\ \A k \in Places : Parent(k) = hole => heapList[child] <= heapList[k]
    BY <1>1, MinChildIsMin
  <1> HIDE DEF child
  <1>3. /\ heapList' = Put(heapList, hole, heapList[child]) /\ hole' = child
        /\ currentSize' = currentSize /\ percolating' = "down" /\ newVal' = newVal /\ retVal' = retVal
    BY <1>1 DEF PercDown, child
  <1>4. /\ DOMAIN heapList' = 0 .. currentSize + 1 /\ heapList'[hole] = heapList[child]
        /\ \A m \in 0 .. currentSize + 1 : m # hole => heapList'[m] = heapList[m]
    <2>1. currentSize + 1 \in Nat /\ hole \in 0 .. currentSize + 1 /\ DOMAIN heapList \cup {hole} = 0 .. currentSize + 1
      BY <1>1, <1>2 DEF Places
    <2> QED BY <1>3, <2>1, AfterPut
  <1>5. \A k \in Places : k \in 0 .. currentSize + 1 /\ Parent(k) \in 0 .. currentSize + 1 /\ Parent(k) < k /\ k \in Nat /\ Parent(k) \in Nat
    BY <1>1, ParentOf DEF Places
  <1>6. HeapTypeOK'
    BY <1>1, <1>2, <1>3, <1>4, <1>5 DEF HeapTypeOK, HeapInv
  <1>7. heapList'[0] = 0
    BY <1>1, <1>2, <1>4 DEF Places
  <1>8. \A k \in Places : k # hole /\ Parent(k) # hole => heapList[Parent(k)] <= heapList[k]
    BY <1>1 DEF HeapInv, EdgesInOrder
  <1>9. heapList[Parent(hole)] <= heapList[child]
    BY <1>1, <1>2 DEF HeapInv, Bridged
  <1>10. EdgesInOrder'
    <2> SUFFICES ASSUME NEW k \in Places, k # child, Parent(k) # child PROVE heapList'[Parent(k)] <= heapList'[k]
      BY <1>3 DEF EdgesInOrder, Places, Parent
    <2>1. CASE k = hole
      BY <1>2, <1>4, <1>5, <1>9, <2>1
    <2>2. CASE Parent(k) = hole
      BY <1>2, <1>4, <1>5, <2>2
    <2>3. CASE k # hole /\ Parent(k) # hole
      BY <1>4, <1>5, <1>8, <2>3
    <2> QED BY <2>1, <2>2, <2>3
  <1>11. Bridged'
    <2> SUFFICES ASSUME NEW k \in Places, Parent(k) = child PROVE heapList'[Parent(child)] <= heapList'[k]
      BY <1>3 DEF Bridged, Places, Parent
    <2>1. k # hole /\ Parent(k) # hole
      BY <1>2, <1>5
    <2> QED BY <1>2, <1>4, <1>5, <1>8, <2>1
  <1>12. FitsAbove'
    <2>1. heapList'[Parent(child)] <= newVal
      BY <1>1, <1>2, <1>4, <1>5
    <2> QED BY <1>1, <1>2, <1>3, <2>1 DEF FitsAbove, Places, Parent
  <1>13. FitsBelow'
    BY <1>3 DEF FitsBelow
  <1> QED BY <1>6, <1>7, <1>10, <1>11, <1>12, <1>13 DEF HeapInv

LEMMA PercDownEndsKeepsInv ==
  ASSUME HeapInv, PercDownEnds
  PROVE  HeapInv'
  <1>1. /\ currentSize \in Nat /\ percolating = "down" /\ DOMAIN heapList = 0 .. currentSize + 1
        /\ hole \in 1 .. currentSize + 1 /\ hole \in Nat
        /\ newVal \in Nat /\ retVal \in Nat /\ heapList[Parent(hole)] <= newVal /\ heapList[0] = 0
        /\ \A m \in 0 .. currentSize + 1 : heapList[m] \in Nat
    BY DEF HeapInv, HeapTypeOK, PercDownEnds, FitsAbove
  <1>2. /\ heapList' = [k \in 0 .. currentSize |-> IF k = hole THEN newVal ELSE heapList[k]] /\ hole' = hole
        /\ currentSize' = currentSize /\ percolating' = "no" /\ newVal' = newVal /\ retVal' = retVal
    BY DEF PercDownEnds
  <1>3. DOMAIN heapList' = 0 .. currentSize /\ \A m \in 0 .. currentSize : heapList'[m] = IF m = hole THEN newVal ELSE heapList[m]
    BY <1>2
  <1>4. HeapTypeOK'
    BY <1>1, <1>2, <1>3 DEF HeapTypeOK
  <1>5. heapList'[0] = 0
    BY <1>1, <1>3
  <1>6. \A k \in Places : k \in 0 .. currentSize /\ Parent(k) \in 0 .. currentSize /\ Parent(k) # k
    BY <1>1, ParentOf DEF Places
  <1>7. \A k \in Places : Parent(k) = hole => newVal <= heapList[k]
    <2> SUFFICES ASSUME NEW k \in Places, Parent(k) = hole PROVE newVal <= heapList[k]
      OBVIOUS
    <2>1. MinChild(hole) <= currentSize
      <3>1. k \in {2 * hole, (2 * hole) + 1} /\ k <= currentSize /\ k \in Nat
        BY <1>1, ParentOf DEF Places
      <3> QED BY <1>1, <3>1 DEF MinChild
    <2>2. MinChild(hole) \in Places /\ heapList[MinChild(hole)] <= heapList[k]
      BY <1>1, <2>1, MinChildIsMin
    <2>3. ~ (newVal > heapList[MinChild(hole)])
      BY <2>1 DEF PercDownEnds, GoesDown
    <2>4. heapList[MinChild(hole)] \in Nat /\ heapList[k] \in Nat
      BY <1>1, <2>2 DEF Places
    <2> QED BY <1>1, <2>2, <2>3, <2>4
  <1>8. EdgesInOrder'
    <2> SUFFICES ASSUME NEW k \in Places PROVE heapList'[Parent(k)] <= heapList'[k]
      BY <1>2 DEF EdgesInOrder, Places, Parent
    <2>1. CASE k = hole
      BY <1>1, <1>3, <1>6, <2>1
    <2>2. CASE Parent(k) = hole
      BY <1>3, <1>6, <1>7, <2>2
    <2>3. CASE k # hole /\ Parent(k) # hole
      BY <1>1, <1>3, <1>6, <2>3 DEF HeapInv, EdgesInOrder
    <2> QED BY <2>1, <2>2, <2>3
  <1>9. Bridged' /\ FitsBelow' /\ FitsAbove'
    BY <1>2 DEF Bridged, FitsBelow, FitsAbove
  <1> QED BY <1>4, <1>5, <1>8, <1>9 DEF HeapInv

LEMMA HeapInvHolds == HeapSpec => []HeapInv
  <1>1. HeapInit => HeapInv
    BY DEF HeapInit, HeapInv, HeapTypeOK, EdgesInOrder, Bridged, FitsBelow, FitsAbove, Places
  <1>2. HeapInv /\ [HeapNext]_heapVars => HeapInv'
    <2> SUFFICES ASSUME HeapInv, [HeapNext]_heapVars PROVE HeapInv'
      OBVIOUS
    <2>1. CASE UNCHANGED heapVars
      BY <2>1 DEF heapVars, HeapInv, HeapTypeOK, EdgesInOrder, Bridged, FitsBelow, FitsAbove, Places, Parent
    <2> QED BY <2>1, InsertKeepsInv, DelMinKeepsInv, PercUpKeepsInv, PercUpEndsKeepsInv, PercDownKeepsInv,
               PercDownEndsKeepsInv DEF HeapNext
  <1> QED BY <1>1, <1>2, PTL DEF HeapSpec

----------------------------------------------------------------------------

\* The array is as long as it should be, and its elements are numbers.
THEOREM HeapTypeCorrect == HeapSpec => []HeapTypeOK
  <1>1. HeapInv => HeapTypeOK
    BY DEF HeapInv
  <1> QED BY <1>1, HeapInvHolds, PTL

LEMMA OrderMakesMinFirst == HeapInv => MinFirst
  <1> SUFFICES ASSUME HeapInv, percolating = "no", NEW k \in Places PROVE heapList[1] <= heapList[k]
    BY DEF MinFirst
  <1>1. currentSize \in Nat /\ 1 \in Places /\ \A m \in Places : heapList[m] \in Nat /\ m \in Nat
    BY DEF HeapInv, HeapTypeOK, Places
  <1> DEFINE Smaller == {m \in Places : heapList[m] < heapList[1]}
  <1>2. Smaller = {}
    <2> SUFFICES ASSUME Smaller # {} PROVE FALSE
      OBVIOUS
    <2>1. Smaller \subseteq Nat
      BY <1>1
    <2>2. PICK m \in Smaller : \A j \in Smaller : ~ (<<j, m>> \in OpToRel(<, Nat))
      BY <2>1, NatLessThanWellFounded, WFMin
    <2>3. m \in Places /\ heapList[m] < heapList[1] /\ m # 1
      BY <1>1
    <2>4. Parent(m) \in Places /\ Parent(m) < m /\ heapList[Parent(m)] <= heapList[m]
      <3>1. Parent(m) \in Nat /\ Parent(m) < m /\ Parent(m) # 0
        BY <1>1, <2>3, ParentOf DEF Places
      <3> QED BY <1>1, <2>3, <3>1 DEF HeapInv, EdgesInOrder, Places
    <2>5. Parent(m) \in Smaller
      BY <1>1, <2>3, <2>4
    <2>6. <<Parent(m), m>> \in OpToRel(<, Nat)
      BY <1>1, <2>3, <2>4 DEF OpToRel
    <2> QED BY <2>2, <2>5, <2>6
  <1> QED BY <1>1, <1>2

\* What getMin shows is a smallest element, for heaps of any size.
THEOREM MinIsFirst == HeapSpec => []MinFirst
  BY OrderMakesMinFirst, HeapInvHolds, PTL

----------------------------------------------------------------------------
\* The bag of what is held.

WithValue(held, e) == {k \in Places : held[k] = e}
HeldNow == [k \in Places |-> Held(k)]

\* What is held are elements, the value on its way among them.
HeldKnown == \A k \in Places : Held(k) \in Elements

LEMMA PlacesFinite ==
    ASSUME HeapInv, NEW held, NEW e
    PROVE  IsFiniteSet(WithValue(held, e)) /\ Cardinality(WithValue(held, e)) \in Nat
  <1>1. IsFiniteSet(Places)
    BY FS_Interval DEF HeapInv, HeapTypeOK, Places
  <1>2. WithValue(held, e) \in SUBSET Places
    BY DEF WithValue
  <1> QED BY <1>1, <1>2, FS_Subset, FS_CardinalityType

\* Two places that exchange their values change no count.
LEMMA ExchangeKeepsCounts ==
    ASSUME HeapInv, NEW old, NEW new, NEW a \in Places, NEW b \in Places,
           new[a] = old[b], new[b] = old[a],
           \A k \in Places : k # a /\ k # b => new[k] = old[k],
           NEW e
    PROVE  Cardinality(WithValue(new, e)) = Cardinality(WithValue(old, e))
  <1> DEFINE other(k) == IF k = a THEN b ELSE IF k = b THEN a ELSE k
             f == [k \in WithValue(old, e) |-> other(k)]
  <1>1. \A k \in Places : other(k) \in Places /\ other(other(k)) = k /\ new[other(k)] = old[k] /\ old[other(k)] = new[k]
    OBVIOUS
  <1> HIDE DEF other
  <1>2. f \in [WithValue(old, e) -> WithValue(new, e)]
    BY <1>1 DEF WithValue
  <1>3. \A j, k \in WithValue(old, e) : f[j] = f[k] => j = k
    BY <1>1 DEF WithValue
  <1>4. \A k \in WithValue(new, e) : \E j \in WithValue(old, e) : f[j] = k
    <2> SUFFICES ASSUME NEW k \in WithValue(new, e) PROVE other(k) \in WithValue(old, e) /\ f[other(k)] = k
      OBVIOUS
    <2> QED BY <1>1 DEF WithValue
  <1> HIDE DEF f
  <1>5. f \in Bijection(WithValue(old, e), WithValue(new, e))
    BY <1>2, <1>3, <1>4 DEF Bijection, Injection, Surjection, IsInjective
  <1>6. ExistsBijection(WithValue(old, e), WithValue(new, e))
    BY <1>5 DEF ExistsBijection
  <1> QED BY <1>6, PlacesFinite, FS_Bijection

LEMMA ContentsAre == Contents = [e \in Elements |-> Cardinality(WithValue(HeldNow, e))]
  <1>1. \A e : {k \in Places : Held(k) = e} = WithValue(HeldNow, e)
    BY DEF WithValue, HeldNow
  <1> QED BY <1>1 DEF Contents

\* A turn of a loop, or its end: what is held stays as it is, or exchanges two places.
HeldStays == \A k \in Places : Held(k)' = Held(k)
HeldExchanged(a, b) ==
    /\ a \in Places /\ b \in Places /\ Held(a)' = Held(b) /\ Held(b)' = Held(a)
    /\ \A k \in Places : k # a /\ k # b => Held(k)' = Held(k)
NothingInOrOut == currentSize' = currentSize /\ retVal' = retVal

LEMMA NoCountChanges ==
    ASSUME HeapInv, HeldKnown, NothingInOrOut,
           HeldStays \/ \E a, b \in Places : HeldExchanged(a, b)
    PROVE  HeldKnown' /\ UNCHANGED <<Contents, retVal>>
  <1>1. Places' = Places
    BY DEF NothingInOrOut, Places
  <1>2. HeldKnown'
    BY <1>1 DEF HeldKnown, HeldStays, HeldExchanged
  <1> DEFINE new == [k \in Places |-> Held(k)']
  <1>3. \A e : Cardinality(WithValue(new, e)) = Cardinality(WithValue(HeldNow, e))
    <2>1. CASE HeldStays
      BY <2>1 DEF HeldStays, HeldNow, WithValue
    <2>2. CASE \E a, b \in Places : HeldExchanged(a, b)
      <3>1. PICK a \in Places, b \in Places : HeldExchanged(a, b)
        BY <2>2
      <3>2. new[a] = HeldNow[b] /\ new[b] = HeldNow[a] /\ \A k \in Places : k # a /\ k # b => new[k] = HeldNow[k]
        BY <3>1 DEF HeldExchanged, HeldNow
      <3> HIDE DEF new
      <3> QED BY <3>2, ExchangeKeepsCounts
    <2> QED BY <2>1, <2>2
  <1>4. \A e : {k \in Places : Held(k)'  = e} = WithValue(new, e)
    BY DEF WithValue
  <1>5. Contents' = [e \in Elements |-> Cardinality({k \in Places : Held(k)' = e})]
    BY <1>1 DEF Contents
  <1>6. Contents' = Contents
    BY <1>3, <1>4, <1>5, ContentsAre
  <1> QED BY <1>2, <1>6 DEF NothingInOrOut

LEMMA LoopsKeepContents ==
    ASSUME HeapInv, HeldKnown, PercUp \/ PercUpEnds \/ PercDown \/ PercDownEnds
    PROVE  HeldKnown' /\ UNCHANGED <<Contents, retVal>>
  <1>1. /\ currentSize \in Nat /\ DOMAIN heapList = 0 .. (IF percolating = "down" THEN currentSize + 1 ELSE currentSize)
        /\ \A k \in Places : k \in DOMAIN heapList
    BY DEF HeapInv, HeapTypeOK, Places
  <1>2. CASE PercUp
    <2>1. hole \in Places /\ percolating = "up" /\ Parent(hole) \in Places /\ Parent(hole) # hole
      <3>1. hole \in Places /\ percolating = "up" /\ newVal < heapList[Parent(hole)] /\ heapList[0] = 0 /\ newVal \in Nat
        BY <1>2 DEF PercUp, HeapInv, HeapTypeOK, FitsBelow
      <3> QED BY <1>1, <3>1, ParentOf DEF Places
    <2>2. PICK a \in Places, b \in Places : a = hole /\ b = Parent(hole)
      BY <2>1
    <2>3. /\ heapList' = Put(heapList, a, heapList[b]) /\ hole' = b /\ percolating' = "up" /\ newVal' = newVal
          /\ a # b /\ \A k \in Places : k \in DOMAIN heapList
      BY <1>1, <1>2, <2>1, <2>2 DEF PercUp
    <2>4. HeldExchanged(a, b)
      BY <2>1, <2>2, <2>3 DEF HeldExchanged, Held, Put
    <2> QED BY <1>2, <2>4, NoCountChanges DEF PercUp, NothingInOrOut
  <1>3. CASE PercUpEnds
    <2>1. HeldStays /\ NothingInOrOut
      BY <1>1, <1>3 DEF PercUpEnds, HeldStays, NothingInOrOut, Held, Put
    <2> QED BY <2>1, NoCountChanges
  <1>4. CASE PercDown
    <2>1. percolating = "down" /\ MinChild(hole) \in Places /\ hole \in Places /\ MinChild(hole) # hole
      <3>1. percolating = "down" /\ MinChild(hole) <= currentSize
        BY <1>4 DEF PercDown, GoesDown
      <3>2. MinChild(hole) \in Places /\ Parent(MinChild(hole)) = hole /\ hole \in Places
        BY <3>1, MinChildIsMin
      <3> QED BY <1>1, <3>1, <3>2, ParentOf DEF Places
    <2>2. PICK a \in Places, b \in Places : a = hole /\ b = MinChild(hole)
      BY <2>1
    <2>3. /\ heapList' = Put(heapList, a, heapList[b]) /\ hole' = b /\ percolating' = "down" /\ newVal' = newVal
          /\ a # b /\ \A k \in Places : k \in DOMAIN heapList
      BY <1>1, <1>4, <2>1, <2>2 DEF PercDown
    <2>4. HeldExchanged(a, b)
      BY <2>1, <2>2, <2>3 DEF HeldExchanged, Held, Put
    <2> QED BY <1>4, <2>4, NoCountChanges DEF PercDown, NothingInOrOut
  <1>5. CASE PercDownEnds
    <2>1. HeldStays /\ NothingInOrOut
      BY <1>1, <1>5 DEF PercDownEnds, HeldStays, NothingInOrOut, Held, Places
    <2> QED BY <2>1, NoCountChanges
  <1> QED BY <1>2, <1>3, <1>4, <1>5

LEMMA InsertIsInsert ==
    ASSUME HeapInv, HeldKnown, NEW element \in Elements, Insert(element)
    PROVE  HeldKnown' /\ Bag!Insert(element)
  <1> DEFINE with(e) == WithValue(HeldNow, e)
             withNow(e) == {k \in Places' : Held(k)' = e}
  <1>0. PICK n : n = currentSize + 1
    OBVIOUS
  <1>1. /\ currentSize \in Nat /\ percolating = "no" /\ DOMAIN heapList = 0 .. currentSize
        /\ currentSize' = n /\ heapList' = Put(heapList, n, element)
        /\ percolating' = "up" /\ hole' = n /\ newVal' = element /\ retVal' = retVal
    BY <1>0 DEF HeapInv, HeapTypeOK, Insert
  <1>2. Places' = Places \cup {n} /\ n \notin Places
    BY <1>0, <1>1 DEF Places
  <1>3. Held(n)' = element
    BY <1>1 DEF Held
  <1>4. \A k \in Places : Held(k)' = Held(k)
    <2> SUFFICES ASSUME NEW k \in Places PROVE Held(k)' = Held(k)
      OBVIOUS
    <2>1. k \in DOMAIN heapList /\ k # n
      BY <1>0, <1>1 DEF Places
    <2> QED BY <1>1, <2>1 DEF Held, Put
  <1>5. HeldKnown'
    BY <1>2, <1>3, <1>4 DEF HeldKnown
  <1>6. \A e : withNow(e) = IF e = element THEN with(e) \cup {n} ELSE with(e)
    BY <1>2, <1>3, <1>4 DEF WithValue, HeldNow
  <1>7. Cardinality(with(element) \cup {n}) = Cardinality(with(element)) + 1
    <2>1. n \notin with(element) /\ IsFiniteSet(with(element))
      BY <1>2, PlacesFinite DEF WithValue
    <2> QED BY <2>1, FS_AddElement
  <1>8. Contents' = [e \in Elements |-> Cardinality(withNow(e))]
    BY DEF Contents
  <1> HIDE DEF with, withNow
  <1>9. Contents = [e \in Elements |-> Cardinality(with(e))]
    BY ContentsAre DEF with
  <1>10. Contents' = [Contents EXCEPT ![element] = @ + 1]
    BY <1>6, <1>7, <1>8, <1>9
  <1> QED BY <1>1, <1>5, <1>10 DEF Bag!Insert

LEMMA DelMinIsDelMin ==
    ASSUME HeapInv, HeldKnown, DelMin
    PROVE  HeldKnown' /\ Bag!DelMin
  <1> DEFINE n == currentSize
             least == heapList[1]
             mid == [k \in Places |-> IF k = 1 THEN heapList[n] ELSE IF k = n THEN least ELSE heapList[k]]
             with(e) == WithValue(HeldNow, e)
             withMid(e) == WithValue(mid, e)
             withNow(e) == {k \in Places' : Held(k)' = e}
  <1>1. /\ n \in Nat \ {0} /\ percolating = "no" /\ DOMAIN heapList = 0 .. n
        /\ heapList' = Put(Put(heapList, 1, heapList[n]), n, 0) /\ hole' = 1 /\ newVal' = heapList'[1]
        /\ currentSize' = n - 1 /\ percolating' = "down" /\ retVal' = least
    BY DEF HeapInv, HeapTypeOK, DelMin
  <1>2. \A k \in Places : Held(k) = heapList[k] /\ k \in Nat /\ HeldNow[k] = heapList[k] /\ heapList[k] \in Nat
    BY <1>1 DEF Held, HeldNow, Places, HeapInv, HeapTypeOK
  <1>3. 1 \in Places /\ n \in Places /\ Places' = Places \ {n} /\ least \in Elements
    <2>1. 1 \in Places /\ n \in Places /\ Places' = Places \ {n}
      BY <1>1 DEF Places
    <2> QED BY <1>2, <2>1 DEF HeldKnown
  <1>4. mid[1] = HeldNow[n] /\ mid[n] = HeldNow[1] /\ \A k \in Places : k # 1 /\ k # n => mid[k] = HeldNow[k]
    BY <1>2, <1>3
  <1>5. \A k \in Places' : Held(k)' = mid[k]
    <2> SUFFICES ASSUME NEW k \in Places, k # n PROVE Held(k)' = mid[k]
      BY <1>3
    <2>1. Held(k)' = heapList'[k]
      BY <1>1 DEF Held
    <2>2. 1 \in DOMAIN heapList /\ n \in DOMAIN heapList /\ k \in DOMAIN heapList
      BY <1>1 DEF Places
    <2>3. heapList'[k] = Put(heapList, 1, heapList[n])[k]
      BY <1>1, <2>2 DEF Put
    <2>4. Put(heapList, 1, heapList[n])[k] = IF k = 1 THEN heapList[n] ELSE heapList[k]
      BY <2>2 DEF Put
    <2> QED BY <2>1, <2>3, <2>4
  <1>6. \A k \in Places : mid[k] \in Elements
    BY <1>2, <1>3 DEF HeldKnown
  <1>7. HeldKnown'
    BY <1>3, <1>5, <1>6 DEF HeldKnown
  <1> HIDE DEF mid
  <1>8. \A e : Cardinality(withMid(e)) = Cardinality(with(e)) /\ IsFiniteSet(withMid(e)) /\ Cardinality(withMid(e)) \in Nat
    BY <1>3, <1>4, ExchangeKeepsCounts, PlacesFinite
  <1>9. mid[n] = least /\ n \in withMid(least)
    BY <1>2, <1>3, <1>4 DEF WithValue
  <1>10. \A e : withNow(e) = IF e = least THEN withMid(e) \ {n} ELSE withMid(e)
    BY <1>3, <1>5, <1>9 DEF WithValue
  <1>11. Cardinality(withMid(least) \ {n}) = Cardinality(withMid(least)) - 1
    BY <1>8, <1>9, FS_RemoveElement
  <1>12. Cardinality(with(least)) > 0
    <2>1. Cardinality(withMid(least)) # 0
      BY <1>8, <1>9, FS_EmptySet
    <2> QED BY <1>8, <2>1
  <1>13. Contents' = [e \in Elements |-> Cardinality(withNow(e))]
    BY DEF Contents
  <1>14. Contents = [e \in Elements |-> Cardinality(with(e))]
    BY ContentsAre
  <1>15. \A other \in Bag!There : least <= other
    <2> SUFFICES ASSUME NEW other \in Elements, Cardinality(with(other)) > 0 PROVE least <= other
      BY <1>14 DEF Bag!There
    <2>1. with(other) # {}
      BY FS_EmptySet
    <2>2. PICK k \in Places : heapList[k] = other
      BY <1>2, <2>1 DEF WithValue
    <2> QED BY <1>1, <2>2, OrderMakesMinFirst DEF MinFirst
  <1>16. least \in Bag!There
    BY <1>3, <1>12, <1>14 DEF Bag!There
  <1> HIDE DEF n, least, with, withMid, withNow
  <1>17. Contents' = [Contents EXCEPT ![least] = @ - 1]
    BY <1>8, <1>10, <1>11, <1>13, <1>14
  <1> QED BY <1>1, <1>7, <1>15, <1>16, <1>17 DEF Bag!DelMin

LEMMA HeldKnownHolds == HeapSpec => []HeldKnown
  <1>1. HeapInit => HeldKnown
    BY DEF HeapInit, HeldKnown, Places
  <1>2. HeapInv /\ HeldKnown /\ [HeapNext]_heapVars => HeldKnown'
    <2> SUFFICES ASSUME HeapInv, HeldKnown, [HeapNext]_heapVars PROVE HeldKnown'
      OBVIOUS
    <2>1. CASE UNCHANGED heapVars
      BY <2>1 DEF heapVars, HeldKnown, Places, Held
    <2> QED BY <2>1, InsertIsInsert, DelMinIsDelMin, LoopsKeepContents DEF HeapNext
  <1> QED BY <1>1, <1>2, HeapInvHolds, PTL DEF HeapSpec

\* The heap is a priority queue: whatever the elements and however many, no element is lost or
\* doubled on its way through the array, and each removal gives back a smallest one.
THEOREM HeapIsBag == HeapSpec => IsPriorityBag
  <1>1. HeapInit => Bag!Init
    <2> SUFFICES ASSUME HeapInit PROVE Contents = [e \in Elements |-> 0] /\ retVal = 0
      BY DEF Bag!Init
    <2>1. \A e : {k \in Places : Held(k) = e} = {}
      BY DEF HeapInit, Places
    <2> QED BY <2>1, FS_EmptySet DEF HeapInit, Contents
  <1>2. HeapInv /\ HeldKnown /\ [HeapNext]_heapVars => [Bag!Next]_<<Contents, retVal>>
    <2> SUFFICES ASSUME HeapInv, HeldKnown, [HeapNext]_heapVars PROVE Bag!Next \/ UNCHANGED <<Contents, retVal>>
      OBVIOUS
    <2>1. CASE UNCHANGED heapVars
      BY <2>1 DEF heapVars, Contents, Places, Held
    <2> QED BY <2>1, InsertIsInsert, DelMinIsDelMin, LoopsKeepContents DEF HeapNext, Bag!Next
  <1> QED BY <1>1, <1>2, HeapInvHolds, HeldKnownHolds, PTL DEF HeapSpec, IsPriorityBag, Bag!Spec

----------------------------------------------------------------------------
(* Batches of exits. *)

Priorities == [exitableAt : 0 .. ProcessTime + (2 * MinExitPeriod), exitId : QueuedIds]
Served(p) == [priority |-> p, processor |-> GameOf[p.exitId]]
Games == {GameOf[i] : i \in QueuedIds}

\* The queues, and who enqueued what is in them: the game whose exit it is.
QueuesFit(queues, games) ==
    /\ queues \in [Queues -> SUBSET Priorities] /\ \A k \in Queues : IsFiniteSet(queues[k])
    /\ DOMAIN games = {e \in Queues \X Priorities : e[2] \in queues[e[1]]}
    /\ \A e \in DOMAIN games : games[e] = GameOf[e[2].exitId]

IsFirst(p, queue) == p \in queue /\ \A q \in queue \ {p} : Before(p, q)

SavedAs(queues, games) == [exitsQueues |-> queues, delegations |-> games, mutex |-> FALSE]

CallOf(k, top, n, processed, p, pc, queues, games) ==
    [queue |-> k, topExitId |-> top, maxExits |-> n, processed |-> processed, priority |-> p,
     processor |-> GameOf[p.exitId], pc |-> pc,
     saved |-> SavedAs(queues, games)]

Paid(processed, n) == \A i \in 1 .. n : processed[i].priority.exitId \notin refusing

\* What a call has taken is the first of what the queue was, in order.
Taken(processed) == {processed[i].priority : i \in DOMAIN processed}
TookFirst(k, processed, queues) ==
    /\ Taken(processed) \subseteq queues[k]
    /\ exitsQueues = [queues EXCEPT ![k] = @ \ Taken(processed)]
    /\ \A i \in DOMAIN processed : processed[i].priority.exitableAt < clock
    /\ \A i, j \in DOMAIN processed : i < j => Before(processed[i].priority, processed[j].priority)
    /\ \A i \in DOMAIN processed : \A q \in exitsQueues[k] : Before(processed[i].priority, q)

Where(k, processed, p, pc) ==
    \/ pc = "loop" /\ IsFirst(p, exitsQueues[k]) /\ Paid(processed, Len(processed))
    \/ /\ pc = "paying" /\ processed # <<>> /\ p = processed[Len(processed)].priority
       /\ Paid(processed, Len(processed) - 1)
    \/ pc = "end" /\ exitsQueues[k] = {} /\ Paid(processed, Len(processed))

CallFits(k, top, n, processed, p, pc, queues, games) ==
    /\ QueuesFit(queues, games)
    /\ TookFirst(k, processed, queues)
    /\ Len(processed) <= n
    /\ \E head : IsFirst(head, queues[k]) /\ top \in {AnyExit, head.exitId}
    /\ Where(k, processed, p, pc)

\* What a call has paid out, and a call that is on its way.
Lists == Seq({Served(p) : p \in Priorities})

InCallWith(k, top, n, processed, p, pc, queues, games) ==
    /\ calls = <<CallOf(k, top, n, processed, p, pc, queues, games)>>
    /\ CallFits(k, top, n, processed, p, pc, queues, games)

InCall ==
    \E k \in Queues, top \in Nat, n \in Nat, processed \in Lists, p \in Priorities : \E pc, queues, games :
        InCallWith(k, top, n, processed, p, pc, queues, games)

ProcessInv ==
    /\ clock \in 0 .. ProcessTime
    /\ QueuesFit(exitsQueues, delegations)
    /\ IF mutex THEN InCall ELSE calls = <<>>
    /\ mutex \in BOOLEAN

LEMMA PriorityFields ==
    \A p \in Priorities : /\ p = [exitableAt |-> p.exitableAt, exitId |-> p.exitId]
                          /\ p.exitableAt \in Nat /\ p.exitId \in Nat \ {0} /\ p.exitId \in QueuedIds
  <1> SUFFICES ASSUME NEW p \in Priorities
               PROVE  /\ p = [exitableAt |-> p.exitableAt, exitId |-> p.exitId]
                      /\ p.exitableAt \in Nat /\ p.exitId \in Nat \ {0} /\ p.exitId \in QueuedIds
    OBVIOUS
  <1> DEFINE last == ProcessTime + (2 * MinExitPeriod)
  <1>1. p \in [exitableAt : 0 .. last, exitId : QueuedIds]
    BY DEF Priorities
  <1> HIDE DEF last
  <1>2. p = [exitableAt |-> p.exitableAt, exitId |-> p.exitId]
    BY <1>1
  <1>3. p.exitableAt \in 0 .. last /\ p.exitId \in QueuedIds
    BY <1>1
  <1> QED BY <1>2, <1>3, QueuedAssumption

LEMMA BeforeOrders ==
    /\ \A p, q \in Priorities : p = q \/ Before(p, q) \/ Before(q, p)
    /\ \A p, q \in Priorities : ~ (Before(p, q) /\ Before(q, p)) /\ ~ Before(p, p)
    /\ \A p, q, r \in Priorities : Before(p, q) /\ Before(q, r) => Before(p, r)
  <1>1. ASSUME NEW p \in Priorities, NEW q \in Priorities PROVE p = q \/ Before(p, q) \/ Before(q, p)
    <2>1. CASE p.exitableAt = q.exitableAt /\ p.exitId = q.exitId
      BY <2>1, PriorityFields
    <2>2. CASE ~ (p.exitableAt = q.exitableAt /\ p.exitId = q.exitId)
      BY <2>2, PriorityFields DEF Before
    <2> QED BY <2>1, <2>2
  <1>2. \A p, q \in Priorities : ~ (Before(p, q) /\ Before(q, p)) /\ ~ Before(p, p)
    BY PriorityFields DEF Before
  <1>3. \A p, q, r \in Priorities : Before(p, q) /\ Before(q, r) => Before(p, r)
    BY PriorityFields DEF Before
  <1> QED BY <1>1, <1>2, <1>3

LEMMA SmallestOf ==
    ASSUME NEW S, S \subseteq Nat, S # {}
    PROVE  \E m \in S : \A s \in S : m <= s
  <1>1. PICK m \in S : \A s \in S : ~ (<<s, m>> \in OpToRel(<, Nat))
    BY NatLessThanWellFounded, WFMin
  <1>2. \A s \in S : m <= s
    <2> SUFFICES ASSUME NEW s \in S, s < m PROVE FALSE
      OBVIOUS
    <2>1. <<s, m>> \in OpToRel(<, Nat)
      BY DEF OpToRel
    <2> QED BY <1>1, <2>1
  <1> QED BY <1>2

LEMMA GetMinIs ==
    ASSUME NEW queue, queue \subseteq Priorities, queue # {}
    PROVE  IsFirst(GetMin(queue), queue) /\ \A p : IsFirst(p, queue) => p = GetMin(queue)
  <1> DEFINE times == {p.exitableAt : p \in queue}
  <1>1. PICK a \in times : \A b \in times : a <= b
    <2>1. times \subseteq Nat /\ times # {}
      BY PriorityFields
    <2> HIDE DEF times
    <2> QED BY <2>1, SmallestOf
  <1> DEFINE ids == {p.exitId : p \in {q \in queue : q.exitableAt = a}}
  <1>2. PICK i \in ids : \A j \in ids : i <= j
    <2>1. ids \subseteq Nat /\ ids # {}
      BY PriorityFields
    <2> HIDE DEF ids
    <2> QED BY <2>1, SmallestOf
  <1>3. PICK p \in queue : p.exitableAt = a /\ p.exitId = i
    BY <1>2
  <1>4. \A q \in queue \ {p} : Before(p, q)
    <2> SUFFICES ASSUME NEW q \in queue \ {p} PROVE Before(p, q)
      OBVIOUS
    <2>1. p.exitableAt <= q.exitableAt /\ (q.exitableAt = a => p.exitId <= q.exitId)
      BY <1>1, <1>2, <1>3
    <2>2. ~ Before(q, p)
      BY <1>3, <2>1, PriorityFields DEF Before
    <2> QED BY <2>2, BeforeOrders
  <1>5. IsFirst(GetMin(queue), queue)
    BY <1>4 DEF GetMin, IsFirst
  <1>6. ASSUME NEW q, IsFirst(q, queue) PROVE q = GetMin(queue)
    BY <1>5, <1>6, BeforeOrders DEF IsFirst
  <1> QED BY <1>5, <1>6

\* A queue loses an entry.
LEMMA RemoveFits ==
    ASSUME NEW queues, NEW games, QueuesFit(queues, games), NEW k \in Queues, NEW p \in Priorities
    PROVE  QueuesFit([queues EXCEPT ![k] = @ \ {p}], [e \in DOMAIN games \ {<<k, p>>} |-> games[e]])
  <1> DEFINE less == [queues EXCEPT ![k] = @ \ {p}]
             rest == [e \in DOMAIN games \ {<<k, p>>} |-> games[e]]
  <1>1. less \in [Queues -> SUBSET Priorities] /\ less[k] = queues[k] \ {p} /\ \A l \in Queues \ {k} : less[l] = queues[l]
    BY DEF QueuesFit
  <1>2. \A l \in Queues : IsFiniteSet(less[l])
    <2>1. IsFiniteSet(queues[k] \ {p})
      BY FS_RemoveElement DEF QueuesFit
    <2> QED BY <1>1, <2>1 DEF QueuesFit
  <1>3. DOMAIN rest = {e \in Queues \X Priorities : e[2] \in less[e[1]]}
    <2>1. \A e \in Queues \X Priorities : e = <<k, p>> <=> (e[1] = k /\ e[2] = p)
      OBVIOUS
    <2> QED BY <1>1, <2>1 DEF QueuesFit
  <1>4. \A e \in DOMAIN rest : rest[e] = GameOf[e[2].exitId]
    BY DEF QueuesFit
  <1> HIDE DEF less, rest
  <1>5. QueuesFit(less, rest)
    BY <1>1, <1>2, <1>3, <1>4 DEF QueuesFit
  <1> QED BY <1>5 DEF less, rest

LEMMA AddFits ==
    ASSUME NEW queues, NEW games, QueuesFit(queues, games), NEW k \in Queues, NEW p \in Priorities
    PROVE  QueuesFit([queues EXCEPT ![k] = @ \cup {p}],
                     [e \in DOMAIN games \cup {<<k, p>>} |-> IF e = <<k, p>> THEN GameOf[p.exitId] ELSE games[e]])
  <1> DEFINE more == [queues EXCEPT ![k] = @ \cup {p}]
             all == [e \in DOMAIN games \cup {<<k, p>>} |-> IF e = <<k, p>> THEN GameOf[p.exitId] ELSE games[e]]
  <1>1. more \in [Queues -> SUBSET Priorities] /\ more[k] = queues[k] \cup {p} /\ \A l \in Queues \ {k} : more[l] = queues[l]
    BY DEF QueuesFit
  <1>2. \A l \in Queues : IsFiniteSet(more[l])
    <2>1. IsFiniteSet(queues[k] \cup {p})
      BY FS_AddElement DEF QueuesFit
    <2> QED BY <1>1, <2>1 DEF QueuesFit
  <1>3. DOMAIN all = {e \in Queues \X Priorities : e[2] \in more[e[1]]}
    <2>1. \A e \in Queues \X Priorities : e = <<k, p>> <=> (e[1] = k /\ e[2] = p)
      OBVIOUS
    <2>2. <<k, p>> \in Queues \X Priorities
      OBVIOUS
    <2> QED BY <1>1, <2>1, <2>2 DEF QueuesFit
  <1>4. \A e \in DOMAIN all : all[e] = GameOf[e[2].exitId]
    BY DEF QueuesFit
  <1> HIDE DEF more, all
  <1>5. QueuesFit(more, all)
    BY <1>1, <1>2, <1>3, <1>4 DEF QueuesFit
  <1> QED BY <1>5 DEF more, all

LEMMA ListFacts ==
    ASSUME NEW processed \in Lists
    PROVE  /\ Len(processed) \in Nat /\ DOMAIN processed = 1 .. Len(processed)
           /\ \A i \in DOMAIN processed : /\ processed[i].priority \in Priorities
                                          /\ processed[i] = Served(processed[i].priority)
           /\ Taken(processed) \subseteq Priorities
  <1>1. Len(processed) \in Nat /\ DOMAIN processed = 1 .. Len(processed)
    BY DEF Lists
  <1>2. ASSUME NEW i \in DOMAIN processed
        PROVE  processed[i].priority \in Priorities /\ processed[i] = Served(processed[i].priority)
    <2>1. processed[i] \in {Served(p) : p \in Priorities}
      BY DEF Lists
    <2>2. PICK p \in Priorities : processed[i] = Served(p)
      BY <2>1
    <2>3. Served(p).priority = p
      BY DEF Served
    <2> QED BY <2>2, <2>3
  <1> QED BY <1>1, <1>2 DEF Taken

LEMMA AppendFacts ==
    ASSUME NEW processed \in Lists, NEW p \in Priorities
    PROVE  LET more == Append(processed, Served(p))
           IN  /\ more \in Lists /\ Len(more) = Len(processed) + 1
               /\ more[Len(processed) + 1] = Served(p) /\ \A i \in DOMAIN processed : more[i] = processed[i]
               /\ DOMAIN more = DOMAIN processed \cup {Len(processed) + 1}
               /\ Taken(more) = Taken(processed) \cup {p}
  <1> DEFINE more == Append(processed, Served(p))
             n == Len(processed)
  <1>1. /\ more \in Lists /\ Len(more) = n + 1 /\ n \in Nat
        /\ more[n + 1] = Served(p) /\ \A i \in DOMAIN processed : more[i] = processed[i]
        /\ DOMAIN more = 1 .. n + 1 /\ DOMAIN processed = 1 .. n
    BY DEF Lists
  <1>2. DOMAIN more = DOMAIN processed \cup {n + 1}
    BY <1>1
  <1>3. Served(p).priority = p
    BY DEF Served
  <1> HIDE DEF more, n
  <1>4. Taken(more) = Taken(processed) \cup {p}
    BY <1>1, <1>2, <1>3 DEF Taken
  <1> QED BY <1>1, <1>2, <1>4 DEF more, n

LEMMA CallIs ==
    ASSUME NEW c, calls = <<c>>
    PROVE  Call = c /\ Front(calls) = <<>> /\ calls # <<>> /\ Len(calls) = 1 /\ calls[1] = c /\ Goes(c) = (calls' = <<c>>)
           /\ \A d : Goes(d) <=> calls' = <<d>>
  <1>1. Len(calls) = 1 /\ calls[1] = c
    OBVIOUS
  <1>2. Call = c
    BY <1>1 DEF Call, Last
  <1>3. Front(calls) = <<>>
    BY <1>1 DEF Front
  <1>4. \A d : Append(<<>>, d) = <<d>>
    OBVIOUS
  <1> QED BY <1>1, <1>2, <1>3, <1>4 DEF Goes

LEMMA CallFields ==
    ASSUME NEW k, NEW top, NEW n, NEW processed, NEW p, NEW pc, NEW queues, NEW games, NEW c,
           c = CallOf(k, top, n, processed, p, pc, queues, games)
    PROVE  /\ c.queue = k /\ c.topExitId = top /\ c.maxExits = n /\ c.processed = processed /\ c.priority = p
           /\ c.processor = GameOf[p.exitId] /\ c.pc = pc /\ c.saved = SavedAs(queues, games)
  BY DEF CallOf

GoneTo(c, l) == [c EXCEPT !.pc = l]
HasTaken(c, more, l) == [c EXCEPT !.processed = more, !.pc = l]
LooksAt(c, q, game, l) == [c EXCEPT !.priority = q, !.processor = game, !.pc = l]

LEMMA CallGoes ==
    ASSUME NEW k, NEW top, NEW n, NEW processed, NEW p, NEW pc, NEW queues, NEW games, NEW c, NEW l,
           c = CallOf(k, top, n, processed, p, pc, queues, games)
    PROVE  GoneTo(c, l) = CallOf(k, top, n, processed, p, l, queues, games)
  BY DEF CallOf, GoneTo

LEMMA CallTakes ==
    ASSUME NEW k, NEW top, NEW n, NEW processed, NEW p, NEW pc, NEW queues, NEW games, NEW c, NEW l, NEW more,
           c = CallOf(k, top, n, processed, p, pc, queues, games)
    PROVE  HasTaken(c, more, l) = CallOf(k, top, n, more, p, l, queues, games)
  <1>1. PICK d : d = CallOf(k, top, n, more, p, pc, queues, games)
    OBVIOUS
  <1>2. [c EXCEPT !.processed = more] = d
    BY <1>1 DEF CallOf
  <1>3. HasTaken(c, more, l) = GoneTo(d, l)
    BY <1>2, Zenon DEF HasTaken, GoneTo
  <1> QED BY <1>1, <1>3, CallGoes

LEMMA CallLooksAt ==
    ASSUME NEW k, NEW top, NEW n, NEW processed, NEW p, NEW pc, NEW queues, NEW games, NEW c, NEW l, NEW q,
           c = CallOf(k, top, n, processed, p, pc, queues, games)
    PROVE  LooksAt(c, q, GameOf[q.exitId], l) = CallOf(k, top, n, processed, q, l, queues, games)
  <1> DEFINE g == GameOf[q.exitId]
             f == GameOf[p.exitId]
             s == SavedAs(queues, games)
  <1>1. c = [queue |-> k, topExitId |-> top, maxExits |-> n, processed |-> processed, priority |-> p,
             processor |-> f, pc |-> pc, saved |-> s]
    BY DEF CallOf
  <1>2. PICK d : d = [queue |-> k, topExitId |-> top, maxExits |-> n, processed |-> processed, priority |-> q,
                      processor |-> f, pc |-> pc, saved |-> s]
    OBVIOUS
  <1>3. PICK e : e = [queue |-> k, topExitId |-> top, maxExits |-> n, processed |-> processed, priority |-> q,
                      processor |-> g, pc |-> pc, saved |-> s]
    OBVIOUS
  <1>4. e = CallOf(k, top, n, processed, q, pc, queues, games)
    BY <1>3 DEF CallOf
  <1> HIDE DEF f, g, s
  <1>5. [c EXCEPT !.priority = q] = d
    BY <1>1, <1>2
  <1>6. [d EXCEPT !.processor = g] = e
    BY <1>2, <1>3
  <1>7. LooksAt(c, q, g, l) = GoneTo(e, l)
    BY <1>5, <1>6, Zenon DEF LooksAt, GoneTo
  <1>8. GoneTo(e, l) = CallOf(k, top, n, processed, q, l, queues, games)
    BY <1>4, CallGoes
  <1> QED BY <1>7, <1>8 DEF g

LEMMA InACall ==
    ASSUME ProcessInv, calls # <<>>
    PROVE  /\ mutex = TRUE
           /\ \E k \in Queues, top \in Nat, n \in Nat, processed \in Lists, p \in Priorities : \E pc, queues, games :
                 InCallWith(k, top, n, processed, p, pc, queues, games)
  BY DEF ProcessInv, InCall

LEMMA OutsideCalls ==
    ASSUME ProcessInv, calls = <<>> \/ ~ mutex
    PROVE  calls = <<>> /\ mutex = FALSE
  <1>1. CASE mutex
    <2>1. InCall
      BY <1>1 DEF ProcessInv
    <2>2. calls # <<>>
      <3>1. PICK c : calls = <<c>>
        BY <2>1 DEF InCall, InCallWith
      <3> QED BY <3>1, CallIs
    <2> QED BY <1>1, <2>2
  <1>2. CASE ~ mutex
    BY <1>2 DEF ProcessInv
  <1> QED BY <1>1, <1>2

\* The state after a step of a call, and after its end.
LEMMA StaysInCall ==
    ASSUME NEW k \in Queues, NEW top \in Nat, NEW n \in Nat, NEW processed \in Lists, NEW p \in Priorities, NEW pc,
           NEW queues, NEW games,
           InCallWith(k, top, n, processed, p, pc, queues, games)',
           QueuesFit(exitsQueues', delegations'), clock' \in 0 .. ProcessTime, mutex' = TRUE
    PROVE  ProcessInv'
  <1>1. InCall'
    BY DEF InCall
  <1> QED BY <1>1 DEF ProcessInv

LEMMA IsOver ==
    ASSUME QueuesFit(exitsQueues', delegations'), clock' \in 0 .. ProcessTime, mutex' = FALSE, calls' = <<>>
    PROVE  ProcessInv'
  BY DEF ProcessInv

LEMMA InitFits == ProcessInit => ProcessInv
  <1> SUFFICES ASSUME ProcessInit PROVE ProcessInv
    OBVIOUS
  <1>1. QueuesFit(exitsQueues, delegations)
    <2>1. DOMAIN delegations = {}
      BY DEF ProcessInit
    <2>2. exitsQueues \in [Queues -> SUBSET Priorities] /\ \A k \in Queues : exitsQueues[k] = {}
      BY DEF ProcessInit
    <2> QED BY <2>1, <2>2, FS_EmptySet DEF QueuesFit
  <1>2. 0 \in 0 .. ProcessTime
    BY QueuedAssumption
  <1> QED BY <1>1, <1>2 DEF ProcessInit, ProcessInv

LEMMA TickFits == ProcessInv /\ ProcessTick => ProcessInv'
  <1> SUFFICES ASSUME ProcessInv, ProcessTick PROVE ProcessInv'
    OBVIOUS
  <1>1. calls' = <<>> /\ mutex' = FALSE /\ exitsQueues' = exitsQueues /\ delegations' = delegations
    BY OutsideCalls DEF ProcessTick
  <1>2. clock' \in 0 .. ProcessTime
    BY QueuedAssumption DEF ProcessTick, TimePasses, ProcessInv
  <1> QED BY <1>1, <1>2, IsOver DEF ProcessInv

LEMMA RefuseFits == ProcessInv /\ Refuse => ProcessInv'
  <1> SUFFICES ASSUME ProcessInv, Refuse PROVE ProcessInv'
    OBVIOUS
  <1>1. calls' = <<>> /\ mutex' = FALSE /\ exitsQueues' = exitsQueues /\ delegations' = delegations /\ clock' = clock
    BY OutsideCalls DEF Refuse
  <1> QED BY <1>1, IsOver DEF ProcessInv

LEMMA NewPriority ==
    ASSUME ProcessInv, NEW exitId \in QueuedIds, NEW periods \in {1, 2}
    PROVE  /\ [exitableAt |-> clock + (periods * MinExitPeriod), exitId |-> exitId] \in Priorities
           /\ clock + (periods * MinExitPeriod) > clock
  <1>1. clock \in Nat /\ clock <= ProcessTime /\ MinExitPeriod \in Nat \ {0}
    BY QueuedAssumption, PeriodAssumption DEF ProcessInv
  <1> DEFINE t == clock + (periods * MinExitPeriod)
             last == ProcessTime + (2 * MinExitPeriod)
  <1>2. t \in 0 .. last /\ t > clock
    <2>1. CASE periods = 1
      BY <1>1, <2>1, QueuedAssumption
    <2>2. CASE periods = 2
      BY <1>1, <2>2, QueuedAssumption
    <2> QED BY <2>1, <2>2
  <1> HIDE DEF t
  <1>3. [exitableAt |-> t, exitId |-> exitId] \in Priorities
    BY <1>2 DEF Priorities
  <1> QED BY <1>2, <1>3 DEF t

LEMMA EnqueueFits ==
    ASSUME ProcessInv, NEW k \in Queues, NEW exitId \in QueuedIds, NEW periods \in {1, 2},
           EnqueueExit(k, clock + (periods * MinExitPeriod), exitId)
    PROVE  ProcessInv'
  <1> DEFINE t == clock + (periods * MinExitPeriod)
             p == [exitableAt |-> t, exitId |-> exitId]
  <1>1. p \in Priorities /\ p.exitId = exitId
    BY NewPriority
  <1>2. /\ ~ mutex
        /\ exitsQueues' = [exitsQueues EXCEPT ![k] = @ \cup {p}]
        /\ delegations' = [e \in DOMAIN delegations \cup {<<k, p>>} |->
                              IF e = <<k, p>> THEN GameOf[exitId] ELSE delegations[e]]
        /\ clock' = clock /\ mutex' = mutex /\ calls' = calls
    BY DEF EnqueueExit
  <1> HIDE DEF p, t
  <1>3. QueuesFit(exitsQueues', delegations')
    <2>1. QueuesFit(exitsQueues, delegations) /\ GameOf[exitId] = GameOf[p.exitId]
      BY <1>1 DEF ProcessInv
    <2>2. QueuesFit([exitsQueues EXCEPT ![k] = @ \cup {p}],
                    [e \in DOMAIN delegations \cup {<<k, p>>} |->
                       IF e = <<k, p>> THEN GameOf[p.exitId] ELSE delegations[e]])
      BY <1>1, <2>1, AddFits
    <2> QED BY <1>2, <2>1, <2>2
  <1>4. mutex' = FALSE /\ calls' = <<>>
    BY <1>2, OutsideCalls
  <1> QED BY <1>2, <1>3, <1>4, IsOver DEF ProcessInv

(* What is seen of a call from outside. *)

EntryOf(k, p) == [queue |-> k, priority |-> p, processor |-> GameOf[p.exitId]]
PendingOf(games) == {[queue |-> e[1], priority |-> e[2], processor |-> games[e]] : e \in DOMAIN games}

LEMMA EntryFields ==
    ASSUME NEW k, NEW p
    PROVE  EntryOf(k, p).queue = k /\ EntryOf(k, p).priority = p /\ EntryOf(k, p).processor = GameOf[p.exitId]
  BY DEF EntryOf

LEMMA PendingIs ==
    ASSUME NEW queues, NEW games, QueuesFit(queues, games)
    PROVE  PendingOf(games) = UNION {{EntryOf(k, p) : p \in queues[k]} : k \in Queues}
  <1>1. /\ queues \in [Queues -> SUBSET Priorities] /\ \A e \in DOMAIN games : games[e] = GameOf[e[2].exitId]
        /\ DOMAIN games = {e \in Queues \X Priorities : e[2] \in queues[e[1]]}
    BY DEF QueuesFit
  <1>2. ASSUME NEW entry \in PendingOf(games) PROVE \E k \in Queues : \E p \in queues[k] : entry = EntryOf(k, p)
    <2>1. PICK e \in DOMAIN games : entry = [queue |-> e[1], priority |-> e[2], processor |-> games[e]]
      BY DEF PendingOf
    <2>2. entry = EntryOf(e[1], e[2]) /\ e[1] \in Queues /\ e[2] \in queues[e[1]]
      BY <1>1, <2>1 DEF EntryOf
    <2> QED BY <2>2
  <1>3. ASSUME NEW k \in Queues, NEW p \in queues[k] PROVE EntryOf(k, p) \in PendingOf(games)
    <2>1. p \in Priorities
      BY <1>1
    <2>2. <<k, p>> \in DOMAIN games
      BY <1>1, <2>1
    <2>3. games[<<k, p>>] = GameOf[p.exitId]
      BY <1>1, <2>2
    <2>4. EntryOf(k, p) = [queue |-> <<k, p>>[1], priority |-> <<k, p>>[2], processor |-> games[<<k, p>>]]
      BY <2>3 DEF EntryOf
    <2> QED BY <2>2, <2>4 DEF PendingOf
  <1> QED BY <1>2, <1>3

LEMMA NoCallPends ==
    ASSUME calls = <<>>
    PROVE  Pending = PendingOf(delegations)
  BY DEF Pending, PendingOf

LEMMA CallPends ==
    ASSUME NEW k, NEW top, NEW n, NEW processed, NEW p, NEW pc, NEW queues, NEW games,
           calls = <<CallOf(k, top, n, processed, p, pc, queues, games)>>
    PROVE  Pending = PendingOf(games)
  <1>1. calls # <<>> /\ calls[1] = CallOf(k, top, n, processed, p, pc, queues, games)
    BY CallIs
  <1>2. PICK c : c = CallOf(k, top, n, processed, p, pc, queues, games)
    OBVIOUS
  <1>3. c.saved = SavedAs(queues, games)
    BY <1>2, CallFields
  <1>4. SavedAs(queues, games).delegations = games
    BY DEF SavedAs
  <1>5. calls[1].saved.delegations = games
    BY <1>1, <1>2, <1>3, <1>4
  <1> QED BY <1>1, <1>5 DEF Pending, PendingOf

\* The same after a step.
LEMMA NoCallPendsThen ==
    ASSUME calls' = <<>>
    PROVE  Pending' = PendingOf(delegations')
  BY DEF Pending, PendingOf

LEMMA CallPendsThen ==
    ASSUME NEW k, NEW top, NEW n, NEW processed, NEW p, NEW pc, NEW queues, NEW games,
           calls' = <<CallOf(k, top, n, processed, p, pc, queues, games)>>
    PROVE  Pending' = PendingOf(games)
  <1>1. PICK c : c = CallOf(k, top, n, processed, p, pc, queues, games)
    OBVIOUS
  <1>2. calls' # <<>> /\ calls'[1] = c
    BY <1>1
  <1>3. c.saved = SavedAs(queues, games)
    BY <1>1, CallFields
  <1>4. SavedAs(queues, games).delegations = games
    BY DEF SavedAs
  <1>5. calls'[1].saved.delegations = games
    BY <1>2, <1>3, <1>4
  <1> QED BY <1>2, <1>5 DEF Pending, PendingOf

\* The call begins: nothing is taken, the head is looked at.
LEMMA StartFits ==
    ASSUME ProcessInv, NEW k \in Queues, NEW top \in QueuedIds \cup {AnyExit}, NEW n \in 1 .. MaxBatch,
           ProcessExits(k, top, n)
    PROVE  ProcessInv' /\ Pending' = Pending
  <1>0. PICK p, queues, games : p = GetMin(exitsQueues[k]) /\ queues = exitsQueues /\ games = delegations
    OBVIOUS
  <1>1. calls = <<>> /\ mutex = FALSE /\ QueuesFit(queues, games) /\ clock \in 0 .. ProcessTime
    BY <1>0, OutsideCalls DEF ProcessExits, ProcessInv
  <1>2. queues[k] # {} /\ queues[k] \subseteq Priorities
    BY <1>0, <1>1 DEF ProcessExits, Start, QueuesFit
  <1>3. IsFirst(p, queues[k]) /\ p \in Priorities
    BY <1>0, <1>2, GetMinIs DEF IsFirst
  <1>4. games[<<k, p>>] = GameOf[p.exitId]
    <2>1. <<k, p>> \in DOMAIN games
      BY <1>1, <1>3 DEF QueuesFit, IsFirst
    <2> QED BY <1>1, <2>1 DEF QueuesFit
  <1>5. Saved = SavedAs(queues, games)
    BY <1>0, <1>1 DEF Saved, SavedAs
  <1>6. calls' = <<CallOf(k, top, n, <<>>, p, "loop", queues, games)>>
    <2>1. calls' = Append(<<>>, [queue |-> k, topExitId |-> top, maxExits |-> n, processed |-> <<>>,
             priority |-> p, processor |-> games[<<k, p>>], pc |-> "loop", saved |-> Saved])
      BY <1>0, <1>1 DEF ProcessExits, Start
    <2>2. calls' = Append(<<>>, CallOf(k, top, n, <<>>, p, "loop", queues, games))
      BY <2>1, <1>4, <1>5 DEF CallOf
    <2> QED BY <2>2
  <1>7. /\ clock' = clock /\ exitsQueues' = queues /\ delegations' = games /\ refusing' = refusing
        /\ mutex' = TRUE /\ top \in {AnyExit, p.exitId}
    BY <1>0 DEF ProcessExits, Start
  <1>8. top \in Nat /\ n \in Nat /\ 0 <= n /\ <<>> \in Lists /\ Len(<<>>) = 0 /\ DOMAIN <<>> = {}
    BY QueuedAssumption DEF Lists, AnyExit
  <1>9. CallFits(k, top, n, <<>>, p, "loop", queues, games)'
    <2>1. TookFirst(k, <<>>, queues)'
      <3>1. Taken(<<>>) = {}
        BY <1>8 DEF Taken
      <3>2. queues = [queues EXCEPT ![k] = @ \ {}]
        BY <1>1 DEF QueuesFit
      <3> QED BY <1>7, <1>8, <3>1, <3>2 DEF TookFirst
    <2>2. Where(k, <<>>, p, "loop")'
      BY <1>3, <1>7, <1>8 DEF Where, Paid
    <2> QED BY <1>1, <1>3, <1>7, <1>8, <2>1, <2>2 DEF CallFits
  <1>10. InCallWith(k, top, n, <<>>, p, "loop", queues, games)'
    BY <1>6, <1>7, <1>9 DEF InCallWith
  <1>11. Pending' = Pending
    BY <1>0, <1>1, <1>6, NoCallPends, CallPendsThen
  <1> QED BY <1>1, <1>3, <1>7, <1>8, <1>10, <1>11, StaysInCall

\* The head leaves its queue.
LEMMA TakeFits == ProcessInv /\ TakeHead => ProcessInv' /\ Pending' = Pending
  <1> SUFFICES ASSUME ProcessInv, TakeHead PROVE ProcessInv' /\ Pending' = Pending
    OBVIOUS
  <1>0. calls # <<>> /\ Call.pc = "loop" /\ TakesNext
    BY DEF TakeHead, InLoop
  <1>1. PICK k \in Queues, top \in Nat, n \in Nat, processed \in Lists, p \in Priorities : \E pc, queues, games :
          InCallWith(k, top, n, processed, p, pc, queues, games)
    BY <1>0, InACall
  <1>2. PICK pc, queues, games : InCallWith(k, top, n, processed, p, pc, queues, games)
    BY <1>1
  <1>3. PICK c : c = CallOf(k, top, n, processed, p, pc, queues, games)
    OBVIOUS
  <1>4. Call = c /\ calls = <<c>> /\ \A d : Goes(d) <=> calls' = <<d>>
    BY <1>2, <1>3, CallIs DEF InCallWith
  <1>5. /\ c.queue = k /\ c.maxExits = n /\ c.processed = processed /\ c.priority = p
        /\ c.processor = GameOf[p.exitId] /\ c.pc = pc
    BY <1>3, CallFields
  <1> DEFINE more == Append(processed, Served(p))
  <1>6. /\ pc = "loop" /\ Len(processed) < n /\ p.exitableAt < clock
    BY <1>0, <1>4, <1>5 DEF TakesNext
  <1>7. /\ QueuesFit(queues, games) /\ TookFirst(k, processed, queues)
        /\ \E head : IsFirst(head, queues[k]) /\ top \in {AnyExit, head.exitId}
        /\ IsFirst(p, exitsQueues[k]) /\ Paid(processed, Len(processed))
    BY <1>2, <1>6 DEF InCallWith, CallFits, Where
  <1>8. QueuesFit(exitsQueues, delegations) /\ exitsQueues[k] \subseteq Priorities /\ exitsQueues[k] # {}
        /\ clock \in 0 .. ProcessTime /\ mutex = TRUE
    BY <1>0, <1>7, InACall DEF ProcessInv, QueuesFit, IsFirst
  <1>9. GetMin(exitsQueues[k]) = p
    BY <1>7, <1>8, GetMinIs
  <1>10. /\ delegations' = [e \in DOMAIN delegations \ {<<k, p>>} |-> delegations[e]]
         /\ exitsQueues' = [exitsQueues EXCEPT ![k] = @ \ {p}]
         /\ clock' = clock /\ mutex' = mutex /\ refusing' = refusing
    BY <1>4, <1>5, <1>9 DEF TakeHead
  <1>11. QueuesFit(exitsQueues', delegations')
    BY <1>8, <1>10, RemoveFits
  <1>12. calls' = <<CallOf(k, top, n, more, p, "paying", queues, games)>>
    <2>1. Goes([c EXCEPT !.processed = Append(@, [priority |-> c.priority, processor |-> c.processor]),
                         !.pc = "paying"])
      BY <1>4 DEF TakeHead
    <2>2. [priority |-> c.priority, processor |-> c.processor] = Served(p)
      BY <1>5 DEF Served
    <2>3. Append(c.processed, [priority |-> c.priority, processor |-> c.processor]) = more
      BY <1>5, <2>2
    <2> HIDE DEF more
    <2>4. Goes(HasTaken(c, more, "paying"))
      BY <2>1, <2>3 DEF HasTaken
    <2>5. HasTaken(c, more, "paying") = CallOf(k, top, n, more, p, "paying", queues, games)
      BY <1>3, CallTakes
    <2>6. Goes(CallOf(k, top, n, more, p, "paying", queues, games))
      BY <2>4, <2>5, Zenon
    <2> QED BY <1>4, <2>6
  <1>13. /\ more \in Lists /\ Len(more) = Len(processed) + 1 /\ Len(processed) \in Nat
         /\ more[Len(processed) + 1] = Served(p) /\ \A i \in DOMAIN processed : more[i] = processed[i]
         /\ DOMAIN more = DOMAIN processed \cup {Len(processed) + 1} /\ DOMAIN processed = 1 .. Len(processed)
         /\ Taken(more) = Taken(processed) \cup {p}
         /\ Served(p).priority = p
    BY AppendFacts, ListFacts DEF Served
  <1> HIDE DEF more
  <1>14. TookFirst(k, more, queues)'
    <2>1. p \in exitsQueues[k] /\ \A q \in exitsQueues[k] \ {p} : Before(p, q)
      BY <1>7 DEF IsFirst
    <2>2. queues \in [Queues -> SUBSET Priorities]
      BY <1>7 DEF QueuesFit
    <2>3. Taken(more) \subseteq queues[k] /\ exitsQueues' = [queues EXCEPT ![k] = @ \ Taken(more)]
      <3>1. exitsQueues = [queues EXCEPT ![k] = @ \ Taken(processed)] /\ Taken(processed) \subseteq queues[k]
        BY <1>7 DEF TookFirst
      <3>2. (queues[k] \ Taken(processed)) \ {p} = queues[k] \ Taken(more) /\ exitsQueues[k] = queues[k] \ Taken(processed)
        BY <1>13, <2>2, <3>1
      <3>3. exitsQueues' = [queues EXCEPT ![k] = queues[k] \ Taken(more)]
        BY <1>10, <2>2, <3>1, <3>2
      <3> QED BY <1>13, <2>1, <3>1, <3>2, <3>3
    <2>4. exitsQueues'[k] = exitsQueues[k] \ {p}
      BY <1>8, <1>10 DEF QueuesFit
    <2>5. \A i \in DOMAIN more : more[i].priority.exitableAt < clock
      BY <1>6, <1>7, <1>13 DEF TookFirst
    <2>6. \A i, j \in DOMAIN more : i < j => Before(more[i].priority, more[j].priority)
      <3> SUFFICES ASSUME NEW i \in DOMAIN more, NEW j \in DOMAIN more, i < j
                   PROVE  Before(more[i].priority, more[j].priority)
        OBVIOUS
      <3>1. i \in DOMAIN processed
        BY <1>13
      <3>2. CASE j \in DOMAIN processed
        BY <1>7, <1>13, <3>1, <3>2 DEF TookFirst
      <3>3. CASE j = Len(processed) + 1
        BY <1>7, <1>13, <2>1, <3>1, <3>3 DEF TookFirst
      <3> QED BY <1>13, <3>2, <3>3
    <2>7. \A i \in DOMAIN more : \A q \in exitsQueues'[k] : Before(more[i].priority, q)
      BY <1>7, <1>13, <2>1, <2>4 DEF TookFirst
    <2> QED BY <1>10, <2>3, <2>5, <2>6, <2>7 DEF TookFirst
  <1>15. Where(k, more, p, "paying")'
    <2>1. more # <<>> /\ p = more[Len(more)].priority
      BY <1>13
    <2>2. Paid(more, Len(more) - 1)'
      <3>1. Len(more) - 1 = Len(processed)
        BY <1>13
      <3> QED BY <1>7, <1>10, <1>13, <3>1 DEF Paid
    <2> QED BY <2>1, <2>2 DEF Where
  <1>16. InCallWith(k, top, n, more, p, "paying", queues, games)'
    BY <1>6, <1>7, <1>12, <1>13, <1>14, <1>15 DEF InCallWith, CallFits
  <1>17. Pending' = Pending
    BY <1>2, <1>12, CallPends, CallPendsThen DEF InCallWith
  <1> QED BY <1>8, <1>10, <1>11, <1>13, <1>16, <1>17, StaysInCall

LEMMA TheCall ==
    ASSUME NEW k, NEW top, NEW n, NEW processed, NEW p, NEW pc, NEW queues, NEW games,
           InCallWith(k, top, n, processed, p, pc, queues, games)
    PROVE  /\ Call = CallOf(k, top, n, processed, p, pc, queues, games)
           /\ Call.queue = k /\ Call.topExitId = top /\ Call.maxExits = n /\ Call.processed = processed
           /\ Call.priority = p /\ Call.pc = pc /\ Call.saved = SavedAs(queues, games)
           /\ Front(calls) = <<>> /\ \A d : Goes(d) <=> calls' = <<d>>
           /\ QueuesFit(queues, games) /\ TookFirst(k, processed, queues) /\ Len(processed) <= n
           /\ Where(k, processed, p, pc)
  <1>1. PICK c : c = CallOf(k, top, n, processed, p, pc, queues, games)
    OBVIOUS
  <1>2. Call = c /\ Front(calls) = <<>> /\ \A d : Goes(d) <=> calls' = <<d>>
    BY <1>1, CallIs DEF InCallWith
  <1>3. /\ c.queue = k /\ c.topExitId = top /\ c.maxExits = n /\ c.processed = processed
        /\ c.priority = p /\ c.pc = pc /\ c.saved = SavedAs(queues, games)
    BY <1>1, CallFields
  <1> QED BY <1>1, <1>2, <1>3 DEF InCallWith, CallFits

\* The exit is paid, and the next head is looked at.
LEMMA PayFits == ProcessInv /\ Pay => ProcessInv' /\ Pending' = Pending
  <1> SUFFICES ASSUME ProcessInv, Pay PROVE ProcessInv' /\ Pending' = Pending
    OBVIOUS
  <1>0. calls # <<>> /\ Call.pc = "paying" /\ Call.priority.exitId \notin refusing
    BY DEF Pay
  <1>1. PICK k \in Queues, top \in Nat, n \in Nat, processed \in Lists, p \in Priorities : \E pc, queues, games :
          InCallWith(k, top, n, processed, p, pc, queues, games)
    BY <1>0, InACall
  <1>2. PICK pc, queues, games : InCallWith(k, top, n, processed, p, pc, queues, games)
    BY <1>1
  <1>3. /\ Call = CallOf(k, top, n, processed, p, pc, queues, games) /\ Call.queue = k
        /\ Call.priority = p /\ Call.pc = pc /\ \A d : Goes(d) <=> calls' = <<d>>
    BY <1>2, TheCall
  <1>4. /\ QueuesFit(queues, games) /\ TookFirst(k, processed, queues) /\ Len(processed) <= n
        /\ \E head : IsFirst(head, queues[k]) /\ top \in {AnyExit, head.exitId}
        /\ processed # <<>> /\ p = processed[Len(processed)].priority /\ Paid(processed, Len(processed) - 1)
    BY <1>0, <1>2, <1>3 DEF InCallWith, CallFits, Where
  <1>5. Paid(processed, Len(processed))
    <2>1. Len(processed) \in Nat
      BY ListFacts
    <2> QED BY <1>0, <1>3, <1>4, <2>1 DEF Paid
  <1>6. /\ clock' = clock /\ exitsQueues' = exitsQueues /\ delegations' = delegations /\ refusing' = refusing
        /\ mutex' = TRUE /\ QueuesFit(exitsQueues, delegations) /\ clock \in 0 .. ProcessTime
    BY <1>0, InACall DEF Pay, ProcessInv
  <1>7. CASE exitsQueues[k] = {}
    <2>1. calls' = <<CallOf(k, top, n, processed, p, "end", queues, games)>>
      <3>1. Goes(GoneTo(Call, "end"))
        BY <1>3, <1>7 DEF Pay, GoneTo
      <3>2. GoneTo(Call, "end") = CallOf(k, top, n, processed, p, "end", queues, games)
        BY <1>3, CallGoes
      <3> QED BY <1>3, <3>1, <3>2
    <2>2. InCallWith(k, top, n, processed, p, "end", queues, games)'
      BY <1>4, <1>5, <1>6, <1>7, <2>1 DEF InCallWith, CallFits, TookFirst, Where, Paid
    <2>3. Pending' = Pending
      BY <1>2, <2>1, CallPends, CallPendsThen DEF InCallWith
    <2> QED BY <1>6, <2>2, <2>3, StaysInCall
  <1>8. CASE exitsQueues[k] # {}
    <2>1. PICK q : q = GetMin(exitsQueues[k])
      OBVIOUS
    <2>2. IsFirst(q, exitsQueues[k]) /\ q \in Priorities /\ delegations[<<k, q>>] = GameOf[q.exitId]
      <3>1. exitsQueues[k] \subseteq Priorities
        BY <1>6 DEF QueuesFit
      <3>2. IsFirst(q, exitsQueues[k])
        BY <1>8, <2>1, <3>1, GetMinIs
      <3>3. <<k, q>> \in DOMAIN delegations
        BY <1>6, <3>1, <3>2 DEF QueuesFit, IsFirst
      <3> QED BY <1>6, <3>1, <3>2, <3>3 DEF QueuesFit, IsFirst
    <2>3. calls' = <<CallOf(k, top, n, processed, q, "loop", queues, games)>>
      <3>1. Goes(LooksAt(Call, q, GameOf[q.exitId], "loop"))
        BY <1>3, <1>8, <2>1, <2>2 DEF Pay, LooksAt
      <3>2. LooksAt(Call, q, GameOf[q.exitId], "loop") = CallOf(k, top, n, processed, q, "loop", queues, games)
        BY <1>3, CallLooksAt
      <3> QED BY <1>3, <3>1, <3>2
    <2>4. InCallWith(k, top, n, processed, q, "loop", queues, games)'
      BY <1>4, <1>5, <1>6, <2>2, <2>3 DEF InCallWith, CallFits, TookFirst, Where, Paid
    <2>5. Pending' = Pending
      BY <1>2, <2>3, CallPends, CallPendsThen DEF InCallWith
    <2> QED BY <1>6, <2>2, <2>4, <2>5, StaysInCall
  <1> QED BY <1>7, <1>8

LEMMA RevertFits == ProcessInv /\ Revert => ProcessInv' /\ Pending' = Pending
  <1> SUFFICES ASSUME ProcessInv, Revert PROVE ProcessInv' /\ Pending' = Pending
    OBVIOUS
  <1>1. calls # <<>>
    BY DEF Revert
  <1>2. PICK k, top, n, processed, p, pc, queues, games : InCallWith(k, top, n, processed, p, pc, queues, games)
    BY <1>1, InACall
  <1>3. exitsQueues' = queues /\ delegations' = games /\ mutex' = FALSE /\ calls' = <<>> /\ clock' = clock
    <2>1. Call.saved = SavedAs(queues, games) /\ Front(calls) = <<>>
      BY <1>2, TheCall
    <2>2. /\ SavedAs(queues, games).exitsQueues = queues /\ SavedAs(queues, games).delegations = games
          /\ SavedAs(queues, games).mutex = FALSE
      BY DEF SavedAs
    <2> QED BY <2>1, <2>2 DEF Revert
  <1>4. QueuesFit(queues, games)
    BY <1>2, TheCall
  <1>5. Pending' = Pending
    BY <1>2, <1>3, CallPends, NoCallPendsThen DEF InCallWith
  <1> QED BY <1>3, <1>4, <1>5, IsOver DEF ProcessInv

LEMMA ReturnFits == ProcessInv /\ Return => ProcessInv'
  <1> SUFFICES ASSUME ProcessInv, Return PROVE ProcessInv'
    OBVIOUS
  <1>1. calls # <<>>
    BY DEF Return
  <1>2. PICK k, top, n, processed, p, pc, queues, games : InCallWith(k, top, n, processed, p, pc, queues, games)
    BY <1>1, InACall
  <1>3. /\ exitsQueues' = exitsQueues /\ delegations' = delegations /\ mutex' = FALSE /\ calls' = <<>>
        /\ clock' = clock
    BY <1>2, TheCall DEF Return
  <1> QED BY <1>3, IsOver DEF ProcessInv

LEMMA NothingFits == ProcessInv /\ UNCHANGED processVars => ProcessInv' /\ Pending' = Pending
  <1> SUFFICES ASSUME ProcessInv, UNCHANGED processVars PROVE ProcessInv' /\ Pending' = Pending
    OBVIOUS
  <1>1. /\ clock' = clock /\ exitsQueues' = exitsQueues /\ delegations' = delegations /\ refusing' = refusing
        /\ mutex' = mutex /\ calls' = calls
    BY DEF processVars, exitVars
  <1>4. Pending' = Pending
    BY <1>1 DEF Pending
  <1>2. CASE calls = <<>>
    BY <1>1, <1>2, <1>4, OutsideCalls, IsOver DEF ProcessInv
  <1>3. CASE calls # <<>>
    <2>1. PICK k \in Queues, top \in Nat, n \in Nat, processed \in Lists, p \in Priorities : \E pc, queues, games :
            InCallWith(k, top, n, processed, p, pc, queues, games)
      BY <1>3, InACall
    <2>2. PICK pc, queues, games : InCallWith(k, top, n, processed, p, pc, queues, games)
      BY <2>1
    <2>3. InCallWith(k, top, n, processed, p, pc, queues, games)'
      BY <1>1, <2>2 DEF InCallWith, CallFits, TookFirst, Where, Paid
    <2> QED BY <1>1, <1>3, <1>4, <2>3, InACall, StaysInCall DEF ProcessInv
  <1> QED BY <1>2, <1>3

LEMMA ProcessInvHolds == ProcessSpec => []ProcessInv
  <1>1. ProcessInv /\ ProcessNext => ProcessInv'
    BY TickFits, RefuseFits, EnqueueFits, StartFits, TakeFits, PayFits, RevertFits, ReturnFits DEF ProcessNext
  <1> QED BY <1>1, InitFits, NothingFits, PTL DEF ProcessSpec

LEMMA TickBatches == ProcessInv /\ ProcessTick => Batches!Time
  <1> SUFFICES ASSUME ProcessInv, ProcessTick PROVE Batches!Time
    OBVIOUS
  <1>1. calls = <<>> /\ calls' = <<>> /\ delegations' = delegations
    BY DEF ProcessTick
  <1>2. Pending' = Pending
    BY <1>1, NoCallPends, NoCallPendsThen
  <1> QED BY <1>2 DEF ProcessTick, TimePasses, Batches!Time

LEMMA RefuseBatches == ProcessInv /\ Refuse => Batches!Refusing
  <1> SUFFICES ASSUME ProcessInv, Refuse PROVE Batches!Refusing
    OBVIOUS
  <1>1. calls = <<>> /\ calls' = <<>> /\ delegations' = delegations
    BY DEF Refuse
  <1>2. Pending' = Pending
    BY <1>1, NoCallPends, NoCallPendsThen
  <1>3. refusing' # refusing /\ event' = NoEvent /\ clock' = clock
    BY DEF Refuse
  <1> QED BY <1>2, <1>3 DEF Batches!Refusing

LEMMA EnqueueBatches ==
    ASSUME ProcessInv, NEW k \in Queues, NEW exitId \in QueuedIds, NEW periods \in {1, 2},
           EnqueueExit(k, clock + (periods * MinExitPeriod), exitId)
    PROVE  \E entry \in [queue : Queues, processor : Games, priority : Priorities] : Batches!Add(entry)
  <1>1. PICK p : p = [exitableAt |-> clock + (periods * MinExitPeriod), exitId |-> exitId]
    OBVIOUS
  <1>2. p \in Priorities /\ p.exitableAt > clock /\ p.exitId = exitId
    BY <1>1, NewPriority
  <1>3. /\ ~ mutex /\ <<k, p>> \notin DOMAIN delegations /\ calls' = calls
        /\ delegations' = [e \in DOMAIN delegations \cup {<<k, p>>} |->
                              IF e = <<k, p>> THEN GameOf[exitId] ELSE delegations[e]]
        /\ clock' = clock /\ refusing' = refusing /\ event' = NoEvent
    BY <1>1 DEF EnqueueExit
  <1>4. calls = <<>> /\ calls' = <<>>
    BY <1>3, OutsideCalls
  <1>5. Pending = PendingOf(delegations) /\ Pending' = PendingOf(delegations')
    BY <1>4, NoCallPends, NoCallPendsThen
  <1>6. PICK entry : entry = EntryOf(k, p)
    OBVIOUS
  <1>7. entry.queue = k /\ entry.priority = p
    BY <1>6, EntryFields
  <1>8. Pending' = Pending \cup {entry}
    <2>1. PICK games, more : games = delegations /\ more = delegations'
      OBVIOUS
    <2>2. /\ DOMAIN more = DOMAIN games \cup {<<k, p>>} /\ more[<<k, p>>] = GameOf[p.exitId]
          /\ \A e \in DOMAIN games : more[e] = games[e]
      BY <1>2, <1>3, <2>1
    <2>3. entry = [queue |-> <<k, p>>[1], priority |-> <<k, p>>[2], processor |-> more[<<k, p>>]]
      BY <1>6, <2>2 DEF EntryOf
    <2>4. PendingOf(more) = PendingOf(games) \cup {entry}
      BY <2>2, <2>3 DEF PendingOf
    <2> QED BY <1>5, <2>1, <2>4
  <1>9. ASSUME NEW other \in Pending, other.queue = k PROVE other.priority # p
    <2>1. PICK e \in DOMAIN delegations : other = [queue |-> e[1], priority |-> e[2], processor |-> delegations[e]]
      BY <1>5 DEF PendingOf
    <2>2. other.queue = e[1] /\ other.priority = e[2]
      BY <2>1
    <2>3. e = <<e[1], e[2]>>
      BY DEF ProcessInv, QueuesFit
    <2> QED BY <1>3, <1>9, <2>2, <2>3
  <1>10. Batches!Add(entry)
    BY <1>2, <1>3, <1>7, <1>8, <1>9 DEF Batches!Add
  <1>11. entry \in [queue : Queues, processor : Games, priority : Priorities]
    <2>1. GameOf[p.exitId] \in Games
      BY <1>2 DEF Games
    <2> QED BY <1>2, <1>6, <2>1 DEF EntryOf
  <1> QED BY <1>10, <1>11

LEMMA SameCardinality == \A S : Batches!Cardinality(S) = Cardinality(S)
  BY Zenon DEF Batches!Cardinality, Cardinality

EntriesAt(k, queue) == {EntryOf(k, p) : p \in queue}

LEMMA QueueIs ==
    ASSUME NEW queues, NEW games, QueuesFit(queues, games), NEW k \in Queues
    PROVE  {entry \in PendingOf(games) : entry.queue = k} = EntriesAt(k, queues[k])
  <1>1. PendingOf(games) = UNION {EntriesAt(l, queues[l]) : l \in Queues}
    BY PendingIs DEF EntriesAt
  <1>2. ASSUME NEW l \in Queues, NEW entry \in EntriesAt(l, queues[l]) PROVE entry.queue = l
    BY EntryFields DEF EntriesAt
  <1> QED BY <1>1, <1>2

LEMMA FiniteEntries ==
    ASSUME NEW k, NEW queue, IsFiniteSet(queue), NEW S, S \subseteq EntriesAt(k, queue)
    PROVE  IsFiniteSet(S) /\ Cardinality(S) \in Nat
  <1> DEFINE T == EntriesAt(k, queue)
             f == [p \in queue |-> EntryOf(k, p)]
  <1>1. f \in Surjection(queue, T)
    BY DEF Surjection, EntriesAt
  <1> HIDE DEF f, T
  <1>2. IsFiniteSet(T)
    BY <1>1, FS_Surjection
  <1>3. IsFiniteSet(S)
    BY <1>2, FS_Subset DEF T
  <1> QED BY <1>3, FS_CardinalityType

LEMMA UpTo ==
    ASSUME NEW m \in Nat
    PROVE  IsFiniteSet(1 .. m) /\ Cardinality(1 .. m) = m
  <1>1. IsFiniteSet(1 .. m) /\ Cardinality(1 .. m) = IF 1 > m THEN 0 ELSE (m - 1) + 1
    BY FS_Interval
  <1> QED BY <1>1

\* The i-th exit that is taken has i - 1 before it.
LEMMA AheadOfTaken ==
    ASSUME NEW k \in Queues, NEW processed \in Lists, NEW queues, NEW games, QueuesFit(queues, games),
           TookFirst(k, processed, queues), NEW i \in DOMAIN processed
    PROVE  Cardinality(Batches!Ahead(EntryOf(k, processed[i].priority), EntriesAt(k, queues[k]))) < i
  <1> DEFINE ahead == Batches!Ahead(EntryOf(k, processed[i].priority), EntriesAt(k, queues[k]))
             S == {EntryOf(k, processed[j].priority) : j \in 1 .. i - 1}
             f == [j \in 1 .. i - 1 |-> EntryOf(k, processed[j].priority)]
  <1>1. i \in Nat /\ i >= 1 /\ DOMAIN processed = 1 .. Len(processed) /\ Len(processed) \in Nat
    BY ListFacts
  <1>2. /\ queues \in [Queues -> SUBSET Priorities] /\ exitsQueues[k] = queues[k] \ Taken(processed)
        /\ processed[i].priority \in queues[k]
        /\ \A j \in DOMAIN processed : processed[j].priority \in Priorities
    BY ListFacts DEF QueuesFit, TookFirst, Taken
  <1>3. ASSUME NEW entry \in ahead PROVE entry \in S
    <2>1. PICK q \in queues[k] : entry = EntryOf(k, q) /\ Before(q, processed[i].priority)
      BY EntryFields DEF Batches!Ahead, EntriesAt
    <2>2. q \in Taken(processed)
      <3>1. CASE q \in exitsQueues[k]
        BY <1>2, <2>1, <3>1, BeforeOrders DEF TookFirst
      <3> QED BY <1>2, <3>1
    <2>3. PICK j \in DOMAIN processed : q = processed[j].priority
      BY <2>2 DEF Taken
    <2>4. j < i
      <3>1. ~ (i < j) /\ i # j
        BY <1>2, <2>1, <2>3, BeforeOrders DEF TookFirst
      <3> QED BY <1>1, <3>1
    <2>5. j \in 1 .. i - 1
      BY <1>1, <2>4
    <2> QED BY <2>1, <2>3, <2>5
  <1>4. f \in Surjection(1 .. i - 1, S)
    BY DEF Surjection
  <1>5. IsFiniteSet(1 .. i - 1) /\ Cardinality(1 .. i - 1) = i - 1
    BY <1>1, UpTo, i - 1 \in Nat
  <1> HIDE DEF f, S, ahead
  <1>6. IsFiniteSet(S) /\ Cardinality(S) <= i - 1
    BY <1>4, <1>5, FS_Surjection
  <1>7. Cardinality(ahead) <= Cardinality(S) /\ Cardinality(S) \in Nat /\ Cardinality(ahead) \in Nat
    BY <1>3, <1>6, FS_Subset, FS_CardinalityType
  <1>8. Cardinality(ahead) < i
    BY <1>1, <1>6, <1>7
  <1> QED BY <1>8 DEF ahead

\* An exit that is left has all that were taken before it.
LEMMA AheadOfLeft ==
    ASSUME NEW k \in Queues, NEW processed \in Lists, NEW queues, NEW games, QueuesFit(queues, games),
           TookFirst(k, processed, queues), NEW p \in exitsQueues[k]
    PROVE  Cardinality(Batches!Ahead(EntryOf(k, p), EntriesAt(k, queues[k]))) >= Len(processed)
  <1> DEFINE ahead == Batches!Ahead(EntryOf(k, p), EntriesAt(k, queues[k]))
             f == [j \in 1 .. Len(processed) |-> EntryOf(k, processed[j].priority)]
  <1>1. DOMAIN processed = 1 .. Len(processed) /\ Len(processed) \in Nat
    BY ListFacts
  <1>2. /\ queues[k] \subseteq Priorities /\ IsFiniteSet(queues[k])
        /\ \A j \in DOMAIN processed : processed[j].priority \in queues[k] /\ Before(processed[j].priority, p)
    BY DEF QueuesFit, TookFirst, Taken
  <1>3. \A j \in 1 .. Len(processed) : f[j] \in ahead
    <2> SUFFICES ASSUME NEW j \in 1 .. Len(processed) PROVE EntryOf(k, processed[j].priority) \in ahead
      OBVIOUS
    <2>1. EntryOf(k, processed[j].priority) \in EntriesAt(k, queues[k])
      BY <1>1, <1>2 DEF EntriesAt
    <2> QED BY <1>1, <1>2, <2>1, EntryFields DEF Batches!Ahead
  <1>4. \A i, j \in 1 .. Len(processed) : f[i] = f[j] => i = j
    <2> SUFFICES ASSUME NEW i \in 1 .. Len(processed), NEW j \in 1 .. Len(processed), f[i] = f[j] PROVE i = j
      OBVIOUS
    <2>1. processed[i].priority = processed[j].priority
      BY EntryFields
    <2>2. ~ (i < j) /\ ~ (j < i)
      BY <1>1, <1>2, <2>1, BeforeOrders DEF TookFirst
    <2> QED BY <1>1, <2>2
  <1>5. f \in Injection(1 .. Len(processed), ahead)
    <2>1. f \in [1 .. Len(processed) -> ahead]
      <3>1. DOMAIN f = 1 .. Len(processed) /\ f = [j \in DOMAIN f |-> f[j]]
        OBVIOUS
      <3> HIDE DEF f, ahead
      <3> QED BY <1>3, <3>1
    <2>2. DOMAIN f = 1 .. Len(processed)
      OBVIOUS
    <2> HIDE DEF f, ahead
    <2>3. IsInjective(f)
      BY <1>4, <2>2 DEF IsInjective
    <2> QED BY <2>1, <2>3 DEF Injection
  <1>6. IsFiniteSet(ahead) /\ Cardinality(ahead) \in Nat
    BY <1>2, FiniteEntries DEF Batches!Ahead
  <1>7. Cardinality(1 .. Len(processed)) = Len(processed)
    BY <1>1, UpTo
  <1> HIDE DEF f, ahead
  <1>8. Cardinality(ahead) >= Len(processed)
    <2>1. Cardinality(1 .. Len(processed)) <= Cardinality(ahead)
      BY <1>5, <1>6, FS_Injection
    <2> QED BY <1>1, <1>6, <1>7, <2>1
  <1> QED BY <1>8 DEF ahead

\* What leaves is a batch: the first exitable ones, not more than asked for.
LEMMA TakenIsBatch ==
    ASSUME NEW k \in Queues, NEW n \in Nat, NEW processed \in Lists, NEW queues, NEW games, QueuesFit(queues, games),
           TookFirst(k, processed, queues), Len(processed) <= n, clock \in Nat,
           \A p \in exitsQueues[k] : p.exitableAt >= clock \/ Len(processed) >= n
    PROVE  {entry \in EntriesAt(k, queues[k]) :
              /\ entry.priority.exitableAt < clock
              /\ Cardinality(Batches!Ahead(entry, EntriesAt(k, queues[k]))) < n}
           = EntriesAt(k, Taken(processed))
  <1> DEFINE entries == EntriesAt(k, queues[k])
             Chosen(entry) == /\ entry.priority.exitableAt < clock
                              /\ Cardinality(Batches!Ahead(entry, entries)) < n
  <1>1. DOMAIN processed = 1 .. Len(processed) /\ Len(processed) \in Nat
    BY ListFacts
  <1>2. /\ queues[k] \subseteq Priorities /\ IsFiniteSet(queues[k]) /\ Taken(processed) \subseteq queues[k]
        /\ exitsQueues[k] = queues[k] \ Taken(processed)
    BY DEF QueuesFit, TookFirst
  <1>3. ASSUME NEW p \in Taken(processed) PROVE EntryOf(k, p) \in entries /\ Chosen(EntryOf(k, p))
    <2>1. PICK i \in DOMAIN processed : p = processed[i].priority
      BY DEF Taken
    <2>2. EntryOf(k, p) \in entries
      BY <1>2 DEF EntriesAt
    <2>3. EntryOf(k, p).priority.exitableAt < clock
      BY <2>1, EntryFields DEF TookFirst
    <2>4. Cardinality(Batches!Ahead(EntryOf(k, p), entries)) < i
      BY <2>1, AheadOfTaken
    <2>5. Cardinality(Batches!Ahead(EntryOf(k, p), entries)) \in Nat
      BY <1>2, FiniteEntries DEF Batches!Ahead
    <2>6. Cardinality(Batches!Ahead(EntryOf(k, p), entries)) < n
      <3> DEFINE size == Cardinality(Batches!Ahead(EntryOf(k, p), entries))
      <3>1. size < i /\ size \in Nat /\ i \in 1 .. Len(processed)
        BY <1>1, <2>4, <2>5
      <3> HIDE DEF size
      <3>2. size < n
        BY <1>1, <3>1
      <3> QED BY <3>2 DEF size
    <2> QED BY <2>2, <2>3, <2>6
  <1>4. ASSUME NEW p \in exitsQueues[k] PROVE ~ Chosen(EntryOf(k, p))
    <2>1. CASE p.exitableAt >= clock
      <3>1. p.exitableAt \in Nat /\ ~ (p.exitableAt < clock)
        BY <1>2, <2>1, PriorityFields
      <3> QED BY <3>1, EntryFields
    <2>2. CASE Len(processed) >= n
      <3> DEFINE size == Cardinality(Batches!Ahead(EntryOf(k, p), entries))
      <3>1. size \in Nat
        BY <1>2, FiniteEntries DEF Batches!Ahead
      <3>2. size >= Len(processed)
        BY AheadOfLeft
      <3>3. Chosen(EntryOf(k, p)) => size < n
        OBVIOUS
      <3> HIDE DEF size, Chosen
      <3> QED BY <1>1, <2>2, <3>1, <3>2, <3>3
    <2> QED BY <2>1, <2>2
  <1> HIDE DEF Chosen
  <1>5. {entry \in entries : Chosen(entry)} = EntriesAt(k, Taken(processed))
    BY <1>2, <1>3, <1>4 DEF EntriesAt
  <1> QED BY <1>5 DEF Chosen

LEMMA TakenInOrder ==
    ASSUME NEW k \in Queues, NEW processed \in Lists, NEW queues, TookFirst(k, processed, queues)
    PROVE  Batches!InOrder(processed, EntriesAt(k, Taken(processed)))
  <1> DEFINE served == {[priority |-> entry.priority, processor |-> entry.processor] :
                          entry \in EntriesAt(k, Taken(processed))}
  <1>1. DOMAIN processed = 1 .. Len(processed) /\ Len(processed) \in Nat
    BY ListFacts
  <1>2. \A p : [priority |-> EntryOf(k, p).priority, processor |-> EntryOf(k, p).processor] = Served(p)
    BY EntryFields DEF Served
  <1>3. served = {processed[i] : i \in DOMAIN processed}
    <2>1. served = {Served(p) : p \in Taken(processed)}
      BY <1>2 DEF EntriesAt
    <2>2. \A i \in DOMAIN processed : processed[i] = Served(processed[i].priority)
      BY ListFacts
    <2> HIDE DEF served
    <2> QED BY <2>1, <2>2 DEF Taken
  <1> HIDE DEF served
  <1>4. processed \in Seq(served)
    <2>1. processed = [i \in 1 .. Len(processed) |-> processed[i]]
      BY <1>1 DEF Lists
    <2>2. \A i \in 1 .. Len(processed) : processed[i] \in served
      BY <1>1, <1>3
    <2> QED BY <1>1, <2>1, <2>2
  <1>5. \A i, j \in DOMAIN processed : i < j => Before(processed[i].priority, processed[j].priority)
    BY DEF TookFirst
  <1> QED BY <1>3, <1>4, <1>5 DEF Batches!InOrder, served

LEMMA ReturnBatches == ProcessInv /\ Return => Batches!Call
  <1> SUFFICES ASSUME ProcessInv, Return PROVE Batches!Call
    OBVIOUS
  <1>1. calls # <<>>
    BY DEF Return
  <1>2. PICK k \in Queues, top \in Nat, n \in Nat, processed \in Lists, p \in Priorities : \E pc, queues, games :
          InCallWith(k, top, n, processed, p, pc, queues, games)
    BY <1>1, InACall
  <1>3. PICK pc, queues, games : InCallWith(k, top, n, processed, p, pc, queues, games)
    BY <1>2
  <1>4. /\ Call.queue = k /\ Call.topExitId = top /\ Call.maxExits = n /\ Call.processed = processed
        /\ Call.priority = p /\ Call.pc = pc /\ Front(calls) = <<>>
        /\ QueuesFit(queues, games) /\ TookFirst(k, processed, queues) /\ Len(processed) <= n
        /\ Where(k, processed, p, pc)
    BY <1>3, TheCall
  <1>5. /\ calls' = <<>> /\ clock' = clock /\ exitsQueues' = exitsQueues /\ delegations' = delegations
        /\ refusing' = refusing
        /\ event' = [queue |-> k, topExitId |-> top, maxExits |-> n, processed |-> processed]
    BY <1>4 DEF Return
  <1>6. /\ clock \in Nat /\ QueuesFit(exitsQueues, delegations) /\ Len(processed) \in Nat
        /\ DOMAIN processed = 1 .. Len(processed)
    BY ListFacts DEF ProcessInv
  <1>7. /\ Paid(processed, Len(processed))
        /\ \A q \in exitsQueues[k] : q.exitableAt >= clock \/ Len(processed) >= n
    <2>1. CASE pc = "end"
      BY <1>4, <2>1 DEF Where
    <2>2. CASE pc # "end"
      <3>1. pc = "loop" /\ (~ (Len(processed) < n) \/ ~ (p.exitableAt < clock))
        BY <1>4, <2>2 DEF Return, TakesNext
      <3>2. IsFirst(p, exitsQueues[k]) /\ Paid(processed, Len(processed))
        BY <1>4, <3>1 DEF Where
      <3>3. ASSUME NEW q \in exitsQueues[k] PROVE q.exitableAt >= clock \/ Len(processed) >= n
        <4>1. q.exitableAt \in Nat /\ p.exitableAt \in Nat
          BY <1>6, PriorityFields DEF QueuesFit
        <4>2. p.exitableAt <= q.exitableAt
          BY <3>2, <4>1 DEF IsFirst, Before
        <4> QED BY <1>6, <3>1, <4>1, <4>2
      <3> QED BY <3>2, <3>3
    <2> QED BY <2>1, <2>2
  <1>8. PICK entries : entries = EntriesAt(k, queues[k])
    OBVIOUS
  <1>9. PICK batch : batch = EntriesAt(k, Taken(processed))
    OBVIOUS
  <1>10. Pending = PendingOf(games) /\ Pending' = PendingOf(delegations)
    BY <1>3, <1>5, CallPends, NoCallPendsThen DEF InCallWith
  <1>11. entries = {entry \in Pending : entry.queue = k}
    BY <1>4, <1>8, <1>10, QueueIs
  <1>12. batch = {entry \in entries : /\ entry.priority.exitableAt < clock
                                      /\ Cardinality(Batches!Ahead(entry, entries)) < n}
    BY <1>4, <1>6, <1>7, <1>8, <1>9, TakenIsBatch
  <1>13. \E head \in entries : Batches!Ahead(head, entries) = {} /\ top \in {AnyExit, head.priority.exitId}
    <2>1. PICK first : IsFirst(first, queues[k]) /\ top \in {AnyExit, first.exitId}
      BY <1>3 DEF InCallWith, CallFits
    <2>2. EntryOf(k, first) \in entries /\ queues[k] \subseteq Priorities /\ first \in queues[k]
      BY <1>4, <1>8, <2>1 DEF IsFirst, EntriesAt, QueuesFit
    <2>3. Batches!Ahead(EntryOf(k, first), entries) = {}
      <3> SUFFICES ASSUME NEW q \in queues[k], Before(EntryOf(k, q).priority, EntryOf(k, first).priority) PROVE FALSE
        BY <1>8 DEF Batches!Ahead, EntriesAt
      <3>1. Before(q, first)
        BY EntryFields
      <3> QED BY <2>1, <2>2, <3>1, BeforeOrders DEF IsFirst
    <2> QED BY <2>1, <2>2, <2>3, EntryFields
  <1>14. \A entry \in batch : entry.priority.exitId \notin refusing
    BY <1>6, <1>7, <1>9, EntryFields DEF EntriesAt, Taken, Paid
  <1>15. Batches!InOrder(processed, batch)
    BY <1>4, <1>9, TakenInOrder
  <1>16. Pending' = Pending \ batch
    <2>1. /\ queues \in [Queues -> SUBSET Priorities] /\ Taken(processed) \subseteq queues[k]
          /\ exitsQueues = [queues EXCEPT ![k] = @ \ Taken(processed)]
      BY <1>4 DEF QueuesFit, TookFirst
    <2>2. Pending = UNION {{EntryOf(l, q) : q \in queues[l]} : l \in Queues}
      BY <1>4, <1>10, PendingIs
    <2>3. Pending' = UNION {{EntryOf(l, q) : q \in exitsQueues[l]} : l \in Queues}
      BY <1>6, <1>10, PendingIs
    <2>4. \A l \in Queues : \A q \in queues[l] : q \in exitsQueues[l] <=> EntryOf(l, q) \notin batch
      <3> SUFFICES ASSUME NEW l \in Queues, NEW q \in queues[l]
                   PROVE  q \in exitsQueues[l] <=> EntryOf(l, q) \notin batch
        OBVIOUS
      <3>1. EntryOf(l, q) \in batch <=> l = k /\ q \in Taken(processed)
        BY <1>9, EntryFields DEF EntriesAt
      <3> QED BY <2>1, <3>1
    <2>5. \A l \in Queues : exitsQueues[l] \subseteq queues[l]
      BY <2>1
    <2> QED BY <2>2, <2>3, <2>4, <2>5
  <1>17. Batches!Process(k, top, n, processed)
    <2> DEFINE atQueue == {entry \in Pending : entry.queue = k}
               first == {entry \in atQueue : /\ entry.priority.exitableAt < clock
                                             /\ Cardinality(Batches!Ahead(entry, atQueue)) < n}
    <2>1. entries = atQueue
      BY <1>11
    <2>2. batch = first
      BY <1>12, <2>1, Zenon
    <2> HIDE DEF atQueue, first
    <2>3. /\ \E head \in atQueue : Batches!Ahead(head, atQueue) = {} /\ top \in {AnyExit, head.priority.exitId}
          /\ \A entry \in first : entry.priority.exitId \notin refusing
          /\ Batches!InOrder(processed, first)
          /\ Pending' = Pending \ first
      BY <1>13, <1>14, <1>15, <1>16, <2>1, <2>2, Zenon
    <2>4. UNCHANGED <<clock, refusing>>
      BY <1>5
    <2>5. first = {entry \in atQueue : /\ entry.priority.exitableAt < clock
                                      /\ Batches!Cardinality(Batches!Ahead(entry, atQueue)) < n}
      BY SameCardinality DEF first
    <2> HIDE DEF first
    <2> QED BY <1>5, <2>3, <2>4, <2>5, Zenon DEF Batches!Process, atQueue
  <1>18. event' # NoEvent
    <2>1. "topExitId" \in DOMAIN event' /\ "topExitId" \notin DOMAIN NoEvent
      BY <1>5 DEF NoEvent
    <2> QED BY <2>1
  <1>19. event'.queue = k /\ event'.topExitId = top /\ event'.maxExits = n /\ event'.processed = processed
    BY <1>5
  <1> QED BY <1>17, <1>18, <1>19 DEF Batches!Call

\* processExits, taken step by step with its callbacks and its reverts, is what ExitBatches says.
THEOREM ProcessingIsBatched == ProcessSpec => IsBatched
  <1> DEFINE seen == <<clock, Pending, refusing, event>>
  <1>1. ProcessInit => Batches!Init
    BY NoCallPends DEF ProcessInit, Batches!Init, PendingOf
  <1>2. ProcessInv /\ [ProcessNext]_processVars => Batches!Next \/ UNCHANGED seen
    <2> SUFFICES ASSUME ProcessInv, [ProcessNext]_processVars PROVE Batches!Next \/ UNCHANGED seen
      OBVIOUS
    <2>1. CASE ProcessTick
      BY <2>1, TickBatches DEF Batches!Next
    <2>2. CASE Refuse
      BY <2>2, RefuseBatches DEF Batches!Next
    <2>3. ASSUME NEW k \in Queues, NEW exitId \in QueuedIds, NEW periods \in {1, 2},
                 EnqueueExit(k, clock + (periods * MinExitPeriod), exitId)
          PROVE  Batches!Next
      BY <2>3, EnqueueBatches, Zenon DEF Batches!Next, Games, Priorities
    <2>4. ASSUME NEW k \in Queues, NEW top \in QueuedIds \cup {AnyExit}, NEW n \in 1 .. MaxBatch,
                 ProcessExits(k, top, n)
          PROVE  UNCHANGED seen
      BY <2>4, StartFits DEF ProcessExits, Start
    <2>5. CASE TakeHead
      BY <2>5, TakeFits DEF TakeHead
    <2>6. CASE Pay
      BY <2>6, PayFits DEF Pay
    <2>7. CASE Revert
      BY <2>7, RevertFits DEF Revert
    <2>8. CASE Return
      BY <2>8, ReturnBatches DEF Batches!Next
    <2>9. CASE UNCHANGED processVars
      BY <2>9, NothingFits DEF processVars, exitVars
    <2> QED BY <2>1, <2>2, <2>3, <2>4, <2>5, <2>6, <2>7, <2>8, <2>9 DEF ProcessNext
  <1> QED BY <1>1, <1>2, ProcessInvHolds, PTL DEF ProcessSpec, IsBatched, Batches!Spec
====
