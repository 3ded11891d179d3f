---- MODULE ChildChain_proofs ----
(***************************************************************************)
(* The child chain spends no output twice, forgets no block that waits and *)
(* numbers its blocks as the contract does, for any interval, transactions *)
(* and blocks, and any number of blocks that wait.                         *)
(***************************************************************************)
EXTENDS ChildChain, ArithmeticLemmas

FrameType == [number : Nat, tried : Nat]
Numbered(calls) == {calls[k].number : k \in DOMAIN calls}

\* The blocks there are have numbers before the next one, which is after the last child block
\* and not after the next.
Heads ==
    /\ \A n \in DOMAIN blocks : n < nextDepositBlock
    /\ nextChildBlock - ChildBlockInterval < nextDepositBlock

AllThere(b) ==
    \A k \in DOMAIN b.transactions :
        \A x \in InputsOf(b.transactions[k]) : Exists(TxInputs[b.transactions[k]][x])

OlderThan(n, b) ==
    \A k \in DOMAIN b.transactions :
        \A x \in InputsOf(b.transactions[k]) : Located(TxInputs[b.transactions[k]][x]).blknum < n

\* The flags are those of the outputs that the blocks spend.
Marked == \A n \in DOMAIN blocks : AllThere(blocks[n]) /\ SpentBy(blocks[n]) \subseteq spent

ChildInv == ChildTypeOK /\ Heads /\ Marked /\ BlocksSpendOnce /\ WaitersAreServed

----------------------------------------------------------------------------

LEMMA NoneBad ==
    ASSUME NEW checks, DOMAIN checks \subseteq Nat, FirstBad(checks) = "ok"
    PROVE  \A k \in DOMAIN checks : checks[k] = "ok"
  <1> DEFINE bad == {k \in DOMAIN checks : checks[k] # "ok"}
  <1> SUFFICES ASSUME bad # {} PROVE FALSE
    OBVIOUS
  <1>1. bad \subseteq Nat
    OBVIOUS
  <1>2. PICK k \in bad : \A j \in bad : ~ (<<j, k>> \in OpToRel(<, Nat))
    BY <1>1, NatLessThanWellFounded, WFMin
  <1>3. \A j \in bad : k <= j
    <2> SUFFICES ASSUME NEW j \in bad, j < k PROVE FALSE
      BY <1>1
    <2>1. <<j, k>> \in OpToRel(<, Nat)
      BY <1>1 DEF OpToRel
    <2> QED BY <1>2, <2>1
  <1>4. Min(bad) \in bad
    BY <1>3 DEF Min
  <1>5. FirstBad(checks) = checks[Min(bad)]
    BY DEF FirstBad
  <1> QED BY <1>4, <1>5

\* What is validated spends only what is there and not spent; in the first of these, each of its
\* transactions is validated.
LEMMA ValidatedTxs ==
    ASSUME NEW b \in Blocks, ValidateBlock(b) = "ok"
    PROVE  \A k \in DOMAIN b.transactions : b.transactions[k] \in Txs /\ ValidateTransaction(b.transactions[k]) = "ok"
  <1>1. DOMAIN b.transactions \subseteq Nat /\ \A k \in DOMAIN b.transactions : b.transactions[k] \in Txs
    BY ChainAssumption DEF BlockType
  <1> DEFINE txs == [k \in DOMAIN b.transactions |-> ValidateTransaction(b.transactions[k])]
  <1>2. FirstBad(txs) = "ok"
    BY DEF ValidateBlock
  <1>3. DOMAIN txs \subseteq Nat
    BY <1>1
  <1>4. \A k \in DOMAIN txs : txs[k] = "ok"
    <2> HIDE DEF txs
    <2> QED BY <1>2, <1>3, NoneBad
  <1> QED BY <1>1, <1>4

LEMMA Validated ==
    ASSUME NEW b \in Blocks, ValidateBlock(b) = "ok"
    PROVE  AllThere(b) /\ SpentBy(b) \cap spent = {}
  <1>1. \A k \in DOMAIN b.transactions : b.transactions[k] \in Txs /\ ValidateTransaction(b.transactions[k]) = "ok"
    BY ValidatedTxs
  <1>2. ASSUME NEW t \in Txs, ValidateTransaction(t) = "ok", NEW x \in InputsOf(t)
        PROVE  Exists(TxInputs[t][x]) /\ OutputOf(TxInputs[t][x]) \notin spent
    <2> DEFINE inputs == [y \in DOMAIN TxInputs[t] |-> CheckInput(t, y)]
    <2>1. FirstBad(inputs) = "ok"
      BY <1>2 DEF ValidateTransaction
    <2>2. DOMAIN inputs \subseteq Nat /\ x \in DOMAIN inputs /\ ~ IsNothing(TxInputs[t][x])
      BY ChainAssumption DEF InputsOf
    <2>3. inputs[x] = "ok"
      <3> HIDE DEF inputs
      <3> QED BY <2>1, <2>2, NoneBad
    <2>4. CheckInput(t, x) = "ok"
      BY <2>2, <2>3
    <2> QED BY <2>2, <2>4 DEF CheckInput
  <1>3. AllThere(b)
    BY <1>1, <1>2 DEF AllThere
  <1>4. \A o \in SpentBy(b) : o \notin spent
    BY <1>1, <1>2 DEF SpentBy, SpentByTx
  <1> QED BY <1>3, <1>4

\* What blocks that stay hold stays what it is.
BlocksStay ==
    DOMAIN blocks \subseteq DOMAIN blocks' /\ \A n \in DOMAIN blocks : blocks'[n] = blocks[n]

LEMMA InputsStay ==
    ASSUME BlocksStay, NEW i, Exists(i)
    PROVE  Exists(i)' /\ OutputOf(i)' = OutputOf(i) /\ Located(i).blknum \in DOMAIN blocks
  BY DEF BlocksStay, Exists, OutputOf, GetTransaction

LEMMA SpendingStays ==
    ASSUME BlocksStay, NEW b, AllThere(b)
    PROVE  AllThere(b)' /\ SpentBy(b)' = SpentBy(b)
  <1>1. \A k \in DOMAIN b.transactions : \A x \in InputsOf(b.transactions[k]) :
          LET i == TxInputs[b.transactions[k]][x]
          IN  Exists(i) /\ Exists(i)' /\ OutputOf(i)' = OutputOf(i)
    BY InputsStay DEF AllThere
  <1>2. AllThere(b)'
    BY <1>1 DEF AllThere
  <1>3. \A k \in DOMAIN b.transactions : SpentByTx(b.transactions[k])' = SpentByTx(b.transactions[k])
    BY <1>1 DEF SpentByTx
  <1> QED BY <1>2, <1>3 DEF SpentBy

LEMMA StoredStay ==
    ASSUME BlocksStay, Marked, NEW m \in DOMAIN blocks
    PROVE  (AllThere(blocks[m]))' /\ (SpentBy(blocks[m]))' = SpentBy(blocks[m])
  <1>1. PICK old : old = blocks[m]
    OBVIOUS
  <1>2. AllThere(old)' /\ SpentBy(old)' = SpentBy(old)
    BY <1>1, SpendingStays DEF Marked
  <1> QED BY <1>1, <1>2 DEF BlocksStay

LEMMA OlderIs == SpendsTheOlder <=> \A n \in DOMAIN blocks : AllThere(blocks[n]) /\ OlderThan(n, blocks[n])
  BY DEF SpendsTheOlder, AllThere, OlderThan

\* The numbers of the heads, and where a block goes.
LEMMA NextNumbers ==
    ASSUME ChildInv, NEW b \in Blocks, IsNext(b)
    PROVE  /\ b.number \in Nat /\ nextChildBlock \in Nat /\ nextDepositBlock \in Nat /\ ChildBlockInterval \in Nat \ {0}
           /\ nextDepositBlock <= b.number /\ b.number <= nextChildBlock
           /\ b.number = nextChildBlock \/ b.number = nextDepositBlock
           /\ \A n \in DOMAIN blocks : n \in Nat /\ n < b.number
  <1>1. b.number \in Nat /\ ChildBlockInterval \in Nat \ {0}
    BY ChainAssumption DEF BlockType
  <1>2. nextChildBlock \in Nat /\ nextDepositBlock \in Nat /\ nextDepositBlock <= nextChildBlock /\ DOMAIN blocks \subseteq Nat
    BY DEF ChildInv, ChildTypeOK
  <1>3. \A n \in DOMAIN blocks : n < nextDepositBlock
    BY DEF ChildInv, Heads
  <1> QED BY <1>1, <1>2, <1>3 DEF IsNext

LEMMA AddToHeadKeepsInv ==
    ASSUME ChildInv, NEW b \in Blocks, NEW callers \in Seq(FrameType), Numbered(callers) = Numbered(frames),
           AddToHead(b, callers)
    PROVE  ChildInv'
  <1> DEFINE n == b.number
  <1>1. IsNext(b) /\ AllThere(b) /\ SpentBy(b) \cap spent = {}
    BY Validated DEF AddToHead
  <1>2. /\ n \in Nat /\ nextChildBlock \in Nat /\ nextDepositBlock \in Nat /\ ChildBlockInterval \in Nat \ {0}
        /\ nextDepositBlock <= n /\ n <= nextChildBlock
        /\ n = nextChildBlock \/ n = nextDepositBlock
        /\ \A m \in DOMAIN blocks : m \in Nat /\ m < n
    BY <1>1, NextNumbers
  <1>3. /\ spent' = spent \cup SpentBy(b)
        /\ blocks' = [m \in DOMAIN blocks \cup {n} |-> IF m = n THEN b ELSE blocks[m]]
        /\ frames' = Append(callers, [number |-> n, tried |-> 0])
        /\ result' = "none" /\ parentQueue' = parentQueue /\ abandoned' = abandoned
    BY DEF AddToHead
  <1>4. /\ DOMAIN blocks' = DOMAIN blocks \cup {n} /\ blocks'[n] = b
        /\ \A m \in DOMAIN blocks : blocks'[m] = blocks[m] /\ m # n
    BY <1>2, <1>3
  <1>5. BlocksStay
    BY <1>4 DEF BlocksStay
  <1>6. IF n = nextChildBlock
        THEN nextDepositBlock' = n + 1 /\ nextChildBlock' = nextChildBlock + ChildBlockInterval
        ELSE nextDepositBlock' = n + 1 /\ nextChildBlock' = nextChildBlock
    BY <1>2 DEF AddToHead
  <1>7. Heads' /\ nextChildBlock' \in Nat /\ nextDepositBlock' \in 1 .. nextChildBlock'
    BY <1>2, <1>4, <1>6 DEF ChildInv, Heads, ChildTypeOK
  <1>8. frames' \in Seq(FrameType) /\ Numbered(frames)' = Numbered(frames) \cup {n}
    <2>1. [number |-> n, tried |-> 0] \in FrameType
      BY <1>2 DEF FrameType
    <2>2. frames' \in Seq(FrameType) /\ Len(frames') = Len(callers) + 1 /\ frames'[Len(callers) + 1].number = n
          /\ \A k \in 1 .. Len(callers) : frames'[k] = callers[k]
      BY <1>3, <2>1
    <2>3. DOMAIN frames' = 1 .. Len(callers) + 1 /\ DOMAIN callers = 1 .. Len(callers) /\ Len(callers) \in Nat
      BY <2>2
    <2>4. Numbered(frames') = Numbered(callers) \cup {n}
      BY <2>2, <2>3 DEF Numbered
    <2> QED BY <2>2, <2>4 DEF Numbered
  <1>9. SpentBy(b) \subseteq Txs \X (Nat \ {0})
    <2> SUFFICES ASSUME NEW k \in DOMAIN b.transactions, NEW x \in InputsOf(b.transactions[k]),
                        Exists(TxInputs[b.transactions[k]][x])
                 PROVE  OutputOf(TxInputs[b.transactions[k]][x]) \in Txs \X (Nat \ {0})
      BY DEF SpentBy, SpentByTx
    <2> DEFINE i == TxInputs[b.transactions[k]][x]
               home == blocks[Located(i).blknum]
    <2>1. home \in Blocks /\ Located(i).txindex + 1 \in DOMAIN home.transactions
      BY DEF Exists, ChildInv, ChildTypeOK
    <2>2. GetTransaction(i) \in Txs
      <3>1. home.transactions \in Seq(Txs) /\ GetTransaction(i) = home.transactions[Located(i).txindex + 1]
        BY <2>1, ChainAssumption DEF GetTransaction, BlockType
      <3> HIDE DEF home, i
      <3> QED BY <2>1, <3>1
    <2>3. i.oindex \in Nat
      <3>1. b.transactions[k] \in Txs
        BY ChainAssumption DEF BlockType
      <3>2. i \in Positions
        BY <3>1, ChainAssumption DEF InputsOf
      <3> QED BY <3>2 DEF Positions
    <2> QED BY <2>2, <2>3 DEF OutputOf
  <1>10. ChildTypeOK'
    <2>1. blocks' \in [DOMAIN blocks' -> Blocks] /\ DOMAIN blocks' \subseteq Nat
      BY <1>2, <1>3 DEF ChildInv, ChildTypeOK
    <2>2. spent' \subseteq Txs \X (Nat \ {0})
      BY <1>3, <1>9 DEF ChildInv, ChildTypeOK
    <2> QED BY <1>3, <1>7, <1>8, <2>1, <2>2 DEF ChildInv, ChildTypeOK, FrameType
  <1>11. AllThere(b)' /\ SpentBy(b)' = SpentBy(b)
    BY <1>1, <1>5, SpendingStays
  <1>12. \A m \in DOMAIN blocks : /\ AllThere(blocks[m]) /\ SpentBy(blocks[m]) \subseteq spent
    BY DEF ChildInv, Marked
  <1>13. ASSUME NEW m \in DOMAIN blocks
         PROVE  (AllThere(blocks[m]))' /\ (SpentBy(blocks[m]))' = SpentBy(blocks[m])
    BY <1>5, StoredStay DEF ChildInv
  <1>14. Marked'
    BY <1>3, <1>4, <1>11, <1>12, <1>13 DEF Marked
  <1>15. SpendsTheOlder'
    <2>1. OlderThan(n, b)
      BY <1>1, <1>2, InputsStay, <1>5 DEF AllThere, OlderThan
    <2>2. \A m \in DOMAIN blocks : OlderThan(m, blocks[m])
      BY OlderIs DEF ChildInv, BlocksSpendOnce
    <2>3. \A m \in DOMAIN blocks' : OlderThan(m, blocks'[m])
      BY <1>4, <2>1, <2>2
    <2>4. (\A m \in DOMAIN blocks : AllThere(blocks[m]) /\ OlderThan(m, blocks[m]))'
      BY <1>14, <2>3 DEF Marked, OlderThan
    <2> QED BY <2>4 DEF SpendsTheOlder, AllThere, OlderThan
  <1>16. BlocksSpendOnce'
    <2>1. ASSUME NEW l \in DOMAIN blocks', NEW m \in DOMAIN blocks', l # m
          PROVE  (SpentBy(blocks[l]))' \cap (SpentBy(blocks[m]))' = {}
      <3>1. CASE l = n
        BY <1>1, <1>4, <1>11, <1>12, <1>13, <2>1, <3>1
      <3>2. CASE m = n
        BY <1>1, <1>4, <1>11, <1>12, <1>13, <2>1, <3>2
      <3>3. CASE l # n /\ m # n
        BY <1>4, <1>13, <2>1, <3>3 DEF ChildInv, BlocksSpendOnce
      <3> QED BY <3>1, <3>2, <3>3
    <2> QED BY <1>15, <2>1 DEF BlocksSpendOnce
  <1>17. WaitersAreServed'
    BY <1>3, <1>4, <1>8 DEF ChildInv, WaitersAreServed, Numbered
  <1> QED BY <1>7, <1>10, <1>14, <1>16, <1>17 DEF ChildInv

\* What concerns only the chain and its flags stays as long as they do.
LEMMA ChainStays ==
    ASSUME Marked, BlocksSpendOnce, blocks' = blocks, spent' = spent
    PROVE  Marked' /\ BlocksSpendOnce'
  <1>1. \A m \in DOMAIN blocks : (AllThere(blocks[m]))' /\ (SpentBy(blocks[m]))' = SpentBy(blocks[m])
    BY StoredStay DEF BlocksStay
  <1>2. Marked'
    BY <1>1 DEF Marked
  <1>3. SpendsTheOlder'
    <2>1. \A m \in DOMAIN blocks : OlderThan(m, blocks[m])
      BY OlderIs DEF BlocksSpendOnce
    <2>2. (\A m \in DOMAIN blocks : AllThere(blocks[m]) /\ OlderThan(m, blocks[m]))'
      BY <1>1, <2>1 DEF OlderThan
    <2> QED BY <2>2 DEF SpendsTheOlder, AllThere, OlderThan
  <1> QED BY <1>1, <1>2, <1>3 DEF BlocksSpendOnce

LEMMA NothingAddedKeepsInv ==
    ASSUME ChildInv, NEW b \in Blocks, NEW callers \in Seq(FrameType), Numbered(callers) = Numbered(frames),
           Reject(b, callers) \/ Raise(b, callers) \/ Wait(b, callers) \/ AlreadyThere(b, callers)
    PROVE  ChildInv'
  <1>1. /\ blocks' = blocks /\ spent' = spent /\ nextChildBlock' = nextChildBlock
        /\ nextDepositBlock' = nextDepositBlock
    BY DEF Reject, Raise, Wait, AlreadyThere, ReturnFalse
  <1>2. Heads' /\ Marked' /\ BlocksSpendOnce'
    BY <1>1, ChainStays DEF ChildInv, Heads
  <1>3. frames' \in Seq(FrameType) /\ result' \in {"none", "True", "False", "raised"} /\ abandoned' \subseteq Nat
        /\ Numbered(frames) \cup abandoned \subseteq Numbered(frames') \cup abandoned'
    <2>1. CASE Raise(b, callers)
      <3>1. frames' = <<>> /\ result' = "raised" /\ abandoned' = abandoned \cup Numbered(callers)
        BY <2>1 DEF Raise, Numbered
      <3>2. Numbered(callers) \subseteq Nat
        <4>1. \A k \in DOMAIN callers : callers[k] \in FrameType
          OBVIOUS
        <4> QED BY <4>1 DEF Numbered, FrameType
      <3> QED BY <3>1, <3>2 DEF ChildInv, ChildTypeOK
    <2>2. CASE Reject(b, callers) \/ Wait(b, callers) \/ AlreadyThere(b, callers)
      BY <2>2 DEF Reject, Wait, AlreadyThere, ReturnFalse, ChildInv, ChildTypeOK
    <2> QED BY <2>1, <2>2
  <1>4. parentQueue' \in [DOMAIN parentQueue' -> Seq(Blocks)] /\ DOMAIN parentQueue' \subseteq Nat
        /\ \A n \in DOMAIN parentQueue' : n \in DOMAIN parentQueue \/ n \notin DOMAIN blocks
    <2>1. CASE Wait(b, callers)
      <3> DEFINE n == b.number - 1
      <3>1. /\ b.number \in Nat \ {0} /\ nextDepositBlock \in Nat /\ b.number > nextDepositBlock
            /\ parentQueue' = [m \in DOMAIN parentQueue \cup {n} |->
                                 IF m = n THEN Append(Waiting(m), b) ELSE parentQueue[m]]
        BY <2>1, ChainAssumption DEF Wait, BlockType, ChildInv, ChildTypeOK
      <3>2. n \in Nat /\ n \notin DOMAIN blocks
        BY <3>1 DEF ChildInv, Heads, ChildTypeOK
      <3>3. Waiting(n) \in Seq(Blocks)
        BY DEF Waiting, ChildInv, ChildTypeOK
      <3>4. Append(Waiting(n), b) \in Seq(Blocks)
        BY <3>3
      <3> QED BY <3>1, <3>2, <3>4 DEF ChildInv, ChildTypeOK
    <2>2. CASE parentQueue' = parentQueue
      BY <2>2 DEF ChildInv, ChildTypeOK
    <2> QED BY <2>1, <2>2 DEF Reject, Raise, AlreadyThere
  <1>5. ChildTypeOK'
    BY <1>1, <1>3, <1>4 DEF ChildInv, ChildTypeOK, FrameType
  <1>6. WaitersAreServed'
    BY <1>1, <1>3, <1>4 DEF ChildInv, WaitersAreServed, Numbered
  <1> QED BY <1>2, <1>5, <1>6 DEF ChildInv

\* The activations that a waiting block is added from.
LEMMA WaitingTurn ==
    ASSUME ChildInv, AddWaiting
    PROVE  \E b \in Blocks, callers \in Seq(FrameType) :
             Numbered(callers) = Numbered(frames) /\ Activate(b, callers)
  <1> DEFINE f == Innermost
             w == Waiting(f.number)
             next == [number |-> f.number, tried |-> f.tried + 1]
             callers == [frames EXCEPT ![Len(frames)] = next]
  <1>1. /\ frames \in Seq(FrameType) /\ Len(frames) \in Nat \ {0} /\ f = frames[Len(frames)] /\ f \in FrameType
        /\ DOMAIN frames = 1 .. Len(frames)
    <2>1. frames \in Seq(FrameType) /\ frames # <<>> /\ f = frames[Len(frames)]
      BY DEF AddWaiting, Innermost, ChildInv, ChildTypeOK, FrameType
    <2> HIDE DEF f
    <2>2. Len(frames) \in Nat \ {0} /\ DOMAIN frames = 1 .. Len(frames)
      BY <2>1
    <2> QED BY <2>1, <2>2
  <1>2. next \in FrameType
    BY <1>1 DEF FrameType
  <1>3. callers \in Seq(FrameType) /\ DOMAIN callers = DOMAIN frames
    BY <1>1, <1>2
  <1>4. Numbered(callers) = Numbered(frames)
    <2>1. \A k \in DOMAIN frames : callers[k].number = frames[k].number
      BY <1>1
    <2> QED BY <1>3, <2>1 DEF Numbered
  <1>5. w[f.tried + 1] \in Blocks
    <2>1. w \in Seq(Blocks) /\ f.tried \in Nat /\ f.tried < Len(w)
      BY <1>1 DEF Waiting, AddWaiting, Untried, ChildInv, ChildTypeOK, FrameType
    <2> QED BY <2>1
  <1>6. Activate(w[f.tried + 1], callers)
    BY DEF AddWaiting
  <1> QED BY <1>3, <1>4, <1>5, <1>6

LEMMA ReturnTrueKeepsInv ==
    ASSUME ChildInv, ReturnTrue
    PROVE  ChildInv'
  <1> DEFINE f == Innermost
  <1>1. /\ frames \in Seq(FrameType) /\ Len(frames) \in Nat \ {0} /\ f = frames[Len(frames)]
        /\ DOMAIN frames = 1 .. Len(frames)
    BY DEF ReturnTrue, Innermost, ChildInv, ChildTypeOK, FrameType
  <1>2. /\ blocks' = blocks /\ spent' = spent /\ nextChildBlock' = nextChildBlock
        /\ nextDepositBlock' = nextDepositBlock /\ abandoned' = abandoned
        /\ parentQueue' = [n \in DOMAIN parentQueue \ {f.number} |-> parentQueue[n]]
        /\ frames' = SubSeq(frames, 1, Len(frames) - 1) /\ result' \in {"none", "True", "False", "raised"}
    BY DEF ReturnTrue
  <1>3. Heads' /\ Marked' /\ BlocksSpendOnce'
    BY <1>2, ChainStays DEF ChildInv, Heads
  <1>4. /\ frames' \in Seq(FrameType) /\ DOMAIN frames' = 1 .. Len(frames) - 1
        /\ \A k \in 1 .. Len(frames) - 1 : frames'[k] = frames[k]
    BY <1>1, <1>2
  <1>5. Numbered(frames) \subseteq Numbered(frames') \cup {f.number}
    BY <1>1, <1>4 DEF Numbered
  <1>6. ChildTypeOK'
    BY <1>2, <1>4 DEF ChildInv, ChildTypeOK, FrameType
  <1>7. WaitersAreServed'
    BY <1>2, <1>5 DEF ChildInv, WaitersAreServed, Numbered
  <1> QED BY <1>3, <1>6, <1>7 DEF ChildInv

LEMMA NothingChangesKeepsInv ==
    ASSUME ChildInv, UNCHANGED childVars
    PROVE  ChildInv'
  <1>1. Marked' /\ BlocksSpendOnce'
    BY ChainStays DEF childVars, ChildInv
  <1> QED BY <1>1 DEF childVars, ChildInv, ChildTypeOK, Heads, WaitersAreServed

\* A caller's block, or one that waited: some block is activated, or an activation returns.
LEMMA StepsAre ==
    ASSUME ChildInv, ChildNext
    PROVE  \/ \E b \in Blocks, callers \in Seq(FrameType) :
                Numbered(callers) = Numbered(frames) /\ Activate(b, callers)
           \/ ReturnTrue
  <1>1. ASSUME NEW b \in Blocks, AddBlock(b)
        PROVE  \E callers \in Seq(FrameType) : Numbered(callers) = Numbered(frames) /\ Activate(b, callers)
    <2>1. frames = <<>> /\ Activate(b, <<>>)
      BY <1>1 DEF AddBlock
    <2>2. <<>> \in Seq(FrameType)
      OBVIOUS
    <2> QED BY <2>1, <2>2
  <1> QED BY <1>1, WaitingTurn DEF ChildNext

LEMMA ChildInvHolds == ChildSpec => []ChildInv
  <1>1. ChildInit => ChildInv
    <2> SUFFICES ASSUME ChildInit PROVE ChildInv
      OBVIOUS
    <2>1. Heads /\ Marked /\ BlocksSpendOnce /\ WaitersAreServed
      BY ChainAssumption DEF ChildInit, Heads, Marked, BlocksSpendOnce, SpendsTheOlder, WaitersAreServed
    <2>2. ChildTypeOK
      BY ChainAssumption DEF ChildInit, ChildTypeOK
    <2> QED BY <2>1, <2>2 DEF ChildInv
  <1>2. ChildInv /\ [ChildNext]_childVars => ChildInv'
    <2> SUFFICES ASSUME ChildInv, ChildNext PROVE ChildInv'
      BY NothingChangesKeepsInv
    <2> QED BY StepsAre, ReturnTrueKeepsInv, AddToHeadKeepsInv, NothingAddedKeepsInv DEF Activate
  <1> QED BY <1>1, <1>2, PTL DEF ChildSpec

----------------------------------------------------------------------------

\* No two blocks spend the same output and none spends from itself or a later one, whatever
\* blocks come in whatever order.
THEOREM NothingSpentTwice == ChildSpec => []BlocksSpendOnce
  <1>1. ChildInv => BlocksSpendOnce
    BY DEF ChildInv
  <1> QED BY <1>1, ChildInvHolds, PTL

\* A block that waits for one that is there gets its turn, or an exception ended the turns.
THEOREM NoneWaitsForNothing == ChildSpec => []WaitersAreServed
  <1>1. ChildInv => WaitersAreServed
    BY DEF ChildInv
  <1> QED BY <1>1, ChildInvHolds, PTL

----------------------------------------------------------------------------
(* What outputs are worth. *)

ValueOf == [o \in Outputs(Txs) |-> Value(o)]
Sum(S) == SumFunctionOnSet(ValueOf, S)
TxsOf(b) == {b.transactions[k] : k \in DOMAIN b.transactions}

LEMMA OutputFacts ==
    /\ \A t \in Txs : /\ IsFiniteSet(DOMAIN TxOutputs[t]) /\ DOMAIN TxOutputs[t] \subseteq Nat \ {0}
                      /\ \A k \in DOMAIN TxOutputs[t] : TxOutputs[t][k].amount \in Nat
    /\ \A o \in Outputs(Txs) : Value(o) \in Nat /\ ValueOf[o] = Value(o) /\ ValueOf[o] \in Int
    /\ \A t : \A k : <<t, k>> \in Outputs(Txs) <=> t \in Txs /\ k \in DOMAIN TxOutputs[t]
  <1>1. ASSUME NEW t \in Txs
        PROVE  /\ IsFiniteSet(DOMAIN TxOutputs[t]) /\ DOMAIN TxOutputs[t] \subseteq Nat \ {0}
               /\ \A k \in DOMAIN TxOutputs[t] : TxOutputs[t][k].amount \in Nat
    <2>1. TxOutputs[t] \in Seq(OutputType)
      BY ChainAssumption
    <2>2. DOMAIN TxOutputs[t] = 1 .. Len(TxOutputs[t]) /\ Len(TxOutputs[t]) \in Nat
      BY <2>1
    <2>3. IsFiniteSet(1 .. Len(TxOutputs[t]))
      <3> DEFINE n == Len(TxOutputs[t])
      <3>1. 1 \in Int /\ n \in Int
        BY <2>2
      <3> HIDE DEF n
      <3>2. IsFiniteSet(1 .. n)
        BY <3>1, FS_Interval
      <3> QED BY <3>2 DEF n
    <2>4. \A k \in DOMAIN TxOutputs[t] : TxOutputs[t][k] \in OutputType
      BY <2>1
    <2> QED BY <2>2, <2>3, <2>4 DEF OutputType
  <1>2. \A t : \A k : <<t, k>> \in Outputs(Txs) <=> t \in Txs /\ k \in DOMAIN TxOutputs[t]
    BY DEF Outputs
  <1>3. \A o \in Outputs(Txs) : \E t \in Txs : \E k \in DOMAIN TxOutputs[t] : o = <<t, k>>
    BY DEF Outputs
  <1>4. \A o \in Outputs(Txs) : Value(o) \in Nat
    BY <1>1, <1>3 DEF Value
  <1> QED BY <1>1, <1>2, <1>4 DEF ValueOf

LEMMA WorthIsSum ==
    ASSUME NEW S, IsFiniteSet(S), S \subseteq Outputs(Txs)
    PROVE  Worth(S) = Sum(S) /\ Sum(S) \in Nat
  <1> DEFINE f == [o \in S |-> Value(o)]
  <1>1. \A o \in S : f[o] = ValueOf[o] /\ ValueOf[o] \in Nat
    BY OutputFacts
  <1>2. Worth(S) = SumFunctionOnSet(f, S)
    BY DEF Worth, SumFunction
  <1> HIDE DEF f
  <1>3. SumFunctionOnSet(f, S) = SumFunctionOnSet(ValueOf, S)
    BY <1>1, SumSame
  <1>4. SumFunctionOnSet(ValueOf, S) \in Nat
    BY <1>1, SumNat
  <1> QED BY <1>2, <1>3, <1>4 DEF Sum

\* The outputs of a transaction are worth OutputAmount, and those of several the sum of these.
OutputAmounts == [t \in Txs |-> OutputAmount(t)]

LEMMA OutputAmountIs ==
    ASSUME NEW t \in Txs
    PROVE  /\ IsFiniteSet({t} \X DOMAIN TxOutputs[t])
           /\ OutputAmount(t) = Sum({t} \X DOMAIN TxOutputs[t]) /\ OutputAmount(t) \in Nat
  <1> DEFINE K == DOMAIN TxOutputs[t]
             S == {t} \X K
             h == [k \in K |-> TxOutputs[t][k].amount]
             e == [k \in K |-> <<t, k>>]
  <1>1. S = {e[k] : k \in K} /\ \A x, y \in K : e[x] = e[y] => x = y
    <2>1. \A k \in K : e[k] = <<t, k>>
      OBVIOUS
    <2>2. S = {<<t, k>> : k \in K}
      OBVIOUS
    <2> HIDE DEF S, K, e
    <2> QED BY <2>1, <2>2
  <1>2. \A k \in K : e[k] \in Outputs(Txs) /\ Value(e[k]) = h[k] /\ h[k] \in Nat
    BY OutputFacts DEF Value
  <1>3. \A k \in K : ValueOf[e[k]] = h[k] /\ ValueOf[e[k]] \in Int
    BY <1>2, OutputFacts
  <1>4. IsFiniteSet(K) /\ K \in SUBSET K /\ IsFiniteSet({t})
    BY OutputFacts, FS_Singleton
  <1>5. IsFiniteSet(S)
    BY <1>4, FS_Product
  <1>6. OutputAmount(t) = SumFunctionOnSet(h, K)
    BY DEF OutputAmount, SumFunction
  <1> HIDE DEF K, S, h, e
  <1>7. SumFunctionOnSet(ValueOf, {e[k] : k \in K}) = SumFunctionOnSet(h, K)
    BY <1>1, <1>3, <1>4, SumImage
  <1>8. SumFunctionOnSet(h, K) \in Nat
    BY <1>2, <1>4, SumNat
  <1> QED BY <1>1, <1>5, <1>6, <1>7, <1>8 DEF Sum, S, K

LEMMA OutputsAreWorth ==
    ASSUME NEW T, IsFiniteSet(T), T \subseteq Txs
    PROVE  /\ IsFiniteSet(Outputs(T)) /\ Outputs(T) \subseteq Outputs(Txs)
           /\ Sum(Outputs(T)) = SumFunctionOnSet(OutputAmounts, T)
  <1> DEFINE F == [t \in Txs |-> {t} \X DOMAIN TxOutputs[t]]
  <1>1. \A t \in T : IsFiniteSet(F[t]) /\ OutputAmounts[t] = SumFunctionOnSet(ValueOf, F[t])
    BY OutputAmountIs DEF Sum, OutputAmounts
  <1>2. \A t, u \in T : t # u => F[t] \cap F[u] = {}
    OBVIOUS
  <1>3. \A o : o \in Outputs(T) <=> \E t \in T : o \in F[t]
    BY DEF Outputs
  <1>4. Outputs(T) \subseteq Outputs(Txs)
    BY DEF Outputs
  <1>5. \A t \in T : \A o \in F[t] : ValueOf[o] \in Int
    BY <1>3, <1>4, OutputFacts
  <1> HIDE DEF F
  <1>6. IsFiniteSet(Outputs(T)) /\ SumFunctionOnSet(ValueOf, Outputs(T)) = SumFunctionOnSet(OutputAmounts, T)
    <2>1. \A t \in T : IsFiniteSet(F[t])
      BY <1>1
    <2>2. \A t \in T : OutputAmounts[t] = SumFunctionOnSet(ValueOf, F[t])
      BY <1>1
    <2> QED BY <1>2, <1>3, <1>5, <2>1, <2>2, SumFamily
  <1> QED BY <1>4, <1>6 DEF Sum

\* The inputs of a transaction that names no output twice are worth what it spends.
LEMMA InputAmountIs ==
    ASSUME NEW t \in Txs, \A x \in InputsOf(t) : Exists(TxInputs[t][x]),
           \A x, y \in InputsOf(t) : x # y => OutputOf(TxInputs[t][x]) # OutputOf(TxInputs[t][y]),
           SpentByTx(t) \subseteq Outputs(Txs)
    PROVE  /\ IsFiniteSet(SpentByTx(t))
           /\ InputAmount(t) = Sum(SpentByTx(t)) /\ InputAmount(t) \in Nat
  <1> DEFINE X == InputsOf(t)
             S == SpentByTx(t)
             e == [x \in X |-> OutputOf(TxInputs[t][x])]
             h == [x \in X |-> Value(OutputOf(TxInputs[t][x]))]
  <1>1. \A x \in X : e[x] \in S /\ h[x] = Value(e[x])
    BY DEF SpentByTx
  <1>2. \A o \in S : \E x \in X : o = e[x]
    BY DEF SpentByTx
  <1>3. \A x, y \in X : e[x] = e[y] => x = y
    OBVIOUS
  <1>4. IsFiniteSet(X)
    <2>1. TxInputs[t] \in Seq(Positions)
      BY ChainAssumption
    <2> DEFINE n == Len(TxInputs[t])
    <2>2. n \in Int /\ 1 \in Int /\ X \subseteq 1 .. n
      BY <2>1 DEF InputsOf
    <2> HIDE DEF n, X
    <2>3. IsFiniteSet(1 .. n)
      BY <2>2, FS_Interval
    <2> QED BY <2>2, <2>3, FS_Subset
  <1>5. InputAmount(t) = SumFunctionOnSet(h, X)
    BY DEF InputAmount, SumFunction
  <1>6. S \subseteq Outputs(Txs)
    OBVIOUS
  <1>13. e \in Surjection(X, S)
    BY <1>1, <1>2 DEF Surjection
  <1> HIDE DEF X, S, e, h
  <1>7. \A x \in X : h[x] = ValueOf[e[x]] /\ ValueOf[e[x]] \in Int /\ h[x] \in Nat
    BY <1>1, <1>6, OutputFacts
  <1>8. S = {e[x] : x \in X}
    BY <1>1, <1>2
  <1>9. IsFiniteSet(S)
    BY <1>4, <1>13, FS_Surjection
  <1>10. X \in SUBSET X
    OBVIOUS
  <1>11. SumFunctionOnSet(ValueOf, {e[x] : x \in X}) = SumFunctionOnSet(h, X)
    BY <1>3, <1>4, <1>7, <1>10, SumImage
  <1>12. SumFunctionOnSet(h, X) \in Nat
    BY <1>4, <1>7, <1>10, SumNat
  <1> QED BY <1>5, <1>8, <1>9, <1>11, <1>12 DEF Sum, S

\* What a block that is validated makes of what it spends: the outputs of its transactions, but
\* for the deposits, are worth no more.
LEMMA SpendsAreWorth ==
    ASSUME NEW b \in Blocks, ValidateBlock(b) = "ok", NamesEachOnce(b),
           IsFiniteSet(SpentBy(b)), SpentBy(b) \subseteq Outputs(Txs),
           NEW T, IsFiniteSet(T), T \subseteq TxsOf(b), \A t \in T : ~ IsDepositTx(t)
    PROVE  Sum(Outputs(T)) <= Sum(SpentBy(b))
  <1>1. AllThere(b) /\ T \subseteq Txs
    BY Validated, ValidatedTxs DEF TxsOf
  <1>2. ASSUME NEW t \in T
        PROVE  /\ \A x \in InputsOf(t) : Exists(TxInputs[t][x])
               /\ \A x, y \in InputsOf(t) : x # y => OutputOf(TxInputs[t][x]) # OutputOf(TxInputs[t][y])
               /\ SpentByTx(t) \subseteq SpentBy(b) /\ SpentByTx(t) \subseteq Outputs(Txs)
               /\ OutputAmount(t) <= InputAmount(t)
    <2>1. PICK k \in DOMAIN b.transactions : t = b.transactions[k]
      BY DEF TxsOf
    <2>2. \A x \in InputsOf(t) : Exists(TxInputs[t][x])
      BY <1>1, <2>1 DEF AllThere
    <2>3. \A x, y \in InputsOf(t) : x # y => OutputOf(TxInputs[t][x]) # OutputOf(TxInputs[t][y])
      BY <2>1 DEF NamesEachOnce
    <2>4. SpentByTx(t) \subseteq SpentBy(b)
      BY <2>1 DEF SpentBy
    <2>5. SpentByTx(t) \subseteq Outputs(Txs)
      BY <2>4
    <2>6. InputAmount(t) \in Nat /\ OutputAmount(t) \in Nat
      BY <1>1, <2>2, <2>3, <2>5, InputAmountIs, OutputAmountIs
    <2>7. ~ (InputAmount(t) < OutputAmount(t))
      <3>1. ValidateTransaction(t) = "ok" /\ ~ IsDepositTx(t)
        BY <2>1, ValidatedTxs
      <3> QED BY <3>1 DEF ValidateTransaction
    <2> QED BY <2>2, <2>3, <2>4, <2>5, <2>6, <2>7
  <1>3. \A t \in T : IsFiniteSet(SpentByTx(t)) /\ InputAmount(t) = Sum(SpentByTx(t)) /\ InputAmount(t) \in Nat
    BY <1>1, <1>2, InputAmountIs
  <1> DEFINE F == [t \in T |-> SpentByTx(t)]
             inputs == [t \in T |-> InputAmount(t)]
             W == UNION {SpentByTx(t) : t \in T}
  <1>4. \A t \in T : IsFiniteSet(F[t])
    BY <1>3
  <1>5. \A t \in T : inputs[t] = SumFunctionOnSet(ValueOf, F[t])
    BY <1>3 DEF Sum
  <1>6. \A t, u \in T : t # u => F[t] \cap F[u] = {}
    <2> SUFFICES ASSUME NEW t \in T, NEW u \in T, NEW o, o \in SpentByTx(t), o \in SpentByTx(u), t # u PROVE FALSE
      OBVIOUS
    <2>1. PICK k \in DOMAIN b.transactions : t = b.transactions[k]
      BY DEF TxsOf
    <2>2. PICK l \in DOMAIN b.transactions : u = b.transactions[l]
      BY DEF TxsOf
    <2>3. PICK x \in InputsOf(t) : o = OutputOf(TxInputs[t][x])
      BY DEF SpentByTx
    <2>4. PICK y \in InputsOf(u) : o = OutputOf(TxInputs[u][y])
      BY DEF SpentByTx
    <2>5. <<k, x>> # <<l, y>>
      BY <2>1, <2>2
    <2> QED BY <2>1, <2>2, <2>3, <2>4, <2>5 DEF NamesEachOnce
  <1>7. \A o : o \in W <=> \E t \in T : o \in F[t]
    OBVIOUS
  <1>8. W \subseteq SpentBy(b)
    BY <1>2
  <1>9. \A t \in T : \A o \in F[t] : ValueOf[o] \in Int
    BY <1>2, OutputFacts
  <1>10. \A t \in T : OutputAmounts[t] \in Int /\ inputs[t] \in Int /\ OutputAmounts[t] <= inputs[t]
    <2> SUFFICES ASSUME NEW t \in T
                 PROVE  OutputAmounts[t] \in Int /\ inputs[t] \in Int /\ OutputAmounts[t] <= inputs[t]
      OBVIOUS
    <2>1. OutputAmounts[t] = OutputAmount(t) /\ inputs[t] = InputAmount(t)
      BY <1>1 DEF OutputAmounts
    <2>2. OutputAmount(t) \in Nat /\ InputAmount(t) \in Nat /\ OutputAmount(t) <= InputAmount(t)
      BY <1>1, <1>2, <1>3, OutputAmountIs
    <2> QED BY <2>1, <2>2
  <1> HIDE DEF F, inputs, W
  <1>11. IsFiniteSet(W) /\ SumFunctionOnSet(ValueOf, W) = SumFunctionOnSet(inputs, T)
    BY <1>4, <1>5, <1>6, <1>7, <1>9, SumFamily
  <1>12. SumFunctionOnSet(OutputAmounts, T) <= SumFunctionOnSet(inputs, T)
    <2>1. T \in SUBSET T
      OBVIOUS
    <2> QED BY <1>10, <2>1, SumMonotone
  <1>13. Sum(Outputs(T)) = SumFunctionOnSet(OutputAmounts, T) /\ Sum(Outputs(T)) \in Nat
    BY <1>1, OutputsAreWorth, WorthIsSum
  <1>14. SumFunctionOnSet(ValueOf, W) <= SumFunctionOnSet(ValueOf, SpentBy(b))
    <2> DEFINE U == SpentBy(b)
    <2>1. IsFiniteSet(U) /\ W \subseteq U /\ \A o \in U : ValueOf[o] \in Nat
      BY <1>8, OutputFacts
    <2> HIDE DEF U
    <2>2. SumFunctionOnSet(ValueOf, W) <= SumFunctionOnSet(ValueOf, U)
      BY <2>1, SumSubset
    <2> QED BY <2>2 DEF U
  <1>15. SumFunctionOnSet(ValueOf, W) \in Nat /\ SumFunctionOnSet(ValueOf, SpentBy(b)) \in Nat
    BY <1>8, <1>11, WorthIsSum DEF Sum
  <1> QED BY <1>11, <1>12, <1>13, <1>14, <1>15 DEF Sum

ValueInv == IsFiniteSet(IncludedTxs) /\ IncludedTxs \subseteq Txs /\ NoValueCreated
Unspent == Outputs(IncludedTxs) \ spent
DepositsIn == {t \in IncludedTxs : IsDepositTx(t)}

\* Naming no output twice depends on what is there only.
LEMMA NamingStays ==
    ASSUME BlocksStay, NEW b, AllThere(b)
    PROVE  NamesEachOnce(b)' <=> NamesEachOnce(b)
  <1>1. \A k \in DOMAIN b.transactions : \A x \in InputsOf(b.transactions[k]) :
          OutputOf(TxInputs[b.transactions[k]][x])' = OutputOf(TxInputs[b.transactions[k]][x])
    BY InputsStay DEF AllThere
  <1> QED BY <1>1 DEF NamesEachOnce

\* What a validated block spends is there, and not spent.
LEMMA SpendsUnspent ==
    ASSUME NEW b \in Blocks, ValidateBlock(b) = "ok", IncludedTxs \subseteq Txs
    PROVE  SpentBy(b) \subseteq Unspent
  <1>1. AllThere(b) /\ SpentBy(b) \cap spent = {}
    BY Validated
  <1>2. ASSUME NEW o \in SpentBy(b) PROVE o \in Outputs(IncludedTxs)
    <2>1. PICK k \in DOMAIN b.transactions : o \in SpentByTx(b.transactions[k])
      BY DEF SpentBy
    <2>2. PICK i : Exists(i) /\ o = OutputOf(i)
      BY <2>1 DEF SpentByTx
    <2>3. GetTransaction(i) \in IncludedTxs /\ i.oindex + 1 \in DOMAIN TxOutputs[GetTransaction(i)]
      BY <2>2 DEF Exists, GetTransaction, IncludedTxs
    <2> QED BY <2>2, <2>3 DEF OutputOf, Outputs
  <1> QED BY <1>1, <1>2 DEF Unspent

LEMMA TxsOfFinite ==
    ASSUME NEW b \in Blocks
    PROVE  IsFiniteSet(TxsOf(b)) /\ TxsOf(b) \subseteq Txs
  <1> DEFINE txs == b.transactions
             n == Len(txs)
             e == [k \in 1 .. n |-> txs[k]]
             S == TxsOf(b)
  <1>1. txs \in Seq(Txs)
    BY ChainAssumption DEF BlockType
  <1>2. DOMAIN txs = 1 .. n /\ n \in Nat /\ \A k \in 1 .. n : txs[k] \in Txs
    <2> HIDE DEF txs
    <2> QED BY <1>1
  <1>3. e \in Surjection(1 .. n, S) /\ S \subseteq Txs
    BY <1>2 DEF Surjection, TxsOf
  <1>4. n \in Int /\ 1 \in Int
    BY <1>2
  <1> HIDE DEF n, e, S
  <1>5. IsFiniteSet(1 .. n)
    BY <1>4, FS_Interval
  <1>6. IsFiniteSet(S)
    BY <1>3, <1>5, FS_Surjection
  <1> QED BY <1>3, <1>6 DEF S

LEMMA AddToHeadKeepsValue ==
    ASSUME ChildInv, ValueInv, NEW b \in Blocks, NEW callers, AddToHead(b, callers)
    PROVE  ValueInv'
  <1> DEFINE n == b.number
             Inc == IncludedTxs
             New == TxsOf(b) \ Inc
             D == DepositsIn
             NewD == {t \in New : IsDepositTx(t)}
             NewN == {t \in New : ~ IsDepositTx(t)}
             S == SpentBy(b)
             Rest == Unspent \ S
             After == Outputs(IncludedTxs') \ spent'
  <1>1. IsNext(b) /\ ValidateBlock(b) = "ok" /\ AllThere(b)
    BY Validated DEF AddToHead
  <1>2. \A m \in DOMAIN blocks : m # n
    BY <1>1, NextNumbers
  <1>3. /\ DOMAIN blocks' = DOMAIN blocks \cup {n} /\ blocks'[n] = b
        /\ \A m \in DOMAIN blocks : blocks'[m] = blocks[m]
        /\ spent' = spent \cup S
    BY <1>2 DEF AddToHead
  <1>4. BlocksStay
    BY <1>3 DEF BlocksStay
  <1>5. IncludedTxs' = Inc \cup New
    <2>1. IncludedTxs' = IncludedTxs \cup TxsOf(b)
      BY <1>3 DEF IncludedTxs, TxsOf
    <2> QED BY <2>1
  <1>6. IsFiniteSet(Inc) /\ IsFiniteSet(New) /\ Inc \subseteq Txs /\ New \subseteq Txs /\ New \subseteq TxsOf(b)
    BY TxsOfFinite, FS_Difference DEF ValueInv
  <1>7. IsFiniteSet(Inc \cup New) /\ Inc \cup New \subseteq Txs
    BY <1>6, FS_Union
  <1>8. ASSUME (\A m \in DOMAIN blocks : NamesEachOnce(blocks[m]))'
        PROVE  (Worth(Unspent) <= Worth(Outputs(DepositsIn)))'
    <2>1. NamesEachOnce(b)
      <3>1. NamesEachOnce(b)'
        BY <1>3, <1>8
      <3> QED BY <1>1, <1>4, <3>1, NamingStays
    <2>2. ASSUME NEW m \in DOMAIN blocks PROVE NamesEachOnce(blocks[m])
      <3>1. PICK old : old = blocks[m]
        OBVIOUS
      <3>2. NamesEachOnce(old)'
        BY <1>3, <1>8, <3>1
      <3>3. AllThere(old)
        BY <3>1 DEF ChildInv, Marked
      <3> QED BY <1>4, <3>1, <3>2, <3>3, NamingStays
    <2>3. Worth(Unspent) <= Worth(Outputs(D))
      BY <2>2 DEF ValueInv, NoValueCreated, Unspent, DepositsIn
    <2>4. /\ IsFiniteSet(D) /\ D \subseteq Txs /\ IsFiniteSet(NewD) /\ NewD \subseteq Txs
          /\ IsFiniteSet(NewN) /\ NewN \subseteq Txs /\ NewN \subseteq TxsOf(b)
          /\ D \subseteq Inc /\ NewD \subseteq New /\ NewN \subseteq New
      BY <1>6, FS_Subset DEF DepositsIn
    <2>5. \A T : IsFiniteSet(T) /\ T \subseteq Txs => IsFiniteSet(Outputs(T)) /\ Outputs(T) \subseteq Outputs(Txs)
      BY OutputsAreWorth
    <2>6. S \subseteq Unspent /\ Unspent \subseteq Outputs(Inc)
      BY <1>1, <1>6, SpendsUnspent DEF Unspent
    <2>7. /\ IsFiniteSet(Unspent) /\ IsFiniteSet(S) /\ IsFiniteSet(Rest)
          /\ Unspent \subseteq Outputs(Txs) /\ S \subseteq Outputs(Txs) /\ Rest \subseteq Outputs(Txs)
      BY <1>6, <2>5, <2>6, FS_Subset
    <2>8. \A T, U : Outputs(T \cup U) = Outputs(T) \cup Outputs(U)
      BY DEF Outputs
    <2>9. \A T, U : T \cap U = {} => Outputs(T) \cap Outputs(U) = {}
      BY DEF Outputs
    <2>10. After \subseteq Rest \cup Outputs(New)
      BY <1>3, <1>5, <2>8 DEF Unspent
    <2>11. \A A, B : /\ IsFiniteSet(A) /\ IsFiniteSet(B) /\ A \subseteq Outputs(Txs) /\ B \subseteq Outputs(Txs)
                     /\ A \cap B = {}
                     => Sum(A \cup B) = Sum(A) + Sum(B) /\ IsFiniteSet(A \cup B)
      <3> SUFFICES ASSUME NEW A, NEW B, IsFiniteSet(A), IsFiniteSet(B), A \subseteq Outputs(Txs), B \subseteq Outputs(Txs),
                          A \cap B = {}
                   PROVE  Sum(A \cup B) = Sum(A) + Sum(B) /\ IsFiniteSet(A \cup B)
        OBVIOUS
      <3>1. \A o \in A \cup B : ValueOf[o] \in Int
        BY OutputFacts
      <3>2. SumFunctionOnSet(ValueOf, A \cup B) = SumFunctionOnSet(ValueOf, A) + SumFunctionOnSet(ValueOf, B)
        BY <3>1, SumUnion
      <3> QED BY <3>2, FS_Union DEF Sum
    <2>12. \A A, B : IsFiniteSet(B) /\ B \subseteq Outputs(Txs) /\ A \subseteq B => IsFiniteSet(A) /\ Sum(A) <= Sum(B)
      <3> SUFFICES ASSUME NEW A, NEW B, IsFiniteSet(B), B \subseteq Outputs(Txs), A \subseteq B
                   PROVE  IsFiniteSet(A) /\ Sum(A) <= Sum(B)
        OBVIOUS
      <3>1. \A o \in B : ValueOf[o] \in Nat
        BY OutputFacts
      <3> QED BY <3>1, SumSubset, FS_Subset DEF Sum
    <2>13. Sum(Unspent) = Sum(S) + Sum(Rest)
      <3>1. Unspent = S \cup Rest /\ S \cap Rest = {}
        BY <2>6
      <3> HIDE DEF Rest, S
      <3> QED BY <2>7, <2>11, <3>1
    <2>14. Sum(Outputs(New)) = Sum(Outputs(NewD)) + Sum(Outputs(NewN))
      <3>1. New = NewD \cup NewN /\ NewD \cap NewN = {}
        OBVIOUS
      <3> HIDE DEF New, NewD, NewN
      <3>2. Outputs(New) = Outputs(NewD) \cup Outputs(NewN) /\ Outputs(NewD) \cap Outputs(NewN) = {}
        BY <2>8, <2>9, <3>1
      <3> QED BY <2>4, <2>5, <2>11, <3>2
    <2>15. Sum(Outputs(NewN)) <= Sum(S)
      <3>1. \A t \in NewN : ~ IsDepositTx(t)
        OBVIOUS
      <3> HIDE DEF NewN
      <3> QED BY <1>1, <2>1, <2>4, <2>7, <3>1, SpendsAreWorth
    <2>16. Sum(Outputs(D \cup NewD)) = Sum(Outputs(D)) + Sum(Outputs(NewD)) /\ IsFiniteSet(D \cup NewD)
      <3>1. D \cap NewD = {}
        BY <2>4
      <3> HIDE DEF D, NewD
      <3>2. Outputs(D \cup NewD) = Outputs(D) \cup Outputs(NewD) /\ Outputs(D) \cap Outputs(NewD) = {}
        BY <2>8, <2>9, <3>1
      <3> QED BY <2>4, <2>5, <2>11, <3>2, FS_Union
    <2>17. Sum(After) <= Sum(Rest) + Sum(Outputs(New)) /\ IsFiniteSet(After) /\ After \subseteq Outputs(Txs)
      <3>1. Rest \cap Outputs(New) = {}
        <4>1. Rest \subseteq Outputs(Inc) /\ Inc \cap New = {}
          BY <2>6
        <4> QED BY <2>9, <4>1
      <3>2. IsFiniteSet(Outputs(New)) /\ Outputs(New) \subseteq Outputs(Txs)
        BY <1>6, <2>5
      <3> HIDE DEF Rest, New, After
      <3>3. Sum(Rest \cup Outputs(New)) = Sum(Rest) + Sum(Outputs(New)) /\ IsFiniteSet(Rest \cup Outputs(New))
        BY <2>7, <2>11, <3>1, <3>2
      <3>4. Rest \cup Outputs(New) \subseteq Outputs(Txs)
        BY <2>7, <3>2
      <3> QED BY <2>10, <2>12, <3>3, <3>4
    <2>18. \A A : IsFiniteSet(A) /\ A \subseteq Outputs(Txs) => Worth(A) = Sum(A) /\ Sum(A) \in Nat
      BY WorthIsSum
    <2>19. /\ Worth(After) = Sum(After) /\ Worth(Unspent) = Sum(Unspent) /\ Worth(Outputs(D)) = Sum(Outputs(D))
           /\ Worth(Outputs(D \cup NewD)) = Sum(Outputs(D \cup NewD))
           /\ Sum(After) \in Nat /\ Sum(Unspent) \in Nat /\ Sum(Outputs(D)) \in Nat /\ Sum(Rest) \in Nat
           /\ Sum(S) \in Nat /\ Sum(Outputs(NewD)) \in Nat /\ Sum(Outputs(NewN)) \in Nat
      <3> HIDE DEF After, D, NewD, NewN, Rest, S
      <3>1. D \cup NewD \subseteq Txs
        BY <2>4
      <3> QED BY <2>4, <2>5, <2>7, <2>16, <2>17, <2>18, <3>1
    <2>20. Worth(After) <= Worth(Outputs(D \cup NewD))
      <3> HIDE DEF After, D, New, NewD, NewN, Rest, S
      <3> QED BY <2>3, <2>13, <2>14, <2>15, <2>16, <2>17, <2>19
    <2>21. DepositsIn' = D \cup NewD
      BY <1>5 DEF DepositsIn, IsDepositTx, InputsOf
    <2> HIDE DEF D, NewD
    <2> QED BY <2>20, <2>21 DEF Unspent, Worth, Outputs, Value
  <1>9. NoValueCreated'
    BY <1>8 DEF NoValueCreated, Unspent, DepositsIn
  <1> QED BY <1>5, <1>7, <1>9 DEF ValueInv

LEMMA ChainKeepsValue ==
    ASSUME ValueInv, blocks' = blocks, spent' = spent
    PROVE  ValueInv'
  <1>1. IncludedTxs' = IncludedTxs
    BY DEF IncludedTxs
  <1>2. \A i : OutputOf(i)' = OutputOf(i)
    BY DEF OutputOf, GetTransaction
  <1>3. \A b : NamesEachOnce(b)' <=> NamesEachOnce(b)
    BY <1>2 DEF NamesEachOnce
  <1>4. (\A n \in DOMAIN blocks : NamesEachOnce(blocks[n]))' <=> \A n \in DOMAIN blocks : NamesEachOnce(blocks[n])
    BY <1>3
  <1>5. (Worth(Outputs(IncludedTxs) \ spent))' = Worth(Outputs(IncludedTxs) \ spent)
    BY <1>1 DEF Worth, Outputs, Value
  <1>6. (Worth(Outputs({t \in IncludedTxs : IsDepositTx(t)})))' = Worth(Outputs({t \in IncludedTxs : IsDepositTx(t)}))
    BY <1>1 DEF Worth, Outputs, Value, IsDepositTx, InputsOf
  <1> QED BY <1>1, <1>4, <1>5, <1>6 DEF ValueInv, NoValueCreated

\* The blocks make no value, as long as each of them names no output twice, for any amounts.
THEOREM NoValueIsCreated == ChildSpec => []NoValueCreated
  <1>1. ChildInit => ValueInv
    <2> SUFFICES ASSUME ChildInit PROVE ValueInv
      OBVIOUS
    <2>1. IncludedTxs = {}
      BY DEF ChildInit, IncludedTxs
    <2>2. IsFiniteSet({}) /\ {} \subseteq Txs
      BY FS_EmptySet
    <2>3. Outputs(IncludedTxs) \ spent = {} /\ Outputs({t \in IncludedTxs : IsDepositTx(t)}) = {}
      BY <2>1 DEF Outputs
    <2>4. Worth({}) \in Nat
      BY <2>2, WorthIsSum
    <2> QED BY <2>1, <2>2, <2>3, <2>4 DEF ValueInv, NoValueCreated
  <1>2. ChildInv /\ ValueInv /\ [ChildNext]_childVars => ValueInv'
    <2> SUFFICES ASSUME ChildInv, ValueInv, [ChildNext]_childVars PROVE ValueInv'
      OBVIOUS
    <2>1. CASE UNCHANGED childVars
      BY <2>1, ChainKeepsValue DEF childVars
    <2>2. CASE ReturnTrue
      BY <2>2, ChainKeepsValue DEF ReturnTrue
    <2>3. ASSUME NEW b \in Blocks, NEW callers, Activate(b, callers) PROVE ValueInv'
      <3>1. AddToHead(b, callers) \/ UNCHANGED <<blocks, spent>>
        BY <2>3 DEF Activate, Reject, Raise, Wait, AlreadyThere, ReturnFalse
      <3> QED BY <3>1, AddToHeadKeepsValue, ChainKeepsValue
    <2> QED BY <2>1, <2>2, <2>3, StepsAre
  <1>3. ValueInv => NoValueCreated
    BY DEF ValueInv
  <1> QED BY <1>1, <1>2, <1>3, ChildInvHolds, PTL DEF ChildSpec

----------------------------------------------------------------------------
\* The numbers are those of the contract.

Multiples == \E c \in Int : nextChildBlock = ChildBlockInterval * c
AsStored == [n \in DOMAIN blocks |->
               [kind |-> IF n % ChildBlockInterval = 0 THEN "child" ELSE "deposit", timestamp |-> 1]]

LEMMA Remainder ==
    ASSUME NEW k \in Nat \ {0}, NEW q \in Int, NEW r \in 0 .. k - 1, (k * q) + r \in Nat
    PROVE  ((k * q) + r) % k = r
  OBVIOUS

\* The heads and the blocks move as a submission does.
LEMMA AddToHeadNumbers ==
    ASSUME ChildInv, Multiples, NEW b \in Blocks, NEW callers, AddToHead(b, callers)
    PROVE  Multiples' /\ (Numbers!SubmitBlock \/ Numbers!SubmitDepositBlock)
  <1> DEFINE n == b.number
             I == ChildBlockInterval
  <1>1. IsNext(b)
    BY DEF AddToHead
  <1>2. /\ n \in Nat /\ nextChildBlock \in Nat /\ nextDepositBlock \in Nat /\ I \in Nat \ {0}
        /\ nextDepositBlock <= n /\ n <= nextChildBlock
        /\ n = nextChildBlock \/ n = nextDepositBlock
        /\ nextChildBlock - I < nextDepositBlock
    BY <1>1, NextNumbers DEF ChildInv, Heads
  <1>3. DOMAIN blocks' = DOMAIN blocks \cup {n} /\ n <= MaxChildBlocks * I
    BY ChainAssumption DEF AddToHead
  <1>4. PICK c \in Int : nextChildBlock = I * c
    BY DEF Multiples
  <1>5. ASSUME NEW kind, kind = IF n % I = 0 THEN "child" ELSE "deposit"
        PROVE  AsStored' = [m \in DOMAIN AsStored \cup {n} |->
                              IF m = n THEN [kind |-> kind, timestamp |-> 1] ELSE AsStored[m]]
    BY <1>3, <1>5 DEF AsStored
  <1>6. CASE n = nextChildBlock
    <2>1. nextDepositBlock' = n + 1 /\ nextChildBlock' = n + I
      BY <1>6 DEF AddToHead
    <2>2. n % I = 0
      <3>1. (I * c) + 0 \in Nat /\ (I * c) + 0 = n
        BY <1>2, <1>4, <1>6
      <3>2. 0 \in 0 .. I - 1
        BY <1>2
      <3> QED BY <1>2, <3>1, <3>2, Remainder
    <2>3. Multiples'
      <3>1. n + I = I * (c + 1)
        BY <1>2, <1>4, <1>6
      <3> QED BY <2>1, <3>1 DEF Multiples
    <2>4. Numbers!Store(nextChildBlock, "child")
      BY <1>5, <1>6, <2>2 DEF Numbers!Store, AsStored
    <2>5. (nextDepositBlock - (nextChildBlock - I))' = 1
      BY <1>2, <2>1
    <2> QED BY <1>3, <1>6, <2>1, <2>3, <2>4, <2>5 DEF Numbers!SubmitBlock
  <1>7. CASE n # nextChildBlock
    <2>1. nextDepositBlock' = nextDepositBlock + 1 /\ nextChildBlock' = nextChildBlock /\ n = nextDepositBlock
      BY <1>2, <1>7 DEF AddToHead
    <2> DEFINE r == n - (nextChildBlock - I)
    <2>2. r \in 1 .. I - 1 /\ n = (I * (c - 1)) + r
      BY <1>2, <1>4, <1>7
    <2>3. n % I = r
      <3> HIDE DEF r, n, I
      <3>1. r \in 0 .. I - 1 /\ c - 1 \in Int /\ (I * (c - 1)) + r \in Nat
        BY <1>2, <2>2
      <3> QED BY <1>2, <2>2, <3>1, Remainder
    <2>4. n % I # 0
      BY <2>2, <2>3
    <2>5. Numbers!NextDepositBlock = n
      BY <1>2, <2>1 DEF Numbers!NextDepositBlock
    <2>6. Numbers!Store(Numbers!NextDepositBlock, "deposit")
      BY <1>5, <2>4, <2>5 DEF Numbers!Store, AsStored
    <2>7. /\ nextDepositBlock - (nextChildBlock - I) < I
          /\ (nextDepositBlock - (nextChildBlock - I))' = nextDepositBlock - (nextChildBlock - I) + 1
      BY <1>2, <1>7, <2>1
    <2>8. Numbers!SubmitDepositBlock
      BY <2>1, <2>6, <2>7 DEF Numbers!SubmitDepositBlock
    <2> QED BY <2>1, <2>8 DEF Multiples
  <1> QED BY <1>6, <1>7

\* Every other step leaves heads and blocks alone.
LEMMA NumbersStay ==
    ASSUME blocks' = blocks, nextChildBlock' = nextChildBlock, nextDepositBlock' = nextDepositBlock
    PROVE  UNCHANGED Numbers!vars /\ (Multiples => Multiples')
  BY DEF Numbers!vars, Multiples

LEMMA NumbersStep ==
    ASSUME ChildInv, Multiples, [ChildNext]_childVars
    PROVE  Multiples' /\ [Numbers!Next]_(Numbers!vars)
  <1>1. CASE UNCHANGED childVars \/ ReturnTrue
    BY <1>1, NumbersStay DEF childVars, ReturnTrue
  <1>2. ASSUME NEW b \in Blocks, NEW callers, Activate(b, callers)
        PROVE  Multiples' /\ [Numbers!Next]_(Numbers!vars)
    <2>1. CASE AddToHead(b, callers)
      BY <2>1, AddToHeadNumbers DEF Numbers!Next
    <2>2. CASE Reject(b, callers) \/ Raise(b, callers) \/ Wait(b, callers) \/ AlreadyThere(b, callers)
      BY <2>2, NumbersStay DEF Reject, Raise, Wait, AlreadyThere, ReturnFalse
    <2> QED BY <1>2, <2>1, <2>2 DEF Activate
  <1> QED BY <1>1, <1>2, StepsAre

\* The Python chain numbers its blocks as the contract does: it implements BlockController, for
\* every interval.
THEOREM ChainImplementsController == ChildSpec => NumbersLikeTheContract
  <1>1. ChildInit => Multiples /\ Numbers!Init
    <2> SUFFICES ASSUME ChildInit PROVE Multiples /\ Numbers!Init
      OBVIOUS
    <2>1. nextChildBlock = ChildBlockInterval * 1 /\ ChildBlockInterval \in Nat \ {0} /\ nextDepositBlock = 1 /\ DOMAIN blocks = {}
      BY ChainAssumption DEF ChildInit
    <2>2. AsStored = [n \in {} |-> [kind |-> "child", timestamp |-> 0]]
      BY <2>1 DEF AsStored
    <2>3. nextDepositBlock - (nextChildBlock - ChildBlockInterval) = 1 /\ nextChildBlock = ChildBlockInterval
      BY <2>1 
    <2> QED BY <2>1, <2>2, <2>3 DEF Multiples, Numbers!Init, AsStored
  <1>2. ChildInv /\ Multiples /\ [ChildNext]_childVars => Multiples' /\ [Numbers!Next]_(Numbers!vars)
    BY NumbersStep
  <1> QED BY <1>1, <1>2, ChildInvHolds, PTL DEF ChildSpec, NumbersLikeTheContract, Numbers!Spec
====
