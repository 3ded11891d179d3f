---- MODULE Language_proofs ----
(***************************************************************************)
(* The testing language keeps the child chain in step with the contracts,  *)
(* until a block is refused, what it challenges an exit with names the     *)
(* spend, and the proofs and signatures that it hands to the exit game     *)
(* fit, for any interval, transactions and blocks and trees of any depth.  *)
(***************************************************************************)
EXTENDS TestingLanguage, ChildChain_proofs, SequenceTheorems

\* The numbers of both sides.
Bounded ==
    /\ {rootNextChild, rootNextDeposit, nextChildBlock, nextDepositBlock} \subseteq Nat
    /\ 1 <= rootNextDeposit /\ rootNextDeposit <= ChildBlockInterval
    /\ nextDepositBlock <= nextChildBlock /\ ChildBlockInterval <= nextChildBlock

\* A block that submit_block waits for was not added.
Refused == asserting /\ frames = <<>> /\ result # "True"

\* The contracts are a block ahead at least.
Behind == frames = <<>> /\ rootNextChild >= nextChildBlock + ChildBlockInterval

\* Both have the same, nothing waits, and what was added has no one to call.
Level ==
    /\ nextChildBlock = rootNextChild
    /\ nextDepositBlock = rootNextChild - ChildBlockInterval + rootNextDeposit
    /\ rootTxs = [n \in DOMAIN blocks |-> blocks[n].transactions]
    /\ DOMAIN parentQueue = {}
    /\ frames = <<>> \/ \E n \in Nat : frames = <<[number |-> n, tried |-> 0]>>

StepInv == Bounded /\ (IF failed \/ Refused THEN Behind ELSE Level)

----------------------------------------------------------------------------

LEMMA Interval == ChildBlockInterval \in Nat \ {0}
  BY ChainAssumption

LEMMA StepInvInit == Init => StepInv
  BY Interval DEF Init, ChildInit, Root!Init, StepInv, Bounded, Refused, Level

LEMMA AllGood ==
    ASSUME NEW checks, \A k \in DOMAIN checks : checks[k] = "ok"
    PROVE  FirstBad(checks) = "ok"
  <1>1. {k \in DOMAIN checks : checks[k] # "ok"} = {}
    OBVIOUS
  <1> QED BY <1>1 DEF FirstBad

\* A deposit has nothing that could be refused.
LEMMA DepositsAreValid ==
    ASSUME NEW t \in DepositTxs, NEW n
    PROVE  ValidateBlock([number |-> n, transactions |-> <<t>>, signer |-> NoOne]) = "ok"
  <1> DEFINE b == [number |-> n, transactions |-> <<t>>, signer |-> NoOne]
  <1>1. TxInputs[t] = <<>> /\ InputsOf(t) = {} /\ IsDepositTx(t)
    BY LanguageAssumption DEF InputsOf, IsDepositTx
  <1>2. b.transactions = <<t>> /\ Len(b.transactions) = 1 /\ b.transactions[1] = t /\ DOMAIN b.transactions = {1}
    OBVIOUS
  <1>3. CheckSignature(b) = "ok"
    BY <1>1, <1>2 DEF CheckSignature, IsDepositBlock
  <1>4. FirstBad([x \in DOMAIN TxInputs[t] |-> CheckInput(t, x)]) = "ok"
    <2> DEFINE checks == [x \in DOMAIN TxInputs[t] |-> CheckInput(t, x)]
    <2>1. \A k \in DOMAIN checks : checks[k] = "ok"
      BY <1>1
    <2> HIDE DEF checks
    <2>2. FirstBad(checks) = "ok"
      BY <2>1, AllGood
    <2> QED BY <2>2 DEF checks
  <1>5. ValidateTransaction(t) = "ok"
    BY <1>1, <1>4 DEF ValidateTransaction
  <1>6. FirstBad([k \in DOMAIN b.transactions |-> ValidateTransaction(b.transactions[k])]) = "ok"
    <2> DEFINE checks == [k \in DOMAIN b.transactions |-> ValidateTransaction(b.transactions[k])]
    <2>1. \A k \in DOMAIN checks : checks[k] = "ok"
      BY <1>2, <1>5
    <2> HIDE DEF checks
    <2>2. FirstBad(checks) = "ok"
      BY <2>1, AllGood
    <2> QED BY <2>2 DEF checks
  <1> HIDE DEF b
  <1>7. ValidateBlock(b) = "ok"
    BY <1>3, <1>6 DEF ValidateBlock
  <1> QED BY <1>7 DEF b

\* A block for a number that the child chain is past, or not yet at.
LEMMA NotAdded ==
    ASSUME NEW b, ~ IsNext(b), Activate(b, <<>>)
    PROVE  frames' = <<>> /\ result' = "False" /\ UNCHANGED <<blocks, nextChildBlock, nextDepositBlock>>
  BY DEF Activate, AddToHead, Reject, Raise, Wait, AlreadyThere, ReturnFalse

LEMMA Added ==
    ASSUME NEW b, b.number \in Nat, IsNext(b), Activate(b, <<>>)
    PROVE  \/ /\ AddToHead(b, <<>>)
              /\ frames' = <<[number |-> b.number, tried |-> 0]>> /\ result' = "none"
              /\ blocks' = [n \in DOMAIN blocks \cup {b.number} |-> IF n = b.number THEN b ELSE blocks[n]]
              /\ parentQueue' = parentQueue
           \/ /\ ValidateBlock(b) # "ok" /\ frames' = <<>> /\ result' # "True"
              /\ UNCHANGED <<blocks, nextChildBlock, nextDepositBlock>>
  <1>1. CASE AddToHead(b, <<>>)
    BY <1>1 DEF AddToHead
  <1>2. CASE ~ AddToHead(b, <<>>)
    BY <1>2 DEF Activate, Reject, Raise, Wait, AlreadyThere, ReturnFalse
  <1> QED BY <1>1, <1>2

\* Where both sides had the same blocks, they have.
LEMMA SameBlocks ==
    ASSUME rootTxs = [n \in DOMAIN blocks |-> blocks[n].transactions], NEW b, NEW n, PutRoot(n, b.transactions),
           blocks' = [m \in DOMAIN blocks \cup {n} |-> IF m = n THEN b ELSE blocks[m]]
    PROVE  rootTxs' = [m \in DOMAIN blocks' |-> blocks'[m].transactions]
  <1>1. DOMAIN blocks' = DOMAIN blocks \cup {n} /\ DOMAIN rootTxs = DOMAIN blocks
    OBVIOUS
  <1>2. \A m \in DOMAIN blocks' : blocks'[m].transactions = IF m = n THEN b.transactions ELSE rootTxs[m]
    OBVIOUS
  <1> QED BY <1>1, <1>2 DEF PutRoot

LEMMA DepositKeepsStep ==
    ASSUME StepInv, NEW t \in DepositTxs, Deposit(t)
    PROVE  StepInv'
  <1> DEFINE n == rootNextChild - ChildBlockInterval + rootNextDeposit
             b == [number |-> n, transactions |-> <<t>>, signer |-> NoOne]
  <1>1. /\ frames = <<>> /\ ~ asserting /\ asserting' = FALSE /\ failed' = failed
        /\ rootNextDeposit < ChildBlockInterval
        /\ rootNextChild' = rootNextChild /\ rootNextDeposit' = rootNextDeposit + 1
        /\ PutRoot(n, <<t>>) /\ Activate(b, <<>>)
    BY DEF Deposit, Idle, Root!SubmitDepositBlock, Root!NextDepositBlock
  <1>2. b.number = n /\ b.transactions = <<t>> /\ ValidateBlock(b) = "ok"
    BY DepositsAreValid
  <1> HIDE DEF b
  <1>3. CASE failed
    <2>1. Behind /\ Bounded
      BY <1>3 DEF StepInv
    <2>2. ~ IsNext(b)
      BY <1>1, <1>2, <2>1, Interval DEF IsNext, Behind, Bounded
    <2> QED BY <1>1, <1>3, <2>1, <2>2, NotAdded, Interval DEF StepInv, Behind, Bounded
  <1>4. CASE ~ failed
    <2>1. Level /\ Bounded
      BY <1>1, <1>4 DEF StepInv, Refused
    <2>2. n = nextDepositBlock /\ n # nextChildBlock /\ n \in Nat /\ IsNext(b)
      BY <1>1, <1>2, <2>1, Interval DEF IsNext, Level, Bounded
    <2>3. /\ AddToHead(b, <<>>)
          /\ frames' = <<[number |-> n, tried |-> 0]>> /\ result' = "none"
          /\ blocks' = [m \in DOMAIN blocks \cup {n} |-> IF m = n THEN b ELSE blocks[m]]
          /\ parentQueue' = parentQueue
      BY <1>1, <1>2, <2>2, Added
    <2>4. nextChildBlock' = nextChildBlock /\ nextDepositBlock' = nextDepositBlock + 1
      BY <1>2, <2>2, <2>3 DEF AddToHead
    <2>5. rootTxs' = [m \in DOMAIN blocks' |-> blocks'[m].transactions]
      BY <1>1, <1>2, <2>1, <2>3, SameBlocks DEF Level
    <2>6. Level'
      <3>1. nextChildBlock' = rootNextChild' /\ DOMAIN parentQueue' = {}
        BY <1>1, <2>1, <2>3, <2>4 DEF Level
      <3>2. nextDepositBlock' = rootNextChild' - ChildBlockInterval + rootNextDeposit'
        BY <1>1, <2>1, <2>2, <2>4, Interval DEF Bounded
      <3> HIDE DEF n
      <3>3. \E m \in Nat : frames' = <<[number |-> m, tried |-> 0]>>
        BY <2>2, <2>3
      <3> QED BY <2>5, <3>1, <3>2, <3>3 DEF Level
    <2>7. Bounded'
      BY <1>1, <2>1, <2>4, <2>2, Interval DEF Bounded, Level
    <2> QED BY <1>1, <1>4, <2>6, <2>7 DEF StepInv, Refused
  <1> QED BY <1>3, <1>4

LEMMA SubmitBlockKeepsStep ==
    ASSUME StepInv, NEW txs, NEW forceInvalid \in BOOLEAN, SubmitBlock(txs, forceInvalid)
    PROVE  StepInv'
  <1> DEFINE b == [number |-> rootNextChild, transactions |-> txs, signer |-> Operator]
  <1>1. /\ frames = <<>> /\ ~ asserting /\ asserting' = ~ forceInvalid /\ failed' = failed
        /\ rootNextChild' = rootNextChild + ChildBlockInterval /\ rootNextDeposit' = 1
        /\ PutRoot(rootNextChild, txs) /\ IF forceInvalid THEN ForceBlock(b) ELSE Activate(b, <<>>)
    BY DEF SubmitBlock, Idle, Root!SubmitBlock
  <1>2. b.number = rootNextChild /\ b.transactions = txs
    OBVIOUS
  <1> HIDE DEF b
  <1>3. Bounded
    BY DEF StepInv
  <1>4. CASE forceInvalid
    <2>1. /\ blocks' = [n \in DOMAIN blocks \cup {nextChildBlock} |-> IF n = nextChildBlock THEN b ELSE blocks[n]]
          /\ nextDepositBlock' = nextChildBlock + 1 /\ nextChildBlock' = nextChildBlock + ChildBlockInterval
          /\ parentQueue' = parentQueue /\ frames' = frames /\ result' = result
      BY <1>1, <1>4 DEF ForceBlock
    <2>2. Bounded'
      BY <1>1, <1>3, <2>1, Interval DEF Bounded
    <2>3. CASE failed
      BY <1>1, <1>3, <2>1, <2>2, <2>3, Interval DEF StepInv, Behind, Bounded
    <2>4. CASE ~ failed
      <3>1. Level
        BY <1>1, <2>4 DEF StepInv, Refused
      <3>2. rootTxs' = [m \in DOMAIN blocks' |-> blocks'[m].transactions]
        BY <1>1, <1>2, <2>1, <3>1, SameBlocks DEF Level
      <3>3. Level'
        BY <1>1, <1>3, <2>1, <3>1, <3>2, Interval DEF Level, Bounded
      <3> QED BY <1>1, <1>4, <2>2, <2>4, <3>3 DEF StepInv, Refused
    <2> QED BY <2>3, <2>4
  <1>5. CASE ~ forceInvalid
    <2>1. Activate(b, <<>>) /\ asserting'
      BY <1>1, <1>5
    <2>2. CASE failed
      <3>1. Behind
        BY <2>2 DEF StepInv
      <3>2. ~ IsNext(b)
        BY <1>2, <1>3, <3>1, Interval DEF IsNext, Behind, Bounded
      <3> QED BY <1>1, <1>3, <2>1, <2>2, <3>1, <3>2, NotAdded, Interval DEF StepInv, Behind, Bounded
    <2>3. CASE ~ failed
      <3>1. Level
        BY <1>1, <2>3 DEF StepInv, Refused
      <3>2. IsNext(b) /\ b.number \in Nat /\ b.number = nextChildBlock
        BY <1>2, <1>3, <3>1 DEF IsNext, Level, Bounded
      <3>3. CASE /\ AddToHead(b, <<>>)
                 /\ frames' = <<[number |-> b.number, tried |-> 0]>> /\ result' = "none"
                 /\ blocks' = [n \in DOMAIN blocks \cup {b.number} |-> IF n = b.number THEN b ELSE blocks[n]]
                 /\ parentQueue' = parentQueue
        <4>1. nextDepositBlock' = nextChildBlock + 1 /\ nextChildBlock' = nextChildBlock + ChildBlockInterval
          BY <3>2, <3>3 DEF AddToHead
        <4>2. rootTxs' = [m \in DOMAIN blocks' |-> blocks'[m].transactions]
          BY <1>1, <1>2, <3>1, <3>3, SameBlocks DEF Level
        <4>3. Bounded'
          BY <1>1, <1>3, <4>1, Interval DEF Bounded
        <4>4. Level' /\ frames' # <<>>
          BY <1>1, <1>3, <3>1, <3>2, <3>3, <4>1, <4>2, Interval DEF Level, Bounded
        <4> QED BY <1>1, <2>3, <4>3, <4>4 DEF StepInv, Refused
      <3>4. CASE /\ ValidateBlock(b) # "ok" /\ frames' = <<>> /\ result' # "True"
                 /\ UNCHANGED <<blocks, nextChildBlock, nextDepositBlock>>
        BY <1>1, <1>3, <2>1, <3>1, <3>4, Interval DEF StepInv, Refused, Behind, Bounded, Level
      <3> QED BY <2>1, <3>2, <3>3, <3>4, Added
    <2> QED BY <2>2, <2>3
  <1> QED BY <1>4, <1>5

LEMMA GoesOnKeepsStep ==
    ASSUME StepInv, AddBlockGoesOn
    PROVE  StepInv'
  <1>1. frames # <<>> /\ UNCHANGED <<rootVars, asserting, failed>>
    BY DEF AddBlockGoesOn, AddWaiting, ReturnTrue
  <1>2. ~ failed /\ Level /\ Bounded
    BY <1>1 DEF StepInv, Refused, Behind
  <1>3. PICK n \in Nat : frames = <<[number |-> n, tried |-> 0]>>
    BY <1>1, <1>2 DEF Level
  <1>4. Len(frames) = 1 /\ Innermost = [number |-> n, tried |-> 0]
    BY <1>3 DEF Innermost
  <1>5. ~ Untried
    BY <1>2, <1>4 DEF Untried, Waiting, Level
  <1>6. /\ frames' = SubSeq(frames, 1, 0) /\ result' = "True"
        /\ DOMAIN parentQueue' = {} /\ UNCHANGED <<blocks, nextChildBlock, nextDepositBlock>>
    BY <1>2, <1>4, <1>5 DEF AddBlockGoesOn, AddWaiting, ReturnTrue, Level
  <1>7. frames' = <<>>
    BY <1>3, <1>6
  <1> QED BY <1>1, <1>2, <1>6, <1>7 DEF StepInv, Refused, Level, Bounded, rootVars

LEMMA OtherStepsKeepStep ==
    ASSUME StepInv, UNCHANGED vars \/ AssertAdded \/ Call \/ CallReturns
    PROVE  StepInv'
  <1>1. CASE AssertAdded
    BY <1>1 DEF AssertAdded, childVars, rootVars, StepInv, Bounded, Refused, Behind, Level
  <1>2. CASE UNCHANGED vars \/ Call \/ CallReturns
    <2>1. UNCHANGED <<childVars, rootVars, asserting, failed>>
      BY <1>2 DEF vars, Call, CallReturns, Calls, StartStandardExit, RespondToNonCanonicalChallenge,
           StartStandardExitWithTxBody, StartStandardExitAlone, ChallengeStandardExit, ChallengeStandardExitGiven,
           ChallengeInFlightExitOutputSpent, StartInFlightExit,
           ChallengeInFlightExitNotCanonical, ChallengeInFlightExitInputSpent
    <2> QED BY <2>1 DEF childVars, rootVars, StepInv, Bounded, Refused, Behind, Level
  <1> QED BY <1>1, <1>2

LEMMA StepInvStep == StepInv /\ [Next]_vars => StepInv'
  <1> SUFFICES ASSUME StepInv, [Next]_vars PROVE StepInv'
    OBVIOUS
  <1> QED BY DepositKeepsStep, SubmitBlockKeepsStep, GoesOnKeepsStep, OtherStepsKeepStep DEF Next

\* Until a block is refused, the child chain has the numbers and the blocks of the contracts; from
\* then on the contracts give no number that it waits for.
THEOREM ChainIsInStep == Spec => []InStep
  <1>1. StepInv => InStep
    BY Interval DEF StepInv, InStep, Idle, Refused, Behind, Level, Bounded
  <1> QED BY <1>1, StepInvInit, StepInvStep, PTL DEF Spec
----------------------------------------------------------------------------
\* The proof of a transaction in a tree.

LEMMA Powers ==
    /\ MerkleDepth \in Nat /\ 2^0 = 1 /\ \A k \in 1 .. MerkleDepth : 2^k = 2 * 2^(k - 1)
    /\ \A k \in 0 .. MerkleDepth : 2^k \in Nat \ {0} /\ \E m \in Nat : 2^MerkleDepth = m * 2^k
  BY LanguageAssumption, PowersPositive, PowersDivide

\* A node is its two halves, and the one beside a node on the path is the other half.
LEMMA NodeIsHalves ==
    ASSUME NEW S, NEW L \in Seq(S), Len(L) = 2^MerkleDepth, NEW x \in 0 .. 2^MerkleDepth - 1, NEW i \in 1 .. MerkleDepth
    PROVE  LET a == x \div 2^(i - 1)
           IN  NodeOf(L, i, x \div 2^i) =
                 IF a % 2 = 0 THEN NodeOf(L, i - 1, a) \o NodeOf(L, i - 1, a + 1)
                 ELSE NodeOf(L, i - 1, a - 1) \o NodeOf(L, i - 1, a)
  <1> DEFINE w == 2^(i - 1)
             n == 2^MerkleDepth
             a == x \div w
             b == a \div 2
  <1>0. MerkleDepth \in Nat \ {0} /\ i \in 0 .. MerkleDepth /\ i - 1 \in 0 .. MerkleDepth /\ MerkleDepth \in 0 .. MerkleDepth
    BY LanguageAssumption
  <1>1. w \in Nat \ {0} /\ 2^i = 2 * w /\ n \in Nat \ {0}
    BY <1>0, Powers, LanguageAssumption
  <1>2. PICK m \in Nat : n = m * 2^i
    BY <1>0, Powers
  <1>3. x \in Nat /\ x < n /\ Len(L) = n
    BY <1>1
  <1>4. x \div 2^i = b /\ a \in Nat
    <2> HIDE DEF w
    <2> QED BY <1>1, <1>3, HalfOf, QuotientOf
  <1>5. NodeOf(L, i, b) = SubSeq(L, (b * (2 * w)) + 1, (b + 1) * (2 * w))
    BY <1>1 DEF NodeOf
  <1>6. \A j : NodeOf(L, i - 1, j) = SubSeq(L, (j * w) + 1, (j + 1) * w)
    BY DEF NodeOf
  <1>7. n = m * (2 * w)
    BY <1>1, <1>2
  <1> HIDE DEF w, n
  <1> DEFINE lo == (2 * b) * w
  <1>8. /\ b \in Nat /\ a % 2 \in {0, 1} /\ a = (2 * b) + (a % 2)
    <2> HIDE DEF a
    <2> QED BY <1>4
  <1> HIDE DEF a, b
  <1>9. /\ lo \in Nat /\ b * (2 * w) = lo /\ (b + 1) * (2 * w) = lo + w + w
        /\ ((2 * b) + 1) * w = lo + w /\ (((2 * b) + 1) + 1) * w = lo + w + w
    BY <1>1, <1>8
  <1>10. lo + w + w <= n
    <2> DEFINE v == 2 * w
    <2>1. v \in Nat \ {0} /\ x \div v = b /\ n = m * v
      BY <1>1, <1>4, <1>7
    <2> HIDE DEF v
    <2>2. x = (b * v) + (x % v) /\ x % v \in 0 .. v - 1
      BY <2>1, <1>3, QuotientOf
    <2>3. b * v < m * v
      BY <2>1, <2>2, <1>3, <1>8
    <2>4. b < m
      <3> SUFFICES ASSUME m <= b PROVE FALSE
        BY <1>8
      <3>1. PICK d \in Nat : b = m + d
        BY <1>8
      <3>2. b * v = (m * v) + (d * v) /\ d * v >= 0
        BY <2>1, <3>1
      <3> QED BY <2>1, <2>3, <3>2, <1>8
    <2>5. (b + 1) * v <= m * v
      <3>1. PICK d \in Nat : m = b + 1 + d
        BY <2>4, <1>8
      <3>2. m * v = ((b + 1) * v) + (d * v) /\ d * v >= 0 /\ d * v \in Nat /\ (b + 1) * v \in Nat
        BY <2>1, <3>1, <1>8
      <3> QED BY <3>2
    <2> QED BY <2>1, <2>5, <1>9 DEF v
  <1> HIDE DEF lo
  <1>11. SubSeq(L, lo + 1, lo + w) \o SubSeq(L, (lo + w) + 1, lo + w + w) = SubSeq(L, lo + 1, lo + w + w)
    <2>1. lo + 1 \in 1 .. Len(L) + 1 /\ lo + w \in (lo + 1) - 1 .. Len(L) /\ lo + w + w \in lo + w .. Len(L)
      BY <1>1, <1>3, <1>9, <1>10
    <2> QED BY <2>1, ConcatAdjacentSubSeq
  <1>12. /\ NodeOf(L, i - 1, 2 * b) = SubSeq(L, lo + 1, lo + w)
         /\ NodeOf(L, i - 1, (2 * b) + 1) = SubSeq(L, (lo + w) + 1, lo + w + w)
         /\ NodeOf(L, i, b) = SubSeq(L, lo + 1, lo + w + w)
    BY <1>5, <1>6, <1>9 DEF lo
  <1>13. NodeOf(L, i, b) = NodeOf(L, i - 1, 2 * b) \o NodeOf(L, i - 1, (2 * b) + 1)
    BY <1>11, <1>12
  <1>14. CASE a % 2 = 0
    <2>1. a = 2 * b
      BY <1>8, <1>14
    <2> QED BY <1>4, <1>13, <1>14, <2>1 DEF a, w
  <1>15. CASE a % 2 # 0
    <2>1. a = (2 * b) + 1 /\ a - 1 = 2 * b
      BY <1>8, <1>15
    <2> QED BY <1>4, <1>13, <1>15, <2>1 DEF a, w
  <1> QED BY <1>14, <1>15

\* What checkMembership computes, level by level, from the leaf e on.
Rises(up, e, index, proof) ==
    up = [i \in 0 .. Len(proof) |->
            IF i = 0 THEN <<e>>
            ELSE IF (index \div 2^(i - 1)) % 2 = 0 THEN up[i - 1] \o proof[i] ELSE proof[i] \o up[i - 1]]

LEMMA ClimbedRises ==
    ASSUME NEW tx, NEW index, NEW proof
    PROVE  Climbed(tx, index, proof) = (CHOOSE up : Rises(up, Encoded(tx), index, proof))[Len(proof)]
  BY DEF Climbed, Rises

LEMMA OnlyOneRises ==
    ASSUME NEW e, NEW index, NEW proof, Len(proof) \in Nat, NEW up, NEW h,
           Rises(up, e, index, proof), Rises(h, e, index, proof)
    PROVE  up[Len(proof)] = h[Len(proof)]
  <1> DEFINE Bad == {i \in 0 .. Len(proof) : up[i] # h[i]}
  <1>1. ASSUME NEW i \in Bad PROVE \E j \in Bad : j < i
    <2>1. /\ up[i] = IF i = 0 THEN <<e>>
                     ELSE IF (index \div 2^(i - 1)) % 2 = 0 THEN up[i - 1] \o proof[i] ELSE proof[i] \o up[i - 1]
          /\ h[i] = IF i = 0 THEN <<e>>
                    ELSE IF (index \div 2^(i - 1)) % 2 = 0 THEN h[i - 1] \o proof[i] ELSE proof[i] \o h[i - 1]
      BY Zenon DEF Rises
    <2>2. i # 0 /\ up[i - 1] # h[i - 1]
      BY <2>1
    <2> QED BY <2>2
  <1>2. Bad \subseteq Nat
    OBVIOUS
  <1>3. Bad = {}
    <2> HIDE DEF Bad
    <2> QED BY <1>1, <1>2, NoneIsLeast
  <1> QED BY <1>3

\* The proof that is taken beside the path of a leaf leads from it to the root.
ProofOf(L, x) ==
    [i \in 1 .. MerkleDepth |->
        LET at == x \div 2^(i - 1) IN NodeOf(L, i - 1, IF at % 2 = 0 THEN at + 1 ELSE at - 1)]

LEMMA ClimbsToTheRoot ==
    ASSUME NEW S, NEW L \in Seq(S), Len(L) = 2^MerkleDepth, NEW x \in 0 .. 2^MerkleDepth - 1,
           NEW tx, L[x + 1] = Encoded(tx)
    PROVE  Climbed(tx, x, ProofOf(L, x)) = L
  <1> DEFINE n == 2^MerkleDepth
             proof == ProofOf(L, x)
             h == [i \in 0 .. MerkleDepth |-> NodeOf(L, i, x \div 2^i)]
  <1>0. MerkleDepth \in Nat \ {0} /\ MerkleDepth \in 0 .. MerkleDepth /\ n \in Nat \ {0} /\ x \in Nat /\ x < n /\ Len(L) = n
        /\ 2^0 = 1
    BY LanguageAssumption, Powers
  <1>1. Len(proof) = MerkleDepth
    BY <1>0 DEF ProofOf
  <1>2. h[0] = <<Encoded(tx)>>
    <2>1. h[0] = NodeOf(L, 0, x \div 1)
      BY <1>0
    <2>2. x \div 1 = x /\ x * 1 = x /\ (x + 1) * 1 = x + 1
      BY <1>0
    <2>3. h[0] = SubSeq(L, x + 1, x + 1)
      BY <1>0, <2>1, <2>2 DEF NodeOf
    <2> HIDE DEF n, h
    <2>4. SubSeq(L, x + 1, x + 1) = <<L[x + 1]>>
      <3> DEFINE k == x + 1
      <3>1. k \in Int /\ k \in 1 .. Len(L)
        BY <1>0
      <3> HIDE DEF k
      <3>2. \A j \in k .. k : L[j] \in S
        BY <3>1
      <3>3. /\ SubSeq(L, k, k) \in Seq(S) /\ Len(SubSeq(L, k, k)) = 1
            /\ \A j \in 1 .. k - k + 1 : SubSeq(L, k, k)[j] = L[k + j - 1]
        BY <3>1, <3>2, SubSeqProperties
      <3>4. SubSeq(L, k, k)[1] = L[k]
        BY <3>1, <3>3
      <3>5. SubSeq(L, k, k) = <<L[k]>>
        <4> DEFINE sub == SubSeq(L, k, k)
                   one == <<L[k]>>
        <4>1. one \in Seq(S) /\ Len(one) = 1 /\ one[1] = L[k]
          BY <3>1, <3>2
        <4>2. sub \in Seq(S) /\ Len(sub) = 1 /\ sub[1] = L[k]
          BY <3>3, <3>4
        <4> HIDE DEF sub, one
        <4>3. \A j \in 1 .. Len(sub) : sub[j] = one[j]
          BY <4>1, <4>2
        <4>4. sub = one
          BY <4>1, <4>2, <4>3, SeqEqual
        <4> QED BY <4>4 DEF sub, one
      <3> QED BY <3>5 DEF k
    <2> QED BY <2>3, <2>4
  <1>3. ASSUME NEW i \in 1 .. MerkleDepth
        PROVE  h[i] = IF (x \div 2^(i - 1)) % 2 = 0 THEN h[i - 1] \o proof[i] ELSE proof[i] \o h[i - 1]
    <2> DEFINE a == x \div 2^(i - 1)
    <2>1. i \in 0 .. MerkleDepth /\ i - 1 \in 0 .. MerkleDepth
      BY <1>0
    <2>2. h[i] = NodeOf(L, i, x \div 2^i) /\ h[i - 1] = NodeOf(L, i - 1, a)
      BY <2>1
    <2>3. proof[i] = NodeOf(L, i - 1, IF a % 2 = 0 THEN a + 1 ELSE a - 1)
      BY DEF ProofOf
    <2>4. NodeOf(L, i, x \div 2^i) =
            IF a % 2 = 0 THEN NodeOf(L, i - 1, a) \o NodeOf(L, i - 1, a + 1)
            ELSE NodeOf(L, i - 1, a - 1) \o NodeOf(L, i - 1, a)
      BY NodeIsHalves
    <2> HIDE DEF h, proof, a
    <2> QED BY <2>2, <2>3, <2>4 DEF a
  <1>4. Rises(h, Encoded(tx), x, proof)
    <2> DEFINE g == [i \in 0 .. Len(proof) |->
            IF i = 0 THEN <<Encoded(tx)>>
            ELSE IF (x \div 2^(i - 1)) % 2 = 0 THEN h[i - 1] \o proof[i] ELSE proof[i] \o h[i - 1]]
    <2>1. DOMAIN h = 0 .. MerkleDepth /\ DOMAIN g = 0 .. MerkleDepth
      BY <1>1
    <2>2. ASSUME NEW i \in 0 .. MerkleDepth PROVE h[i] = g[i]
      <3>1. g[i] = IF i = 0 THEN <<Encoded(tx)>>
            ELSE IF (x \div 2^(i - 1)) % 2 = 0 THEN h[i - 1] \o proof[i] ELSE proof[i] \o h[i - 1]
        BY <1>1
      <3>2. i = 0 \/ i \in 1 .. MerkleDepth
        BY <1>0
      <3> HIDE DEF h, g, proof
      <3> QED BY <3>1, <3>2, <1>2, <1>3
    <2>3. h = [i \in 0 .. MerkleDepth |-> h[i]] /\ g = [i \in 0 .. MerkleDepth |-> g[i]]
      BY <1>1
    <2>4. h = g
      <3> HIDE DEF h, g
      <3> QED BY <2>2, <2>3
    <2> HIDE DEF h, proof
    <2> QED BY <2>4 DEF Rises
  <1>5. h[MerkleDepth] = L
    <2>1. x \div n = 0
      <3> HIDE DEF n
      <3> QED BY <1>0
    <2>2. h[MerkleDepth] = NodeOf(L, MerkleDepth, 0)
      BY <1>0, <2>1
    <2>3. NodeOf(L, MerkleDepth, 0) = SubSeq(L, (0 * n) + 1, (0 + 1) * n)
      BY DEF NodeOf
    <2> HIDE DEF n
    <2>4. (0 * n) + 1 = 1 /\ (0 + 1) * n = Len(L)
      BY <1>0
    <2> QED BY <2>2, <2>3, <2>4, SubSeqFull
  <1> HIDE DEF h, proof
  <1>6. Climbed(tx, x, proof) = h[Len(proof)]
    <2> DEFINE up == CHOOSE up : Rises(up, Encoded(tx), x, proof)
    <2>1. Rises(up, Encoded(tx), x, proof)
      BY <1>4
    <2>2. Len(proof) \in Nat
      BY <1>0, <1>1
    <2>3. Climbed(tx, x, proof) = up[Len(proof)]
      BY ClimbedRises
    <2> HIDE DEF up
    <2> QED BY <1>4, <2>1, <2>2, <2>3, OnlyOneRises
  <1> QED BY <1>1, <1>5, <1>6 DEF proof

----------------------------------------------------------------------------
\* What a challenge names.

SignedByOwners(b) ==
    \A k \in DOMAIN b.transactions : \A x \in InputsOf(b.transactions[k]) :
        LET i == TxInputs[b.transactions[k]][x]
        IN  /\ Exists(i)
            /\ TxSigners[b.transactions[k]][x] = TxOutputs[GetTransaction(i)][i.oindex + 1].output_guard

\* The blocks have numbers that are taken and fit the tree, and those that were validated spend what
\* their signers own.
Stored ==
    /\ nextDepositBlock >= 1
    /\ \A n \in DOMAIN blocks :
         /\ n \in Nat \ {0} /\ n < nextDepositBlock
         /\ blocks[n].transactions \in Seq(Txs) /\ Len(blocks[n].transactions) <= 2^MerkleDepth
    /\ \A n \in DOMAIN blocks \ forced : SignedByOwners(blocks[n])

\* Nothing goes on while a call is made.
CallAlone == call # NoCall => frames = <<>> /\ ~ asserting

NamingInv == StepInv /\ Stored /\ CallAlone /\ ChallengesNameTheSpend

LEMMA MinIs ==
    ASSUME NEW S, S \subseteq Nat, NEW m \in S, \A s \in S : m <= s
    PROVE  Min(S) = m
  <1>1. Min(S) \in S /\ \A s \in S : Min(S) <= s
    BY DEF Min
  <1> HIDE DEF Min
  <1>2. Min(S) <= m /\ m <= Min(S) /\ Min(S) \in Nat /\ m \in Nat
    BY <1>1
  <1> QED BY <1>2

LEMMA LeastOf ==
    ASSUME NEW S, S \subseteq Nat, S # {}
    PROVE  Min(S) \in S
  <1>1. PICK m \in S : \A s \in S : ~ (<<s, m>> \in OpToRel(<, Nat))
    BY NatLessThanWellFounded, WFMin
  <1>2. \A s \in S : m <= s
    <2> SUFFICES ASSUME NEW s \in S, s < m PROVE FALSE
      OBVIOUS
    <2>1. <<s, m>> \in OpToRel(<, Nat)
      BY DEF OpToRel
    <2> QED BY <1>1, <2>1
  <1> QED BY <1>2 DEF Min

\* Positions that fit are told apart by their identifiers.
LEMMA RoundTrip ==
    ASSUME NEW p \in [blknum : Nat, txindex : 0 .. TxIndexSize - 1, oindex : {0}], NEW k \in 0 .. 1
    PROVE  Decode(IdOf(p) + k) = [p EXCEPT !.oindex = k]
  <1> DEFINE B == BLKNUM_OFFSET
             T == TXINDEX_OFFSET
             q == B \div T
             b == p.blknum
             x == p.txindex
  <1>1. /\ B \in Nat \ {0} /\ T \in Nat \ {0} /\ T >= 2 /\ B % T = 0
        /\ b \in Nat /\ x \in Nat /\ x < TxIndexSize /\ TxIndexSize \in Nat /\ TxIndexSize <= q
    BY OffsetAssumption, LanguageAssumption
  <1>2. IdOf(p) + k = (b * B) + ((x * T) + k)
    <2>1. p.oindex = 0 /\ b * B \in Int /\ x * T \in Int /\ k \in Int
      BY <1>1
    <2> QED BY <2>1 DEF IdOf, Encode
  <1> HIDE DEF b, x
  <1>3. q \in Nat /\ B = q * T
    BY <1>1
  <1> HIDE DEF B, T, q
  <1>4. x * T >= 0 /\ (x * T) + k <= (q * T) - 1 /\ x * T \in Int
    <2>1. x + 1 <= q
      BY <1>1, <1>3
    <2>2. (x + 1) * T <= q * T
      BY <1>1, <1>3, <2>1
    <2>3. (x + 1) * T = (x * T) + T
      BY <1>1
    <2>4. x * T \in Nat /\ q * T \in Nat
      BY <1>1, <1>3
    <2> QED BY <1>1, <2>2, <2>3, <2>4
  <1> DEFINE r == (x * T) + k
  <1>5. r \in 0 .. B - 1
    BY <1>1, <1>3, <1>4
  <1>6. r \div T = x /\ r % T = k
    <2>1. k \in 0 .. T - 1 /\ x \in Int
      BY <1>1
    <2> QED BY <1>1, <2>1, QuotientIs
  <1>7. ((b * B) + r) % T = k
    <2>1. (b * B) + r = (((b * q) + x) * T) + k
      <3>1. b * B = (b * q) * T
        BY <1>1, <1>3
      <3>2. ((b * q) + x) * T = ((b * q) * T) + (x * T)
        BY <1>1, <1>3
      <3>3. (b * q) * T \in Int /\ x * T \in Int
        BY <1>1, <1>3
      <3> QED BY <3>1, <3>2, <3>3
    <2>2. (b * q) + x \in Int /\ k \in 0 .. T - 1
      BY <1>1, <1>3
    <2> DEFINE c == (b * q) + x
    <2> HIDE DEF c
    <2>3. ((c * T) + k) % T = k
      BY <1>1, <2>2, QuotientIs DEF c
    <2> QED BY <2>1, <2>3 DEF c
  <1> HIDE DEF r
  <1>8. ((b * B) + r) \div B = b /\ ((b * B) + r) % B = r
    BY <1>1, <1>5, QuotientIs
  <1>9. Decode(IdOf(p) + k) = [blknum |-> b, txindex |-> x, oindex |-> k]
    BY <1>2, <1>6, <1>7, <1>8 DEF Decode, r, B, T
  <1> QED BY <1>9 DEF b, x

\* What the positions are.
LEMMA PositionsFit ==
    /\ TxPositions \subseteq OutputPositions
    /\ \A p \in OutputPositions :
         HasTx(p) /\ p \in [blknum : DOMAIN blocks, txindex : 0 .. TxIndexSize - 1, oindex : 0 .. 1]
    /\ \A p \in TxPositions : p.oindex = 0
  BY LanguageAssumption DEF TxPositions, OutputPositions, PositionsOf

LEMMA OutputIsLocated ==
    ASSUME Stored, NEW p \in OutputPositions
    PROVE  /\ HasTx(p) /\ Located(p) = p /\ p.txindex \in Nat /\ p.blknum # 0
           /\ GetTransaction(p) = blocks[p.blknum].transactions[p.txindex + 1] /\ GetTransaction(p) \in Txs
  <1>1. p \in [blknum : DOMAIN blocks, txindex : 0 .. TxIndexSize - 1, oindex : 0 .. 1] /\ HasTx(p)
    BY PositionsFit
  <1>2. DOMAIN blocks \subseteq Nat \ {0}
    BY DEF Stored
  <1>3. p \in [blknum : Nat, txindex : 0 .. TxIndexSize - 1, oindex : 0 .. 1] /\ p.blknum # 0
    BY <1>1, <1>2
  <1> DEFINE base == [p EXCEPT !.oindex = 0]
             k == p.oindex
  <1>4. base \in [blknum : Nat, txindex : 0 .. TxIndexSize - 1, oindex : {0}] /\ k \in 0 .. 1
        /\ base.blknum = p.blknum /\ base.txindex = p.txindex /\ base.oindex = 0
        /\ [base EXCEPT !.oindex = k] = p
    BY <1>3
  <1>5. IdOf(p) = IdOf(base) + k
    <2> DEFINE b == p.blknum * BLKNUM_OFFSET
               x == p.txindex * TXINDEX_OFFSET
    <2>1. BLKNUM_OFFSET \in Nat /\ TXINDEX_OFFSET \in Nat /\ p.blknum \in Nat /\ p.txindex \in Nat
      <3>1. p.txindex \in 0 .. TxIndexSize - 1 /\ TxIndexSize \in Nat /\ p.blknum \in Nat
        BY <1>3, OffsetAssumption
      <3> QED BY <3>1, OffsetAssumption
    <2>2. b \in Int /\ x \in Int /\ k \in Int
      BY <1>4, <2>1
    <2>3. IdOf(p) = b + x + k /\ IdOf(base) = b + x + 0
      <3> HIDE DEF base
      <3> QED BY <1>4 DEF IdOf, Encode
    <2> HIDE DEF b, x, k, base
    <2> QED BY <2>2, <2>3
  <1> HIDE DEF base, k
  <1>6. Located(p) = p
    <2>1. Decode(IdOf(base) + k) = [base EXCEPT !.oindex = k]
      BY <1>4, RoundTrip
    <2> QED BY <1>4, <1>5, <2>1 DEF Located
  <1>7. GetTransaction(p) = blocks[p.blknum].transactions[p.txindex + 1]
    BY <1>6 DEF GetTransaction
  <1>8. GetTransaction(p) \in Txs
    <2>1. blocks[p.blknum].transactions \in Seq(Txs) /\ p.txindex + 1 \in DOMAIN blocks[p.blknum].transactions
      BY <1>1 DEF Stored, HasTx
    <2> DEFINE txs == blocks[p.blknum].transactions
    <2> HIDE DEF txs
    <2> QED BY <1>7, <2>1 DEF txs
  <1>9. p.txindex \in Nat
    <2>1. p.txindex \in 0 .. TxIndexSize - 1
      BY <1>3
    <2> QED BY <2>1
  <1> QED BY <1>1, <1>3, <1>6, <1>7, <1>8, <1>9

LEMMA LocatedIs ==
    ASSUME Stored, NEW p \in TxPositions
    PROVE  /\ HasTx(p) /\ Located(p) = p /\ p.txindex \in Nat /\ p.blknum # 0
           /\ GetTransaction(p) = blocks[p.blknum].transactions[p.txindex + 1] /\ GetTransaction(p) \in Txs
           /\ \A k \in 0 .. 1 : Decode(IdOf(p) + k) = [p EXCEPT !.oindex = k]
  <1>1. p \in [blknum : DOMAIN blocks, txindex : 0 .. TxIndexSize - 1, oindex : {0}] /\ p \in OutputPositions
    BY PositionsFit
  <1>2. DOMAIN blocks \subseteq Nat \ {0}
    BY DEF Stored
  <1>3. p \in [blknum : Nat, txindex : 0 .. TxIndexSize - 1, oindex : {0}]
    BY <1>1, <1>2
  <1>4. \A k \in 0 .. 1 : Decode(IdOf(p) + k) = [p EXCEPT !.oindex = k]
    BY <1>3, RoundTrip
  <1> QED BY <1>1, <1>4, OutputIsLocated

\* Inputs with equal identifiers are equal.
LEMMA SameAreEqual ==
    ASSUME NEW i, NEW j, Decode(IdOf(i)) = i, Decode(IdOf(j)) = j, Same(i, j)
    PROVE  i = j
  BY DEF Same

LEMMA InputsDecoded ==
    ASSUME NEW t \in Txs, NEW x \in DOMAIN TxInputs[t]
    PROVE  /\ Decode(IdOf(TxInputs[t][x])) = TxInputs[t][x] /\ x \in Nat \ {0} /\ x <= Len(TxInputs[t])
           /\ Len(TxInputs[t]) \in Nat
           /\ ~ IsNothing(TxInputs[t][x]) => IdOf(TxInputs[t][x]) # 0
  <1>1. TxInputs[t] \in Seq(Positions)
    BY ChainAssumption
  <1>2. TxInputs[t][x] \in Positions
    BY <1>1
  <1>3. x \in Nat \ {0} /\ x <= Len(TxInputs[t]) /\ Len(TxInputs[t]) \in Nat
    BY <1>1
  <1>4. ASSUME ~ IsNothing(TxInputs[t][x]) PROVE IdOf(TxInputs[t][x]) # 0
    <2> DEFINE b == TxInputs[t][x].blknum
               k == TxInputs[t][x].txindex
               o == TxInputs[t][x].oindex
    <2>1. b \in Nat \ {0} /\ k \in Nat /\ o \in Nat
      BY <1>2, <1>4 DEF Positions, IsNothing
    <2>2. BLKNUM_OFFSET \in Nat \ {0} /\ TXINDEX_OFFSET \in Nat
      BY OffsetAssumption
    <2>3. IdOf(TxInputs[t][x]) = (b * BLKNUM_OFFSET) + (k * TXINDEX_OFFSET) + o
      BY DEF IdOf, Encode
    <2> HIDE DEF b, k, o
    <2>4. b * BLKNUM_OFFSET > 0 /\ k * TXINDEX_OFFSET >= 0 /\ b * BLKNUM_OFFSET \in Int /\ k * TXINDEX_OFFSET \in Int
      BY <2>1, <2>2
    <2> QED BY <2>1, <2>3, <2>4
  <1> QED BY <1>3, <1>4, LanguageAssumption

\* The shared input is one that is shared, if there is any.
LEMMA SharedInputIs ==
    ASSUME NEW a \in Txs, NEW b \in Txs, SharedInputs(a, b) # {}
    PROVE  FindSharedInput(a, b) \in SharedInputs(a, b)
  <1> DEFINE S == SharedInputs(a, b)
             firsts == {ij[1] : ij \in S}
  <1>1. \A ij \in S : /\ ij[1] \in Nat /\ ij[1] <= Len(TxInputs[a]) /\ ij[2] \in Nat /\ ij[2] <= Len(TxInputs[b])
                      /\ ij = <<ij[1], ij[2]>>
    BY InputsDecoded DEF SharedInputs
  <1>2. Len(TxInputs[a]) \in Nat /\ Len(TxInputs[b]) \in Nat
    BY ChainAssumption
  <1> HIDE DEF S
  <1>3. PICK i \in firsts : \A k \in firsts : k <= i
    <2>1. firsts \subseteq Nat /\ firsts # {} /\ \A k \in firsts : k <= Len(TxInputs[a])
      BY <1>1 DEF S
    <2> HIDE DEF firsts
    <2> QED BY <1>2, <2>1, GreatestIs
  <1> DEFINE seconds == {ij[2] : ij \in {kl \in S : kl[1] = i}}
  <1>4. PICK j \in seconds : \A k \in seconds : k <= j
    <2>1. seconds \subseteq Nat /\ seconds # {} /\ \A k \in seconds : k <= Len(TxInputs[b])
      BY <1>1, <1>3
    <2> HIDE DEF seconds
    <2> QED BY <1>2, <2>1, GreatestIs
  <1>5. PICK ij \in S : ij[1] = i /\ ij[2] = j
    BY <1>4
  <1>6. \A kl \in S : kl[1] < ij[1] \/ (kl[1] = ij[1] /\ kl[2] <= ij[2])
    <2> SUFFICES ASSUME NEW kl \in S PROVE kl[1] < ij[1] \/ (kl[1] = ij[1] /\ kl[2] <= ij[2])
      OBVIOUS
    <2>1. kl[1] <= i /\ kl[1] \in Nat /\ i \in Nat
      BY <1>1, <1>3, <1>5
    <2>2. kl[1] = i => kl[2] <= j
      BY <1>4
    <2> QED BY <1>5, <2>1, <2>2
  <1> QED BY <1>6 DEF S, FindSharedInput

\* An input of a transaction that was validated: its output is there, and its owner signed.
LEMMA OwnersSigned ==
    ASSUME Stored, NEW n \in DOMAIN blocks \ forced, NEW k \in DOMAIN blocks[n].transactions,
           NEW x \in DOMAIN TxInputs[blocks[n].transactions[k]],
           TxInputs[blocks[n].transactions[k]][x].blknum # 0
    PROVE  LET t == blocks[n].transactions[k]
               p == TxInputs[t][x]
           IN  SpendingCondition(GetTransaction(p), p, t, x, TxSigners[t][x])
  <1> DEFINE t == blocks[n].transactions[k]
             p == TxInputs[t][x]
  <1>1. x \in InputsOf(t)
    BY DEF InputsOf, IsNothing
  <1>2. Exists(p) /\ TxSigners[t][x] = TxOutputs[GetTransaction(p)][p.oindex + 1].output_guard
    BY <1>1 DEF Stored, SignedByOwners
  <1>3. p.oindex + 1 \in DOMAIN TxOutputs[GetTransaction(p)]
    BY <1>2 DEF Exists, GetTransaction
  <1> QED BY <1>2, <1>3 DEF SpendingCondition

WasValidated(t) == \E n \in DOMAIN blocks \ forced : \E k \in DOMAIN blocks[n].transactions : blocks[n].transactions[k] = t

LEMMA ValidatedSpends ==
    ASSUME Stored, NEW t, WasValidated(t), NEW x \in DOMAIN TxInputs[t], TxInputs[t][x].blknum # 0
    PROVE  SpendingCondition(GetTransaction(TxInputs[t][x]), TxInputs[t][x], t, x, TxSigners[t][x])
  BY OwnersSigned DEF WasValidated

\* What is said of a call.
Names(c) ==
    WasValidated(c.tx) /\ Spent(c)
    => /\ SpendingCondition(c.sharedTx, c.shared, c.tx, c.index, c.signer)
       /\ "exitingIndex" \in DOMAIN c => TxInputs[c.exiting][c.exitingIndex] = c.shared

LEMMA NamesIsEnough ==
    ASSUME NEW c, Calls(c), "sharedTx" \in DOMAIN c => Names(c)
    PROVE  ChallengesNameTheSpend'
  <1>1. call' = c /\ UNCHANGED <<blocks, failed, forced>>
    BY DEF Calls, childVars
  <1> QED BY <1>1 DEF ChallengesNameTheSpend, Names, WasValidated, Spent, SpendingCondition

LEMMA StandardChallengeNames ==
    ASSUME Stored, NEW p \in OutputPositions, NEW q \in TxPositions, ChallengeStandardExit(p, q)
    PROVE  ChallengesNameTheSpend'
  <1> DEFINE t == GetTransaction(q)
             spends == {k \in DOMAIN TxInputs[t] : Same(TxInputs[t][k], p)}
             x == Min(spends)
             c == [kind |-> "challengeStandardExit", shared |-> p, sharedTx |-> GetTransaction(p),
                   tx |-> t, index |-> x, signer |-> TxSigners[t][x]]
  <1>1. spends # {} /\ Calls(c)
    BY DEF ChallengeStandardExit
  <1>2. t \in Txs /\ Located(p) = p /\ p.blknum # 0
    BY LocatedIs, OutputIsLocated
  <1>3. spends \subseteq Nat
    BY <1>2, InputsDecoded
  <1>4. x \in spends
    <2> HIDE DEF spends
    <2> QED BY <1>1, <1>3, LeastOf
  <1>5. x \in DOMAIN TxInputs[t] /\ TxInputs[t][x] = p
    BY <1>2, <1>4, InputsDecoded, SameAreEqual DEF Located
  <1>6. c.tx = t /\ c.shared = p /\ c.sharedTx = GetTransaction(p) /\ c.index = x /\ c.signer = TxSigners[t][x]
        /\ "exitingIndex" \notin DOMAIN c
    OBVIOUS
  <1>7. Names(c)
    <2> HIDE DEF c, x
    <2> QED BY <1>2, <1>5, <1>6, ValidatedSpends DEF Names
  <1> HIDE DEF c
  <1> QED BY <1>1, <1>7, NamesIsEnough

\* A given input that is the exit's, with its signer.
LEMMA GivenChallengeNames ==
    ASSUME Stored, NEW p \in OutputPositions, NEW q \in TxPositions,
           NEW k \in DOMAIN TxInputs[GetTransaction(q)], NEW who, ChallengeStandardExitGiven(p, q, k, who)
    PROVE  ChallengesNameTheSpend'
  <1> DEFINE t == GetTransaction(q)
             c == [kind |-> "challengeStandardExit", shared |-> p, sharedTx |-> GetTransaction(p),
                   tx |-> t, index |-> k, signer |-> who, given |-> TRUE]
  <1>1. Calls(c)
    BY DEF ChallengeStandardExitGiven
  <1>2. p.blknum # 0
    BY OutputIsLocated
  <1>3. c.tx = t /\ c.shared = p /\ c.sharedTx = GetTransaction(p) /\ c.index = k /\ c.signer = who
        /\ "exitingIndex" \notin DOMAIN c /\ "given" \in DOMAIN c
    OBVIOUS
  <1> HIDE DEF c
  <1>4. Names(c)
    <2> SUFFICES ASSUME WasValidated(t), Spent(c)
                 PROVE  SpendingCondition(GetTransaction(p), p, t, k, who)
      BY <1>3 DEF Names
    <2>1. TxInputs[t][k] = p /\ who = TxSigners[t][k]
      BY <1>3 DEF Spent
    <2> QED BY <1>2, <2>1, ValidatedSpends
  <1> QED BY <1>1, <1>4, NamesIsEnough

LEMMA SharedCallNames ==
    ASSUME Stored, NEW t \in Txs, NEW s \in Txs, CanShare(t, s), NEW c,
           c.tx = s, c.exiting = t, "exitingIndex" \in DOMAIN c,
           c.exitingIndex = FindSharedInput(t, s)[1], c.index = FindSharedInput(t, s)[2],
           c.signer = TxSigners[s][FindSharedInput(t, s)[2]],
           c.shared = TxInputs[t][FindSharedInput(t, s)[1]],
           c.sharedTx = GetTransaction(TxInputs[t][FindSharedInput(t, s)[1]])
    PROVE  Names(c)
  <1> DEFINE ij == FindSharedInput(t, s)
             p == TxInputs[t][ij[1]]
  <1> SUFFICES ASSUME WasValidated(s), Spent(c)
               PROVE  /\ SpendingCondition(GetTransaction(p), p, s, ij[2], TxSigners[s][ij[2]])
                      /\ TxInputs[t][ij[1]] = p
    BY DEF Names
  <1>1. PICK k \in InputsOf(t), x \in InputsOf(s) : TxInputs[t][k] = TxInputs[s][x]
    BY DEF Spent
  <1>2. <<k, x>> \in SharedInputs(t, s)
    BY <1>1, InputsDecoded DEF SharedInputs, Same, InputsOf
  <1>3. ij \in SharedInputs(t, s)
    BY <1>2, SharedInputIs
  <1>4. ij[1] \in DOMAIN TxInputs[t] /\ ij[2] \in DOMAIN TxInputs[s] /\ Same(p, TxInputs[s][ij[2]])
    BY <1>3 DEF SharedInputs
  <1>5. TxInputs[s][ij[2]] = p
    BY <1>4, InputsDecoded, SameAreEqual
  <1>6. p.blknum # 0
    BY DEF CanShare, HasTx, Stored
  <1> HIDE DEF ij
  <1> QED BY <1>4, <1>5, <1>6, ValidatedSpends

LEMMA OutputChallengeNames ==
    ASSUME Stored, NEW p \in TxPositions, NEW q \in TxPositions, NEW k \in 0 .. 1,
           ChallengeInFlightExitOutputSpent(p, q, k)
    PROVE  ChallengesNameTheSpend'
  <1> DEFINE s == GetTransaction(q)
             shared == Decode(IdOf(p) + k)
             found == {y \in DOMAIN TxInputs[s] : IdOf(TxInputs[s][y]) = IdOf(p) + k}
             x == FindInputIndex(IdOf(p) + k, s)
             c == [kind |-> "challengeInFlightExitOutputSpent", pos |-> p, exiting |-> GetTransaction(p),
                   proof |-> GetMerkleProof(p), shared |-> shared,
                   sharedTx |-> GetTransaction(p), tx |-> s, index |-> x, signer |-> TxSigners[s][x]]
  <1>1. Calls(c)
    BY DEF ChallengeInFlightExitOutputSpent
  <1>2. s \in Txs /\ Located(p) = p /\ p.blknum # 0 /\ shared = [p EXCEPT !.oindex = k]
    BY LocatedIs
  <1>3. shared.blknum = p.blknum /\ shared.txindex = p.txindex
    BY <1>2, PositionsFit
  <1>4. c.tx = s /\ c.shared = shared /\ c.sharedTx = GetTransaction(p) /\ c.index = x /\ c.signer = TxSigners[s][x]
        /\ "exitingIndex" \notin DOMAIN c /\ "given" \notin DOMAIN c
    OBVIOUS
  <1> HIDE DEF c
  <1>5. ASSUME WasValidated(s), Spent(c)
        PROVE  SpendingCondition(GetTransaction(p), shared, s, x, TxSigners[s][x])
    <2>1. PICK y \in InputsOf(s) : TxInputs[s][y] = shared
      BY <1>4, <1>5 DEF Spent
    <2> HIDE DEF shared
    <2>2. x \in found
      <3>1. DOMAIN TxInputs[s] \subseteq Nat /\ \A z \in DOMAIN TxInputs[s] : z <= Len(TxInputs[s])
        BY <1>2, InputsDecoded
      <3>2. found \subseteq Nat /\ \A z \in found : z <= Len(TxInputs[s])
        BY <3>1
      <3>3. y \in found /\ Len(TxInputs[s]) \in Nat
        <4>1. y \in DOMAIN TxInputs[s] /\ Decode(IdOf(TxInputs[s][y])) = TxInputs[s][y]
          BY <1>2, <2>1, InputsDecoded DEF InputsOf
        <4>2. IdOf(shared) = IdOf(p) + k
          <5>1. /\ p.blknum \in Nat /\ p.txindex \in Nat /\ p.oindex = 0
                /\ BLKNUM_OFFSET \in Nat /\ TXINDEX_OFFSET \in Nat /\ TxIndexSize \in Nat
            BY PositionsFit, OffsetAssumption DEF Stored
          <5>2. shared.oindex = k
            BY <1>2, PositionsFit DEF shared
          <5> DEFINE bs == p.blknum * BLKNUM_OFFSET
                     ts == p.txindex * TXINDEX_OFFSET
          <5>3. bs \in Int /\ ts \in Int /\ k \in Int
            BY <5>1
          <5>4. IdOf(shared) = bs + ts + k /\ IdOf(p) = bs + ts + 0
            BY <1>3, <5>1, <5>2 DEF IdOf, Encode, shared
          <5> HIDE DEF bs, ts
          <5> QED BY <5>3, <5>4
        <4> QED BY <1>2, <2>1, <4>1, <4>2, InputsDecoded
      <3>4. x = Max(found)
        BY <3>3 DEF FindInputIndex
      <3> HIDE DEF found, x
      <3>5. PICK m \in found : \A z \in found : z <= m
        BY <3>2, <3>3, GreatestIs
      <3> QED BY <3>2, <3>4, <3>5 DEF Max
    <2>3. x \in DOMAIN TxInputs[s] /\ TxInputs[s][x] = shared
      BY <1>2, <2>2, InputsDecoded DEF shared
    <2>4. SpendingCondition(GetTransaction(shared), shared, s, x, TxSigners[s][x])
      <3> HIDE DEF x
      <3> QED BY <1>2, <1>3, <1>5, <2>3, ValidatedSpends
    <2>5. Located(shared) = shared
      BY <1>2, <2>3, InputsDecoded DEF Located
    <2>6. GetTransaction(shared) = GetTransaction(p)
      BY <1>2, <1>3, <2>5 DEF GetTransaction
    <2> QED BY <2>4, <2>6
  <1>6. Names(c)
    <2> HIDE DEF shared, x
    <2> QED BY <1>4, <1>5 DEF Names
  <1> QED BY <1>1, <1>6, NamesIsEnough

LEMMA CallNames ==
    ASSUME NamingInv, Call
    PROVE  ChallengesNameTheSpend'
  <1>1. Stored
    BY DEF NamingInv
  <1>2. ASSUME NEW c, Calls(c), "sharedTx" \notin DOMAIN c PROVE ChallengesNameTheSpend'
    BY <1>2, NamesIsEnough
  <1>3. ASSUME NEW p, NEW t, NEW txs, StartStandardExitWithTxBody(p, t, txs)
        PROVE  ChallengesNameTheSpend'
    <2> DEFINE c == [kind |-> "startStandardExit", pos |-> p, tx |-> t, tree |-> txs, proof |-> MembershipProof(txs, t)]
    <2>1. Calls(c) /\ "sharedTx" \notin DOMAIN c
      BY <1>3 DEF StartStandardExitWithTxBody
    <2> HIDE DEF c
    <2> QED BY <1>2, <2>1
  <1>7. ASSUME NEW p \in TxPositions, RespondToNonCanonicalChallenge(p)
        PROVE  ChallengesNameTheSpend'
    <2> DEFINE c == [kind |-> "respondToNonCanonicalChallenge", pos |-> p, tx |-> GetTransaction(p),
                     proof |-> GetMerkleProof(p)]
    <2>1. Calls(c) /\ "sharedTx" \notin DOMAIN c
      BY <1>7 DEF RespondToNonCanonicalChallenge
    <2> HIDE DEF c
    <2> QED BY <1>2, <2>1
  <1>4. ASSUME NEW t \in Txs, StartInFlightExit(t) PROVE ChallengesNameTheSpend'
    <2>1. "sharedTx" \notin DOMAIN InFlightExitInfo(t)
      BY DEF InFlightExitInfo
    <2> QED BY <1>2, <1>4, <2>1 DEF StartInFlightExit
  <1>5. ASSUME NEW t \in Txs, NEW q \in TxPositions, ChallengeInFlightExitInputSpent(t, q)
        PROVE  ChallengesNameTheSpend'
    <2> DEFINE c == SharedCall("challengeInFlightExitInputSpent", t, GetTransaction(q))
    <2>1. CanShare(t, GetTransaction(q)) /\ GetTransaction(q) \in Txs /\ Calls(c)
      BY <1>1, <1>5, LocatedIs DEF ChallengeInFlightExitInputSpent
    <2> DEFINE s == GetTransaction(q)
               ij == FindSharedInput(t, s)
    <2>2. /\ c.tx = s /\ c.exiting = t /\ "exitingIndex" \in DOMAIN c
          /\ c.exitingIndex = ij[1] /\ c.index = ij[2] /\ c.signer = TxSigners[s][ij[2]]
          /\ c.shared = TxInputs[t][ij[1]] /\ c.sharedTx = GetTransaction(TxInputs[t][ij[1]])
      BY DEF SharedCall
    <2> HIDE DEF c
    <2>3. Names(c)
      BY <1>1, <2>1, <2>2, SharedCallNames
    <2> QED BY <2>1, <2>3, NamesIsEnough
  <1>6. ASSUME NEW t \in Txs, NEW q \in TxPositions, ChallengeInFlightExitNotCanonical(t, q)
        PROVE  ChallengesNameTheSpend'
    <2> DEFINE s == GetTransaction(q)
               ij == FindSharedInput(t, s)
               d == SharedCall("challengeInFlightExitNotCanonical", t, s)
               c == WithProof(d, q)
    <2>1. CanShare(t, s) /\ s \in Txs /\ Calls(c)
      BY <1>1, <1>6, LocatedIs DEF ChallengeInFlightExitNotCanonical
    <2>2. /\ d.tx = s /\ d.exiting = t /\ {"tx", "exiting", "exitingIndex", "index", "signer", "shared", "sharedTx"} \subseteq DOMAIN d
          /\ d.exitingIndex = ij[1] /\ d.index = ij[2] /\ d.signer = TxSigners[s][ij[2]]
          /\ d.shared = TxInputs[t][ij[1]] /\ d.sharedTx = GetTransaction(TxInputs[t][ij[1]])
      BY DEF SharedCall
    <2> HIDE DEF d
    <2>3. \A f \in DOMAIN d \ {"pos", "proof"} : f \in DOMAIN c /\ c[f] = d[f]
      BY DEF WithProof
    <2> HIDE DEF c, ij, s
    <2>4. /\ c.tx = s /\ c.exiting = t /\ "exitingIndex" \in DOMAIN c
          /\ c.exitingIndex = ij[1] /\ c.index = ij[2] /\ c.signer = TxSigners[s][ij[2]]
          /\ c.shared = TxInputs[t][ij[1]] /\ c.sharedTx = GetTransaction(TxInputs[t][ij[1]])
      BY <2>2, <2>3
    <2>5. Names(c)
      BY <1>1, <2>1, <2>4, SharedCallNames DEF ij
    <2> QED BY <2>1, <2>5, NamesIsEnough
  <1>8. ASSUME NEW p \in OutputPositions, StartStandardExit(p) \/ \E t \in Txs : StartStandardExitAlone(p, t)
        PROVE  ChallengesNameTheSpend'
    BY <1>3, <1>8 DEF StartStandardExit, StartStandardExitAlone
  <1> QED BY <1>1, <1>4, <1>5, <1>6, <1>7, <1>8, StandardChallengeNames, GivenChallengeNames, OutputChallengeNames DEF Call

----------------------------------------------------------------------------
\* What is stored.

\* A block that is validated spends what its signers own.
LEMMA ValidatedIsSigned ==
    ASSUME NEW b, b.transactions \in Seq(Txs), ValidateBlock(b) = "ok"
    PROVE  SignedByOwners(b)
  <1> SUFFICES ASSUME NEW k \in DOMAIN b.transactions, NEW x \in InputsOf(b.transactions[k])
               PROVE  LET i == TxInputs[b.transactions[k]][x]
                      IN  /\ Exists(i)
                          /\ TxSigners[b.transactions[k]][x] = TxOutputs[GetTransaction(i)][i.oindex + 1].output_guard
    BY DEF SignedByOwners
  <1> DEFINE t == b.transactions[k]
             txs == [j \in DOMAIN b.transactions |-> ValidateTransaction(b.transactions[j])]
             inputs == [y \in DOMAIN TxInputs[t] |-> CheckInput(t, y)]
  <1>1. t \in Txs /\ k \in DOMAIN txs /\ DOMAIN txs \subseteq Nat /\ txs[k] = ValidateTransaction(t)
    OBVIOUS
  <1>2. FirstBad(txs) = "ok"
    BY DEF ValidateBlock
  <1>3. ValidateTransaction(t) = "ok"
    <2> HIDE DEF txs
    <2> QED BY <1>1, <1>2, NoneBad
  <1>4. FirstBad(inputs) = "ok"
    BY <1>3 DEF ValidateTransaction
  <1>5. DOMAIN inputs \subseteq Nat /\ x \in DOMAIN inputs /\ inputs[x] = CheckInput(t, x) /\ ~ IsNothing(TxInputs[t][x])
    <2>1. TxInputs[t] \in Seq(Positions)
      BY <1>1, ChainAssumption
    <2>2. DOMAIN TxInputs[t] \subseteq Nat /\ x \in DOMAIN TxInputs[t] /\ ~ IsNothing(TxInputs[t][x])
      BY <2>1 DEF InputsOf
    <2> QED BY <2>2
  <1>6. CheckInput(t, x) = "ok"
    <2> HIDE DEF inputs
    <2> QED BY <1>4, <1>5, NoneBad
  <1> QED BY <1>5, <1>6 DEF CheckInput

LEMMA SignedStays ==
    ASSUME BlocksStay, NEW b, SignedByOwners(b)
    PROVE  SignedByOwners(b)'
  <1> SUFFICES ASSUME NEW k \in DOMAIN b.transactions, NEW x \in InputsOf(b.transactions[k])
               PROVE  LET i == TxInputs[b.transactions[k]][x]
                      IN  /\ Exists(i)'
                          /\ TxSigners[b.transactions[k]][x] = TxOutputs[GetTransaction(i)'][i.oindex + 1].output_guard
    BY DEF SignedByOwners
  <1> DEFINE i == TxInputs[b.transactions[k]][x]
  <1>1. Exists(i) /\ TxSigners[b.transactions[k]][x] = TxOutputs[GetTransaction(i)][i.oindex + 1].output_guard
    BY DEF SignedByOwners
  <1>2. Exists(i)' /\ GetTransaction(i)' = GetTransaction(i)
    <2> HIDE DEF i
    <2> QED BY <1>1 DEF BlocksStay, Exists, GetTransaction
  <1> QED BY <1>1, <1>2

LEMMA StoreKeepsStored ==
    ASSUME Stored, NEW b, NEW n \in Nat, b.transactions \in Seq(Txs), Len(b.transactions) <= 2^MerkleDepth,
           nextDepositBlock \in Nat, nextDepositBlock' \in Nat, nextDepositBlock <= n, n < nextDepositBlock',
           blocks' = [m \in DOMAIN blocks \cup {n} |-> IF m = n THEN b ELSE blocks[m]],
           forced' = forced \cup {n} \/ (forced' = forced /\ SignedByOwners(b))
    PROVE  Stored'
  <1>1. \A m \in DOMAIN blocks : m \in Nat \ {0} /\ m < nextDepositBlock
    BY DEF Stored
  <1>2. /\ DOMAIN blocks' = DOMAIN blocks \cup {n} /\ blocks'[n] = b
        /\ \A m \in DOMAIN blocks : blocks'[m] = blocks[m] /\ m # n
    BY <1>1
  <1>3. BlocksStay
    BY <1>2 DEF BlocksStay
  <1>4. nextDepositBlock' >= 1 /\ n # 0
    BY DEF Stored
  <1>5. ASSUME NEW m \in DOMAIN blocks'
        PROVE  /\ m \in Nat \ {0} /\ m < nextDepositBlock'
               /\ blocks'[m].transactions \in Seq(Txs) /\ Len(blocks'[m].transactions) <= 2^MerkleDepth
    BY <1>1, <1>2, <1>4 DEF Stored
  <1>6. ASSUME NEW m \in DOMAIN blocks' \ forced' PROVE (SignedByOwners(blocks[m]))'
    <2>1. CASE m = n
      <3>1. SignedByOwners(b)'
        BY <1>3, <2>1, SignedStays
      <3> QED BY <1>2, <2>1, <3>1
    <2>2. CASE m # n
      <3>1. PICK old : old = blocks[m]
        OBVIOUS
      <3>2. SignedByOwners(old)
        BY <1>2, <2>2, <3>1 DEF Stored
      <3>3. SignedByOwners(old)'
        BY <1>3, <3>2, SignedStays
      <3> QED BY <1>2, <2>2, <3>1, <3>3
    <2> QED BY <2>1, <2>2
  <1> QED BY <1>4, <1>5, <1>6 DEF Stored

LEMMA StoredStays ==
    ASSUME Stored, UNCHANGED <<blocks, nextDepositBlock, forced>>
    PROVE  Stored'
  <1>1. BlocksStay
    BY DEF BlocksStay
  <1>2. ASSUME NEW m \in DOMAIN blocks \ forced PROVE (SignedByOwners(blocks[m]))'
    <2>1. PICK old : old = blocks[m]
      OBVIOUS
    <2>2. SignedByOwners(old)'
      BY <1>1, <1>2, <2>1, SignedStays DEF Stored
    <2> QED BY <2>1, <2>2
  <1> QED BY <1>2 DEF Stored

\* What add_block does with a new block keeps it.
LEMMA ActivateKeepsStored ==
    ASSUME Stored, Bounded, NEW b, b.number \in Nat, b.transactions \in Seq(Txs),
           Len(b.transactions) <= 2^MerkleDepth, Activate(b, <<>>), forced' = forced
    PROVE  Stored'
  <1>1. CASE AddToHead(b, <<>>)
    <2>1. SignedByOwners(b) /\ b.number \in {nextChildBlock, nextDepositBlock}
      BY <1>1, ValidatedIsSigned DEF AddToHead, IsNext
    <2>2. blocks' = [n \in DOMAIN blocks \cup {b.number} |-> IF n = b.number THEN b ELSE blocks[n]]
      BY <1>1 DEF AddToHead
    <2>3. nextDepositBlock' = b.number + 1 /\ nextDepositBlock <= b.number /\ nextDepositBlock \in Nat
      BY <1>1, <2>1 DEF AddToHead, Bounded
    <2> QED BY <2>1, <2>2, <2>3, StoreKeepsStored
  <1>2. CASE ~ AddToHead(b, <<>>)
    <2>1. UNCHANGED <<blocks, nextDepositBlock>>
      BY <1>2 DEF Activate, Reject, Raise, Wait, AlreadyThere, ReturnFalse
    <2> QED BY <2>1, StoredStays
  <1> QED BY <1>1, <1>2

LEMMA NamingStep == NamingInv /\ [Next]_vars => NamingInv'
  <1> SUFFICES ASSUME NamingInv, [Next]_vars PROVE NamingInv'
    OBVIOUS
  <1>1. StepInv' /\ StepInv /\ Bounded /\ Stored /\ CallAlone
    BY StepInvStep DEF NamingInv, StepInv
  <1>2. ASSUME call' = NoCall PROVE CallAlone' /\ ChallengesNameTheSpend'
    <2>1. "sharedTx" \notin DOMAIN NoCall
      BY DEF NoCall
    <2> QED BY <1>2, <2>1 DEF CallAlone, ChallengesNameTheSpend
  <1>3. ASSUME UNCHANGED <<blocks, nextDepositBlock, forced>> PROVE Stored'
    BY <1>1, <1>3, StoredStays
  <1>4. ASSUME NEW t \in DepositTxs, Deposit(t) PROVE NamingInv'
    <2> DEFINE n == rootNextChild - ChildBlockInterval + rootNextDeposit
               b == [number |-> n, transactions |-> <<t>>, signer |-> NoOne]
    <2>1. Activate(b, <<>>) /\ forced' = forced /\ call' = NoCall
      BY <1>4 DEF Deposit, Idle, Root!NextDepositBlock
    <2>2. t \in Txs /\ rootNextChild \in Nat /\ rootNextDeposit \in Nat
      BY <1>1, LanguageAssumption DEF Bounded
    <2>3. n \in Nat
      BY <1>1, Interval DEF StepInv, Bounded, Behind, Level
    <2>4. b.number = n /\ b.transactions = <<t>> /\ <<t>> \in Seq(Txs) /\ Len(<<t>>) <= 2^MerkleDepth
      BY <2>2, Powers, LanguageAssumption
    <2> HIDE DEF b, n
    <2>5. Stored'
      BY <1>1, <2>1, <2>3, <2>4, ActivateKeepsStored
    <2> QED BY <1>1, <1>2, <2>1, <2>5 DEF NamingInv
  <1>5. ASSUME NEW txs \in TxLists, NEW forceInvalid \in BOOLEAN, SubmitBlock(txs, forceInvalid)
        PROVE  NamingInv'
    <2> DEFINE b == [number |-> rootNextChild, transactions |-> txs, signer |-> Operator]
    <2>1. /\ IF forceInvalid THEN ForceBlock(b) ELSE Activate(b, <<>>)
          /\ forced' = IF forceInvalid THEN forced \cup {nextChildBlock} ELSE forced
          /\ call' = NoCall
      BY <1>5 DEF SubmitBlock, Idle
    <2>2. /\ b.number = rootNextChild /\ b.transactions = txs /\ txs \in Seq(Txs) /\ rootNextChild \in Nat
          /\ Len(txs) <= 2^MerkleDepth
      BY <1>1, LanguageAssumption DEF Bounded
    <2> HIDE DEF b
    <2>3. CASE forceInvalid
      <3>1. /\ blocks' = [n \in DOMAIN blocks \cup {nextChildBlock} |-> IF n = nextChildBlock THEN b ELSE blocks[n]]
            /\ nextDepositBlock' = nextChildBlock + 1 /\ forced' = forced \cup {nextChildBlock}
        BY <2>1, <2>3 DEF ForceBlock
      <3>2. nextChildBlock \in Nat /\ nextDepositBlock \in Nat /\ nextDepositBlock <= nextChildBlock
        BY <1>1 DEF Bounded
      <3>3. Stored'
        BY <1>1, <2>2, <3>1, <3>2, StoreKeepsStored
      <3> QED BY <1>1, <1>2, <2>1, <3>3 DEF NamingInv
    <2>4. CASE ~ forceInvalid
      <3>1. Stored'
        BY <1>1, <2>1, <2>2, <2>4, ActivateKeepsStored
      <3> QED BY <1>1, <1>2, <2>1, <3>1 DEF NamingInv
    <2> QED BY <2>3, <2>4
  <1>6. CASE AddBlockGoesOn
    <2>1. /\ frames # <<>> /\ UNCHANGED <<call, asserting, forced, failed>>
      BY <1>6 DEF AddBlockGoesOn, AddWaiting, ReturnTrue
    <2>2. call = NoCall
      BY <1>1, <2>1 DEF CallAlone
    <2>3. Level
      BY <1>1, <2>1 DEF StepInv, Refused, Behind
    <2>4. PICK n \in Nat : frames = <<[number |-> n, tried |-> 0]>>
      BY <2>1, <2>3 DEF Level
    <2>5. Innermost = [number |-> n, tried |-> 0]
      BY <2>4 DEF Innermost
    <2>6. ~ Untried
      BY <2>3, <2>5 DEF Untried, Waiting, Level
    <2>7. UNCHANGED <<blocks, nextDepositBlock>>
      BY <1>6, <2>6 DEF AddBlockGoesOn, AddWaiting, ReturnTrue
    <2> QED BY <1>1, <1>2, <1>3, <2>1, <2>2, <2>7 DEF NamingInv
  <1>7. CASE AssertAdded
    <2>1. asserting /\ UNCHANGED <<call, childVars, forced>>
      BY <1>7 DEF AssertAdded
    <2>2. call = NoCall
      BY <1>1, <2>1 DEF CallAlone
    <2> QED BY <1>1, <1>2, <1>3, <2>1, <2>2 DEF NamingInv, childVars
  <1>8. CASE Call
    <2>1. Idle /\ UNCHANGED <<childVars, asserting, forced>>
      BY <1>8 DEF Call, Calls, StartStandardExit, RespondToNonCanonicalChallenge,
           StartStandardExitWithTxBody, StartStandardExitAlone, ChallengeStandardExit, ChallengeStandardExitGiven,
           ChallengeInFlightExitOutputSpent, StartInFlightExit,
           ChallengeInFlightExitNotCanonical, ChallengeInFlightExitInputSpent
    <2>2. CallAlone'
      BY <2>1 DEF Idle, CallAlone, childVars
    <2> QED BY <1>1, <1>3, <1>8, <2>1, <2>2, CallNames DEF NamingInv, childVars
  <1>9. CASE CallReturns
    <2>1. call' = NoCall /\ UNCHANGED <<childVars, forced>>
      BY <1>9 DEF CallReturns
    <2> QED BY <1>1, <1>2, <1>3, <2>1 DEF NamingInv, childVars
  <1>10. CASE UNCHANGED vars
    <2>1. UNCHANGED <<childVars, asserting, failed, forced, call>>
      BY <1>10 DEF vars
    <2>2. CallAlone'
      BY <1>1, <2>1 DEF CallAlone, childVars
    <2>3. ChallengesNameTheSpend'
      BY <2>1 DEF NamingInv, ChallengesNameTheSpend, childVars, Spent, SpendingCondition
    <2> QED BY <1>1, <1>3, <2>1, <2>2, <2>3 DEF NamingInv, childVars
  <1> QED BY <1>4, <1>5, <1>6, <1>7, <1>8, <1>9, <1>10 DEF Next

LEMMA NamingInit == Init => NamingInv
  <1> SUFFICES ASSUME Init PROVE NamingInv
    OBVIOUS
  <1>1. DOMAIN blocks = {} /\ nextDepositBlock = 1 /\ call = NoCall
    BY DEF Init, ChildInit
  <1>2. "sharedTx" \notin DOMAIN call
    BY <1>1 DEF NoCall
  <1> QED BY <1>1, <1>2, StepInvInit DEF NamingInv, Stored, CallAlone, ChallengesNameTheSpend

\* A challenge with a validated transaction that spends what the exit is about names that input on
\* both sides with its owner's signature, for any transactions and blocks, forced ones among them.
THEOREM SpendIsNamed == Spec => []ChallengesNameTheSpend
  <1>1. NamingInv => ChallengesNameTheSpend
    BY DEF NamingInv
  <1> QED BY <1>1, NamingInit, NamingStep, PTL DEF Spec

----------------------------------------------------------------------------
\* What the calls are given.

\* The numbers up to n, in their order.
LEMMA AscendingIs ==
    ASSUME NEW n \in Nat
    PROVE  Ascending(1 .. n) = [i \in 1 .. n |-> i]
  <1> DEFINE Rising(s) == \A i, j \in DOMAIN s : i < j => s[i] < s[j]
             id == [i \in 1 .. n |-> i]
             s == Ascending(1 .. n)
  <1>1. Cardinality(1 .. n) = n
    BY FS_Interval
  <1>2. id \in [1 .. n -> 1 .. n] /\ Rising(id)
    OBVIOUS
  <1>3. s = CHOOSE r \in [1 .. n -> 1 .. n] : Rising(r)
    BY <1>1 DEF Ascending
  <1> HIDE DEF Rising, id, s
  <1>4. s \in [1 .. n -> 1 .. n] /\ Rising(s)
    BY <1>2, <1>3
  <1> DEFINE Low == {i \in 1 .. n : s[i] < i}
             High == {k \in 0 .. n - 1 : s[n - k] > n - k}
  <1>5. ASSUME NEW i \in Low PROVE \E j \in Low : j < i
    <2>1. s[i] \in 1 .. n /\ s[i] < i /\ i - 1 \in 1 .. n
      BY <1>4
    <2>2. s[i - 1] < s[i] /\ s[i - 1] \in 1 .. n
      BY <1>4, <2>1 DEF Rising
    <2> QED BY <2>1, <2>2
  <1>6. ASSUME NEW k \in High PROVE \E j \in High : j < k
    <2> DEFINE i == n - k
    <2>1. i \in 1 .. n /\ s[i] \in 1 .. n /\ s[i] > i /\ i + 1 \in 1 .. n /\ n - (k - 1) = i + 1 /\ k - 1 \in 0 .. n - 1
      BY <1>4
    <2> HIDE DEF i
    <2>2. s[i] < s[i + 1] /\ s[i + 1] \in 1 .. n
      BY <1>4, <2>1 DEF Rising
    <2>3. k - 1 \in High /\ k - 1 < k
      BY <2>1, <2>2
    <2> QED BY <2>3
  <1>7. Low \subseteq Nat /\ High \subseteq Nat
    OBVIOUS
  <1>8. Low = {} /\ High = {}
    <2> HIDE DEF Low, High
    <2> QED BY <1>5, <1>6, <1>7, NoneIsLeast
  <1>9. ASSUME NEW i \in 1 .. n PROVE s[i] = i
    <2>1. s[i] \in 1 .. n /\ ~ s[i] < i /\ n - i \in 0 .. n - 1 /\ n - (n - i) = i
      BY <1>4, <1>8
    <2>2. ~ s[i] > i
      BY <2>1, <1>8
    <2> QED BY <2>1, <2>2
  <1>10. s = [i \in 1 .. n |-> s[i]]
    BY <1>4
  <1>11. s = id
    BY <1>9, <1>10 DEF id
  <1> QED BY <1>11 DEF s, id

HaveSame == rootTxs = [n \in DOMAIN blocks |-> blocks[n].transactions]

\* The leaf of a transaction is the first one like it, unless an equal transaction comes before.
LEMMA FirstIndexIs ==
    ASSUME Stored, NEW p, HasTx(p), Located(p) = p, p.txindex \in Nat, FirstOfEqual(p)
    PROVE  FirstIndex(blocks[p.blknum].transactions, GetTransaction(p)) = p.txindex
  <1> DEFINE txs == blocks[p.blknum].transactions
             x == p.txindex
             L == Leaves(txs)
             e == Encoded(GetTransaction(p))
             like == {k \in DOMAIN L : L[k] = e}
  <1>1. x + 1 \in DOMAIN txs /\ txs \in Seq(Txs) /\ Len(txs) <= 2^MerkleDepth /\ GetTransaction(p) = txs[x + 1]
    BY DEF HasTx, Stored, GetTransaction
  <1>2. 2^MerkleDepth \in Nat
    BY Powers, LanguageAssumption
  <1>3. DOMAIN L = 1 .. 2^MerkleDepth /\ \A k \in DOMAIN L : L[k] = IF k <= Len(txs) THEN Encoded(txs[k]) ELSE <<>>
    BY DEF Leaves
  <1>4. e # <<>> /\ e = Encoded(txs[x + 1])
    BY <1>1 DEF Encoded
  <1>5. \A k \in DOMAIN txs : Encoded(txs[k]) = e => k > x
    BY <1>4 DEF FirstOfEqual
  <1>6. FirstIndex(txs, GetTransaction(p)) = Min(like) - 1
    BY DEF FirstIndex
  <1> HIDE DEF txs, x, L, e
  <1>7. like \subseteq Nat /\ x + 1 \in like
    BY <1>1, <1>2, <1>3, <1>4
  <1>8. \A k \in like : x + 1 <= k
    <2> SUFFICES ASSUME NEW k \in like PROVE x + 1 <= k
      OBVIOUS
    <2>1. k \in Nat /\ k <= Len(txs) /\ k \in DOMAIN txs /\ Encoded(txs[k]) = e
      BY <1>1, <1>2, <1>3, <1>4
    <2> QED BY <1>5, <2>1 DEF x
  <1> HIDE DEF like
  <1>9. Min(like) = x + 1
    BY <1>7, <1>8, MinIs
  <1> QED BY <1>6, <1>9 DEF x, txs

\* A proof that the child chain makes is one for the block that the contracts have.
LEMMA OwnProofIsAccepted ==
    ASSUME Stored, HaveSame, NEW p, HasTx(p), Located(p) = p, p.txindex \in Nat, FirstOfEqual(p)
    PROVE  Included(GetTransaction(p), p, GetMerkleProof(p))
  <1> DEFINE txs == blocks[p.blknum].transactions
             x == p.txindex
             L == Leaves(txs)
             tx == GetTransaction(p)
             S == {L[k] : k \in 1 .. 2^MerkleDepth}
  <1>1. x + 1 \in DOMAIN txs /\ txs \in Seq(Txs) /\ Len(txs) <= 2^MerkleDepth /\ tx = txs[x + 1]
    BY DEF HasTx, Stored, GetTransaction
  <1>2. 2^MerkleDepth \in Nat
    BY Powers, LanguageAssumption
  <1>3. FirstIndex(txs, tx) = x
    BY FirstIndexIs
  <1>4. GetMerkleProof(p) = ProofOf(L, x)
    BY <1>3 DEF GetMerkleProof, MembershipProof, ProofOf
  <1>5. L = [k \in 1 .. 2^MerkleDepth |-> IF k <= Len(txs) THEN Encoded(txs[k]) ELSE <<>>]
    BY DEF Leaves
  <1>6. p.blknum \in DOMAIN rootTxs /\ rootTxs[p.blknum] = txs
    BY DEF HasTx, HaveSame
  <1> HIDE DEF txs, x, L, tx
  <1>7. L \in Seq(S) /\ Len(L) = 2^MerkleDepth
    <2> DEFINE n == 2^MerkleDepth
    <2>1. n \in Nat /\ DOMAIN L = 1 .. n /\ L = [k \in 1 .. n |-> L[k]]
      BY <1>2, <1>5
    <2>2. L \in [1 .. n -> S]
      BY <2>1
    <2> HIDE DEF n, S
    <2>3. L \in Seq(S) /\ Len(L) = n
      BY <2>1, <2>2
    <2> QED BY <2>3 DEF n
  <1>8. x \in 0 .. 2^MerkleDepth - 1 /\ L[x + 1] = Encoded(tx)
    BY <1>1, <1>2, <1>5 DEF x
  <1> HIDE DEF S
  <1>9. Climbed(tx, x, ProofOf(L, x)) = L
    BY <1>7, <1>8, ClimbsToTheRoot
  <1> QED BY <1>4, <1>6, <1>9 DEF Included, tx, x, L

\* What is said of a call.
Accepted(c) ==
    "proof" \in DOMAIN c /\ OfItsBlock(c) => (FirstOfEqual(c.pos) => Included(GetTransaction(c.pos), c.pos, c.proof))

LEMMA AcceptedIsEnough ==
    ASSUME NEW c, Calls(c), Accepted(c)
    PROVE  ProofsAccepted'
  <1>1. call' = c /\ UNCHANGED <<blocks, rootTxs, failed>>
    BY DEF Calls, childVars, rootVars
  <1>2. (Included(GetTransaction(c.pos), c.pos, c.proof))' <=> Included(GetTransaction(c.pos), c.pos, c.proof)
    BY <1>1 DEF Included, GetTransaction
  <1>3. FirstOfEqual(c.pos)' <=> FirstOfEqual(c.pos)
    BY <1>1 DEF FirstOfEqual
  <1>4. OfItsBlock(c)' <=> OfItsBlock(c)
    BY <1>1 DEF OfItsBlock
  <1> QED BY <1>1, <1>2, <1>3, <1>4 DEF ProofsAccepted, Accepted

Fits(c) ==
    /\ c.kind = "startInFlightExit" /\ WasValidated(c.tx)
    /\ \A k \in DOMAIN TxInputs[c.tx] : ~ IsNothing(TxInputs[c.tx][k])
    => /\ Len(c.inputTxs) = Len(c.positions) /\ Len(c.signers) = Len(c.positions)
       /\ \A k \in DOMAIN c.positions :
            /\ SpendingCondition(c.inputTxs[k], c.positions[k], c.tx, k, c.signers[k])
            /\ FirstOfEqual(c.positions[k]) => Included(c.inputTxs[k], c.positions[k], c.proofs[k])

LEMMA FitsIsEnough ==
    ASSUME NEW c, Calls(c), Fits(c)
    PROVE  InFlightInfoFits'
  <1>1. call' = c /\ UNCHANGED <<blocks, rootTxs, failed, forced>>
    BY DEF Calls, childVars, rootVars
  <1>2. WasValidated(c.tx)' <=> WasValidated(c.tx)
    BY <1>1 DEF WasValidated
  <1>3. \A k : (Included(c.inputTxs[k], c.positions[k], c.proofs[k]))'
                 <=> Included(c.inputTxs[k], c.positions[k], c.proofs[k])
    BY <1>1 DEF Included
  <1>4. \A k : FirstOfEqual(c.positions[k])' <=> FirstOfEqual(c.positions[k])
    BY <1>1 DEF FirstOfEqual
  <1> QED BY <1>1, <1>2, <1>3, <1>4 DEF InFlightInfoFits, Fits, WasValidated, SpendingCondition

\* A proof from the tree of the transaction alone, which is the block's then.
LEMMA AloneIsOwn ==
    ASSUME Stored, NEW p \in OutputPositions, NEW t, Leaves(<<t>>) = Leaves(blocks[p.blknum].transactions)
    PROVE  MembershipProof(<<t>>, t) = GetMerkleProof(p)
  <1> DEFINE txs == blocks[p.blknum].transactions
             n == 2^MerkleDepth
             x == p.txindex
  <1>1. /\ x \in Nat /\ x + 1 \in DOMAIN txs /\ txs \in Seq(Txs) /\ Len(txs) <= n /\ GetTransaction(p) = txs[x + 1]
        /\ n \in Nat
    <2>1. HasTx(p) /\ p.txindex \in Nat /\ GetTransaction(p) = txs[x + 1]
      BY OutputIsLocated
    <2> QED BY <2>1, Powers, LanguageAssumption DEF HasTx, Stored
  <1>2. x + 1 \in 1 .. n /\ x + 1 <= Len(txs)
    <2> HIDE DEF n, x, txs
    <2> QED BY <1>1
  <1>3. Leaves(txs)[x + 1] = Encoded(GetTransaction(p)) /\ Encoded(GetTransaction(p)) # <<>>
    BY <1>1, <1>2 DEF Leaves, Encoded
  <1>4. Leaves(<<t>>)[x + 1] = IF x + 1 <= 1 THEN Encoded(<<t>>[x + 1]) ELSE <<>>
    BY <1>2 DEF Leaves
  <1>5. x + 1 = 1 /\ Encoded(t) = Encoded(GetTransaction(p))
    BY <1>1, <1>3, <1>4
  <1>6. FirstIndex(<<t>>, t) = FirstIndex(txs, GetTransaction(p))
    BY <1>5 DEF FirstIndex
  <1> QED BY <1>6 DEF MembershipProof, GetMerkleProof

LEMMA InputIsLocated ==
    ASSUME NEW t \in Txs, NEW x \in DOMAIN TxInputs[t]
    PROVE  Located(TxInputs[t][x]) = TxInputs[t][x] /\ TxInputs[t][x].txindex \in Nat
  <1>1. TxInputs[t] \in Seq(Positions)
    BY ChainAssumption
  <1>2. TxInputs[t][x] \in Positions
    BY <1>1
  <1> QED BY <1>2, InputsDecoded DEF Located, Positions

\* All inputs count: each has its transaction, proof and signature at its place.
LEMMA InfoFits ==
    ASSUME Stored, HaveSame, NEW t \in Txs, StartInFlightExit(t)
    PROVE  Fits(InFlightExitInfo(t))
  <1> DEFINE c == InFlightExitInfo(t)
             n == Len(TxInputs[t])
             ks == Ascending(InputsOf(t))
  <1> SUFFICES ASSUME WasValidated(t), \A k \in DOMAIN TxInputs[t] : ~ IsNothing(TxInputs[t][k])
               PROVE  /\ Len(c.inputTxs) = Len(c.positions) /\ Len(c.signers) = Len(c.positions)
                      /\ \A k \in DOMAIN c.positions :
                            /\ SpendingCondition(c.inputTxs[k], c.positions[k], t, k, c.signers[k])
                            /\ FirstOfEqual(c.positions[k]) => Included(c.inputTxs[k], c.positions[k], c.proofs[k])
    <2>1. c.tx = t
      BY DEF InFlightExitInfo
    <2> HIDE DEF c
    <2> QED BY <2>1 DEF Fits, c
  <1>1. TxInputs[t] \in Seq(Positions) /\ n \in Nat /\ DOMAIN TxInputs[t] = 1 .. n
    BY ChainAssumption
  <1>2. InputsOf(t) = 1 .. n
    BY <1>1 DEF InputsOf
  <1>3. ks = [k \in 1 .. n |-> k]
    BY <1>1, <1>2, AscendingIs
  <1> HIDE DEF ks
  <1>4. /\ c.positions = TxInputs[t]
        /\ c.inputTxs = [k \in 1 .. n |-> GetTransaction(TxInputs[t][k])]
        /\ c.proofs = [k \in 1 .. n |-> GetMerkleProof(TxInputs[t][k])]
        /\ c.signers = [k \in 1 .. n |-> TxSigners[t][k]]
    <2>1. /\ c.positions = TxInputs[t]
          /\ c.inputTxs = [k \in DOMAIN ks |-> GetTransaction(TxInputs[t][ks[k]])]
          /\ c.proofs = [k \in DOMAIN ks |-> GetMerkleProof(TxInputs[t][ks[k]])]
          /\ c.signers = [k \in DOMAIN ks |-> TxSigners[t][ks[k]]]
      BY DEF InFlightExitInfo, SignersOf, ks
    <2> HIDE DEF c
    <2> QED BY <1>3, <2>1
  <1> HIDE DEF c
  <1>5. Len(c.inputTxs) = n /\ Len(c.signers) = n /\ Len(c.positions) = n
    BY <1>1, <1>4
  <1>6. ASSUME NEW k \in DOMAIN c.positions
        PROVE  /\ SpendingCondition(c.inputTxs[k], c.positions[k], t, k, c.signers[k])
               /\ FirstOfEqual(c.positions[k]) => Included(c.inputTxs[k], c.positions[k], c.proofs[k])
    <2> DEFINE p == TxInputs[t][k]
    <2>1. k \in 1 .. n /\ k \in DOMAIN TxInputs[t] /\ k \in InputsOf(t)
      BY <1>1, <1>2, <1>4
    <2>2. c.positions[k] = p /\ c.inputTxs[k] = GetTransaction(p) /\ c.proofs[k] = GetMerkleProof(p)
          /\ c.signers[k] = TxSigners[t][k]
      BY <1>4, <2>1
    <2>3. p.blknum # 0 /\ HasTx(p)
      BY <2>1 DEF StartInFlightExit, IsNothing
    <2>4. Located(p) = p /\ p.txindex \in Nat
      BY <2>1, InputIsLocated
    <2>5. SpendingCondition(GetTransaction(p), p, t, k, TxSigners[t][k])
      BY <2>1, <2>3, ValidatedSpends
    <2>6. FirstOfEqual(p) => Included(GetTransaction(p), p, GetMerkleProof(p))
      <3> HIDE DEF p
      <3> QED BY <2>3, <2>4, OwnProofIsAccepted
    <2> QED BY <2>2, <2>5, <2>6
  <1> QED BY <1>5, <1>6

LEMMA CallFits ==
    ASSUME Stored, HaveSame, Call
    PROVE  ProofsAccepted' /\ InFlightInfoFits'
  <1>1. ASSUME NEW c, Calls(c), "proof" \notin DOMAIN c, c.kind # "startInFlightExit"
        PROVE  ProofsAccepted' /\ InFlightInfoFits'
    BY <1>1, AcceptedIsEnough, FitsIsEnough DEF Accepted, Fits
  <1>2. ASSUME NEW c, Calls(c), NEW p \in OutputPositions, c.kind # "startInFlightExit",
               c.pos = p, OfItsBlock(c) => c.proof = GetMerkleProof(p)
        PROVE  ProofsAccepted' /\ InFlightInfoFits'
    <2>1. HasTx(p) /\ Located(p) = p /\ p.txindex \in Nat
      BY OutputIsLocated
    <2>2. FirstOfEqual(p) => Included(GetTransaction(p), p, GetMerkleProof(p))
      BY <2>1, OwnProofIsAccepted
    <2>3. Accepted(c)
      BY <1>2, <2>2 DEF Accepted
    <2> QED BY <1>2, <2>3, AcceptedIsEnough, FitsIsEnough DEF Fits
  <1>10. TxPositions \subseteq OutputPositions
    BY PositionsFit
  <1>11. ASSUME NEW p \in OutputPositions, NEW t, NEW txs, StartStandardExitWithTxBody(p, t, txs),
                Leaves(txs) = Leaves(rootTxs[p.blknum]) => MembershipProof(txs, t) = GetMerkleProof(p)
         PROVE  ProofsAccepted' /\ InFlightInfoFits'
    <2> DEFINE c == [kind |-> "startStandardExit", pos |-> p, tx |-> t, tree |-> txs, proof |-> MembershipProof(txs, t)]
    <2>1. Calls(c) /\ c.kind = "startStandardExit" /\ c.pos = p /\ c.proof = MembershipProof(txs, t)
          /\ "tree" \in DOMAIN c /\ c.tree = txs
      BY <1>11 DEF StartStandardExitWithTxBody
    <2> HIDE DEF c
    <2>2. OfItsBlock(c) => c.proof = GetMerkleProof(p)
      BY <1>11, <2>1 DEF OfItsBlock
    <2> QED BY <1>2, <2>1, <2>2
  <1>3. ASSUME NEW p \in OutputPositions, StartStandardExit(p) PROVE ProofsAccepted' /\ InFlightInfoFits'
    <2>1. StartStandardExitWithTxBody(p, GetTransaction(p), blocks[p.blknum].transactions)
      BY <1>3 DEF StartStandardExit
    <2>2. MembershipProof(blocks[p.blknum].transactions, GetTransaction(p)) = GetMerkleProof(p)
      BY DEF GetMerkleProof
    <2> QED BY <1>11, <2>1, <2>2
  <1>12. ASSUME NEW p \in OutputPositions, NEW t, StartStandardExitAlone(p, t) PROVE ProofsAccepted' /\ InFlightInfoFits'
    <2>1. rootTxs[p.blknum] = blocks[p.blknum].transactions
      BY PositionsFit DEF HaveSame, HasTx
    <2> QED BY <1>11, <1>12, <2>1, AloneIsOwn DEF StartStandardExitAlone
  <1>4. ASSUME NEW p \in TxPositions, RespondToNonCanonicalChallenge(p) PROVE ProofsAccepted' /\ InFlightInfoFits'
    <2> DEFINE c == [kind |-> "respondToNonCanonicalChallenge", pos |-> p, tx |-> GetTransaction(p),
                     proof |-> GetMerkleProof(p)]
    <2>1. Calls(c) /\ c.kind = "respondToNonCanonicalChallenge" /\ c.pos = p /\ c.proof = GetMerkleProof(p)
      BY <1>4 DEF RespondToNonCanonicalChallenge
    <2> HIDE DEF c
    <2> QED BY <1>2, <1>10, <2>1
  <1>5. ASSUME NEW p, NEW q \in TxPositions, ChallengeStandardExit(p, q)
        PROVE  ProofsAccepted' /\ InFlightInfoFits'
    <2>1. PICK k : Calls([kind |-> "challengeStandardExit", shared |-> p, sharedTx |-> GetTransaction(p),
                          tx |-> GetTransaction(q), index |-> k, signer |-> TxSigners[GetTransaction(q)][k]])
      BY <1>5 DEF ChallengeStandardExit
    <2> DEFINE c == [kind |-> "challengeStandardExit", shared |-> p, sharedTx |-> GetTransaction(p),
                     tx |-> GetTransaction(q), index |-> k, signer |-> TxSigners[GetTransaction(q)][k]]
    <2>2. Calls(c) /\ "proof" \notin DOMAIN c /\ c.kind = "challengeStandardExit"
      BY <2>1
    <2> HIDE DEF c
    <2> QED BY <1>1, <2>2
  <1>13. ASSUME NEW p, NEW q, NEW k, NEW who, ChallengeStandardExitGiven(p, q, k, who)
         PROVE  ProofsAccepted' /\ InFlightInfoFits'
    <2> DEFINE c == [kind |-> "challengeStandardExit", shared |-> p, sharedTx |-> GetTransaction(p),
                     tx |-> GetTransaction(q), index |-> k, signer |-> who, given |-> TRUE]
    <2>1. Calls(c) /\ "proof" \notin DOMAIN c /\ c.kind = "challengeStandardExit"
      BY <1>13 DEF ChallengeStandardExitGiven
    <2> HIDE DEF c
    <2> QED BY <1>1, <2>1
  <1>6. ASSUME NEW p \in TxPositions, NEW q \in TxPositions, NEW k \in 0 .. 1, ChallengeInFlightExitOutputSpent(p, q, k)
        PROVE  ProofsAccepted' /\ InFlightInfoFits'
    <2> DEFINE s == GetTransaction(q)
               index == FindInputIndex(IdOf(p) + k, s)
               c == [kind |-> "challengeInFlightExitOutputSpent", pos |-> p, exiting |-> GetTransaction(p),
                     proof |-> GetMerkleProof(p), shared |-> Decode(IdOf(p) + k),
                     sharedTx |-> GetTransaction(p), tx |-> s, index |-> index, signer |-> TxSigners[s][index]]
    <2>1. Calls(c)
      BY <1>6 DEF ChallengeInFlightExitOutputSpent
    <2>2. c.kind = "challengeInFlightExitOutputSpent" /\ c.pos = p /\ c.proof = GetMerkleProof(p)
      OBVIOUS
    <2> HIDE DEF c
    <2> QED BY <1>2, <1>10, <2>1, <2>2
  <1>7. ASSUME NEW t \in Txs, NEW q \in TxPositions, ChallengeInFlightExitInputSpent(t, q)
        PROVE  ProofsAccepted' /\ InFlightInfoFits'
    <2> DEFINE c == SharedCall("challengeInFlightExitInputSpent", t, GetTransaction(q))
    <2>1. Calls(c)
      BY <1>7 DEF ChallengeInFlightExitInputSpent
    <2>2. "proof" \notin DOMAIN c /\ c.kind = "challengeInFlightExitInputSpent"
      BY DEF SharedCall
    <2> HIDE DEF c
    <2> QED BY <1>1, <2>1, <2>2
  <1>8. ASSUME NEW t \in Txs, NEW q \in TxPositions, ChallengeInFlightExitNotCanonical(t, q)
        PROVE  ProofsAccepted' /\ InFlightInfoFits'
    <2> DEFINE d == SharedCall("challengeInFlightExitNotCanonical", t, GetTransaction(q))
               c == WithProof(d, q)
    <2>1. Calls(c)
      BY <1>8 DEF ChallengeInFlightExitNotCanonical
    <2>2. "kind" \in DOMAIN d /\ d.kind = "challengeInFlightExitNotCanonical"
      BY DEF SharedCall
    <2> HIDE DEF d
    <2>3. c.kind = d.kind /\ c.pos = q /\ c.proof = GetMerkleProof(q)
      BY <2>2 DEF WithProof
    <2> HIDE DEF c
    <2> QED BY <1>2, <1>10, <2>1, <2>2, <2>3
  <1>9. ASSUME NEW t \in Txs, StartInFlightExit(t) PROVE ProofsAccepted' /\ InFlightInfoFits'
    <2> DEFINE c == InFlightExitInfo(t)
    <2>1. Calls(c) /\ Fits(c)
      BY <1>9, InfoFits DEF StartInFlightExit
    <2>2. "proof" \notin DOMAIN c
      BY DEF InFlightExitInfo
    <2> HIDE DEF c
    <2> QED BY <2>1, <2>2, AcceptedIsEnough, FitsIsEnough DEF Accepted
  <1> QED BY <1>3, <1>4, <1>5, <1>6, <1>7, <1>8, <1>9, <1>12, <1>13 DEF Call

FittingInv == NamingInv /\ ProofsAccepted /\ InFlightInfoFits

LEMMA NoCallHasNone == "proof" \notin DOMAIN NoCall /\ NoCall.kind = "none"
  BY DEF NoCall

\* A call comes from a state in which nothing goes on, and nothing changes while it is made.
LEMMA CallsAre ==
    ASSUME CallAlone, [Next]_vars
    PROVE  \/ call' = NoCall
           \/ Idle /\ Call
           \/ UNCHANGED <<childVars, rootVars, failed, forced, call>>
  <1>1. ASSUME NEW t \in DepositTxs, Deposit(t) PROVE call' = NoCall
    BY <1>1 DEF Deposit, Idle
  <1>2. ASSUME NEW txs \in TxLists, NEW forceInvalid \in BOOLEAN, SubmitBlock(txs, forceInvalid) PROVE call' = NoCall
    BY <1>2 DEF SubmitBlock, Idle
  <1>3. CASE AddBlockGoesOn
    <2>1. frames # <<>> /\ call' = call
      BY <1>3 DEF AddBlockGoesOn, AddWaiting, ReturnTrue
    <2> QED BY <2>1 DEF CallAlone
  <1>4. CASE AssertAdded
    BY <1>4 DEF AssertAdded, CallAlone
  <1>5. CASE Call
    BY <1>5 DEF Call
  <1>6. CASE CallReturns
    BY <1>6 DEF CallReturns
  <1>7. CASE UNCHANGED vars
    BY <1>7 DEF vars
  <1> QED BY <1>1, <1>2, <1>3, <1>4, <1>5, <1>6, <1>7 DEF Next

LEMMA FittingStep == FittingInv /\ [Next]_vars => FittingInv'
  <1> SUFFICES ASSUME FittingInv, [Next]_vars PROVE FittingInv'
    OBVIOUS
  <1>1. NamingInv' /\ Stored /\ StepInv /\ CallAlone
    BY NamingStep DEF FittingInv, NamingInv
  <1>2. CASE call' = NoCall
    <2>1. ProofsAccepted' /\ InFlightInfoFits'
      BY <1>2, NoCallHasNone DEF ProofsAccepted, InFlightInfoFits
    <2> QED BY <1>1, <2>1 DEF FittingInv
  <1>3. CASE Idle /\ Call
    <2>1. CASE failed
      <3>1. failed'
        BY <1>3, <2>1 DEF Call, Calls, StartStandardExit, RespondToNonCanonicalChallenge,
             StartStandardExitWithTxBody, StartStandardExitAlone, ChallengeStandardExit, ChallengeStandardExitGiven,
           ChallengeInFlightExitOutputSpent, StartInFlightExit,
             ChallengeInFlightExitNotCanonical, ChallengeInFlightExitInputSpent
      <3> QED BY <1>1, <3>1 DEF FittingInv, ProofsAccepted, InFlightInfoFits
    <2>2. CASE ~ failed
      <3>1. HaveSame
        BY <1>1, <1>3, <2>2 DEF StepInv, Idle, Refused, Level, HaveSame
      <3>2. ProofsAccepted' /\ InFlightInfoFits'
        BY <1>1, <1>3, <3>1, CallFits
      <3> QED BY <1>1, <3>2 DEF FittingInv
    <2> QED BY <2>1, <2>2
  <1>4. CASE UNCHANGED <<childVars, rootVars, failed, forced, call>>
    <2>1. UNCHANGED <<blocks, rootTxs, failed, forced, call>>
      BY <1>4 DEF childVars, rootVars
    <2>2. ProofsAccepted'
      BY <2>1 DEF FittingInv, ProofsAccepted, OfItsBlock, FirstOfEqual, Included, GetTransaction
    <2>3. InFlightInfoFits'
      BY <2>1 DEF FittingInv, InFlightInfoFits, FirstOfEqual, Included, SpendingCondition
    <2> QED BY <1>1, <2>2, <2>3 DEF FittingInv
  <1> QED BY <1>1, <1>2, <1>3, <1>4, CallsAre

LEMMA FittingInvHolds == Spec => []FittingInv
  <1>1. Init => FittingInv
    <2> SUFFICES ASSUME Init PROVE FittingInv
      OBVIOUS
    <2>1. NamingInv /\ call = NoCall
      BY NamingInit DEF Init
    <2> QED BY <2>1, NoCallHasNone DEF FittingInv, ProofsAccepted, InFlightInfoFits
  <1> QED BY <1>1, FittingStep, PTL DEF Spec

\* The Merkle proofs that the calls are given are accepted by the contracts at the positions the calls
\* name, in trees of any depth and blocks of any size, as long as no block was refused; a transaction
\* with an equal one before it in its block is the one exception.
THEOREM ChainProofsAreAccepted == Spec => []ProofsAccepted
  <1>1. FittingInv => ProofsAccepted
    BY DEF FittingInv
  <1> QED BY <1>1, FittingInvHolds, PTL

\* An in-flight exit of a validated transaction is started with a transaction, a proof and the owner's
\* signature for each of its inputs, in their order, for any number of inputs.
THEOREM InFlightInfoIsRight == Spec => []InFlightInfoFits
  <1>1. FittingInv => InFlightInfoFits
    BY DEF FittingInv
  <1> QED BY <1>1, FittingInvHolds, PTL
====
