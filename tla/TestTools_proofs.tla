---- MODULE TestTools_proofs ----
(***************************************************************************)
(* The tools of the Python tests.  A proof that the Python tree makes is   *)
(* accepted by both checkers, and none is for what is no leaf, for trees   *)
(* of any depth and any leaves; a signature is valid for the contract it   *)
(* was asked for only; time moves on, past the period asked for; and what  *)
(* is read off the bits of an exit is what was piggybacked.                *)
(***************************************************************************)
EXTENDS FixedMerkle, Eip712Signing, TestClock, InFlightExitView, ArithmeticLemmas

\* The tree is built as far as it goes: each node is the hash of the two below it.
Built ==
    /\ \E n \in 0 .. Depth : DOMAIN tree = 0 .. n /\ (n = Depth <=> op # "build")
    /\ \A i \in DOMAIN tree : DOMAIN tree[i] = Indexes(i)
    /\ \A i \in DOMAIN tree : i > 0 =>
         \A j \in Indexes(i) : tree[i][j] = HashNode(tree[i - 1][2 * j], tree[i - 1][(2 * j) + 1])

\* The indexes on the way up from the leaf, with what the proof has beside each.
WayUp(path, n) ==
    /\ path \in [0 .. n -> Nat]
    /\ path[0] = index /\ \A k \in 0 .. n : path[k] \in Indexes(k)
    /\ \A k \in 0 .. n - 1 : path[k + 1] = path[k] \div 2 /\ proof[k + 1] = tree[k][Sibling(path[k])]

ProofGoesUp ==
    op \in {"prove", "proved"} =>
        /\ proof \in Seq(Segments) /\ Len(proof) \in 0 .. Depth
        /\ op = "proved" <=> Len(proof) = Depth
        /\ \E path : WayUp(path, Len(proof)) /\ at = path[Len(proof)]
        /\ tree[0][index] = HashLeaf(leaf)

CheckGoesUp ==
    op = "check" /\ own =>
        /\ Len(proof) = Depth /\ steps \in 0 .. Depth
        /\ \E path : WayUp(path, Depth) /\ at = path[steps]
        /\ computed = tree[steps][at]

MerkleInv == Built /\ ProofGoesUp /\ CheckGoesUp /\ OwnProofsAccepted

----------------------------------------------------------------------------

LEMMA Levels ==
    /\ Depth \in Nat \ {0} /\ \A i \in 0 .. Depth : LevelSize[i] \in Nat
    /\ Indexes(Depth) = {0}
    /\ \A i \in 0 .. Depth - 1 : LevelSize[i] = 2 * LevelSize[i + 1]
  BY DepthAssumption DEF Indexes

\* Both children of a node are there, and the parent of each is it.
LEMMA Children ==
    ASSUME NEW i \in 0 .. Depth - 1
    PROVE  /\ \A j \in Indexes(i + 1) : 2 * j \in Indexes(i) /\ (2 * j) + 1 \in Indexes(i)
           /\ \A j \in Indexes(i) :
                /\ j \in Nat /\ j \div 2 \in Indexes(i + 1) /\ Sibling(j) \in Indexes(i)
                /\ IF j % 2 = 0 THEN 2 * (j \div 2) = j /\ (2 * (j \div 2)) + 1 = Sibling(j)
                   ELSE 2 * (j \div 2) = Sibling(j) /\ (2 * (j \div 2)) + 1 = j
  <1>1. i \in 0 .. Depth /\ i + 1 \in 0 .. Depth /\ LevelSize[i] \in Nat /\ LevelSize[i + 1] \in Nat
        /\ LevelSize[i] = 2 * LevelSize[i + 1]
    BY Levels
  <1> QED BY <1>1 DEF Indexes, Sibling

LEMMA TopIs ==
    ASSUME NEW n \in Nat, n <= Depth, DOMAIN tree = 0 .. n
    PROVE  Top = n
  <1>1. \A i \in 0 .. Depth : 0 .. i = 0 .. n => i = n
    BY Levels
  <1>2. n \in 0 .. Depth
    BY Levels
  <1> QED BY <1>1, <1>2 DEF Top

LEMMA ReadyTree ==
    ASSUME Built, op # "build"
    PROVE  /\ DOMAIN tree = 0 .. Depth
           /\ \A i \in 0 .. Depth : DOMAIN tree[i] = Indexes(i)
           /\ \A i \in 0 .. Depth : \A j \in Indexes(i) : tree[i][j] \in Segments
           /\ \A i \in 0 .. Depth - 1 : \A j \in Indexes(i + 1) :
                tree[i + 1][j] = HashNode(tree[i][2 * j], tree[i][(2 * j) + 1])
  <1>1. DOMAIN tree = 0 .. Depth
    BY DEF Built
  <1>2. \A i \in 0 .. Depth : \A j \in Indexes(i) : tree[i][j] \in Segments
    BY <1>1 DEF Segments
  <1>3. ASSUME NEW i \in 0 .. Depth - 1, NEW j \in Indexes(i + 1)
        PROVE  tree[i + 1][j] = HashNode(tree[i][2 * j], tree[i][(2 * j) + 1])
    <2>1. i + 1 \in 0 .. Depth /\ i + 1 > 0 /\ (i + 1) - 1 = i
      BY Levels
    <2> QED BY <1>1, <2>1 DEF Built
  <1> QED BY <1>1, <1>2, <1>3 DEF Built

\* The first of equal leaves.
LEMMA FirstIndexIs ==
    ASSUME NEW h, NEW j \in Indexes(0), tree[0][j] = h
    PROVE  FirstIndex(h) \in Indexes(0) /\ tree[0][FirstIndex(h)] = h
  <1> DEFINE places == {k \in Indexes(0) : tree[0][k] = h}
  <1>1. places \subseteq Nat /\ j \in places
    BY DEF Indexes
  <1>2. PICK k \in places : \A l \in places : ~ (<<l, k>> \in OpToRel(<, Nat))
    BY <1>1, NatLessThanWellFounded, WFMin
  <1>3. \A l \in places : k <= l
    <2> SUFFICES ASSUME NEW l \in places, l < k PROVE FALSE
      BY <1>1
    <2>1. <<l, k>> \in OpToRel(<, Nat)
      BY <1>1 DEF OpToRel
    <2> QED BY <1>2, <2>1
  <1> QED BY <1>3 DEF FirstIndex

----------------------------------------------------------------------------

LEMMA CreateTreeKeepsInv ==
    ASSUME MerkleInv, CreateTree
    PROVE  MerkleInv'
  <1>1. PICK n \in 0 .. Depth : DOMAIN tree = 0 .. n /\ n # Depth
    BY DEF MerkleInv, Built, CreateTree
  <1>2. n \in 0 .. Depth - 1 /\ n \in Nat /\ n + 1 \in 0 .. Depth /\ Top = n
    BY <1>1, Levels, TopIs
  <1>3. /\ tree' = [i \in 0 .. n + 1 |->
                      IF i <= n THEN tree[i]
                      ELSE [j \in Indexes(i) |-> HashNode(tree[n][2 * j], tree[n][(2 * j) + 1])]]
        /\ op' = IF n + 1 = Depth THEN "ready" ELSE "build"
    BY <1>2 DEF CreateTree
  <1>4. /\ DOMAIN tree' = 0 .. n + 1
        /\ \A i \in 0 .. n : tree'[i] = tree[i]
        /\ tree'[n + 1] = [j \in Indexes(n + 1) |-> HashNode(tree[n][2 * j], tree[n][(2 * j) + 1])]
    BY <1>2, <1>3
  <1>5. \A i \in 0 .. n + 1 : DOMAIN tree'[i] = Indexes(i)
    BY <1>1, <1>2, <1>4 DEF MerkleInv, Built
  <1>6. ASSUME NEW i \in 0 .. n + 1, i > 0, NEW j \in Indexes(i)
        PROVE  tree'[i][j] = HashNode(tree'[i - 1][2 * j], tree'[i - 1][(2 * j) + 1])
    <2>1. CASE i = n + 1
      BY <1>2, <1>4, <2>1
    <2>2. CASE i # n + 1
      <3>1. i \in 0 .. n /\ i - 1 \in 0 .. n
        BY <1>2, <1>6, <2>2
      <3> QED BY <1>1, <1>4, <1>6, <3>1 DEF MerkleInv, Built
    <2> QED BY <2>1, <2>2
  <1>7. Built'
    BY <1>2, <1>3, <1>4, <1>5, <1>6 DEF Built, Indexes
  <1>8. ProofGoesUp' /\ CheckGoesUp' /\ OwnProofsAccepted'
    BY <1>3 DEF ProofGoesUp, CheckGoesUp, OwnProofsAccepted
  <1> QED BY <1>7, <1>8 DEF MerkleInv

\* The tree stays, once it is built.
LEMMA BuiltStays ==
    ASSUME Built, op # "build", tree' = tree, op' # "build"
    PROVE  Built'
  BY DEF Built, Indexes

LEMMA CreateMembershipProofKeepsInv ==
    ASSUME MerkleInv, NEW d \in LeafData, CreateMembershipProof(d)
    PROVE  MerkleInv'
  <1>1. /\ op # "build" /\ op' = "prove" /\ tree' = tree
        /\ leaf' = d /\ index' = FirstIndex(HashLeaf(d)) /\ at' = index' /\ proof' = <<>>
    BY DEF CreateMembershipProof, Idle
  <1>2. index' \in Indexes(0) /\ tree[0][index'] = HashLeaf(d)
    BY <1>1, FirstIndexIs DEF CreateMembershipProof, IsMember
  <1>3. ProofGoesUp'
    <2>1. proof' \in Seq(Segments') /\ Len(proof') = 0 /\ 0 \in 0 .. Depth /\ 0 # Depth
      BY <1>1, Levels
    <2> DEFINE path == [k \in 0 .. 0 |-> index']
    <2>2. path \in [0 .. 0 -> Nat] /\ path[0] = index' /\ \A k \in 0 .. 0 : path[k] \in Indexes(k)
      BY <1>2 DEF Indexes
    <2>3. \E p : /\ p \in [0 .. Len(proof') -> Nat]
                 /\ p[0] = index' /\ \A k \in 0 .. Len(proof') : p[k] \in Indexes(k)
                 /\ \A k \in 0 .. Len(proof') - 1 : p[k + 1] = p[k] \div 2 /\ proof'[k + 1] = tree'[k][Sibling(p[k])]
                 /\ at' = p[Len(proof')]
      <3> HIDE DEF path
      <3> QED BY <1>1, <2>1, <2>2
    <2> QED BY <1>1, <1>2, <2>1, <2>3 DEF ProofGoesUp, WayUp, Indexes
  <1> QED BY <1>1, <1>3, BuiltStays DEF MerkleInv, CheckGoesUp, OwnProofsAccepted

LEMMA AddSegmentKeepsInv ==
    ASSUME MerkleInv, AddSegment
    PROVE  MerkleInv'
  <1> DEFINE n == Len(proof)
             seg == tree[n][Sibling(at)]
  <1>1. /\ op = "prove" /\ tree' = tree /\ proof' = Append(proof, seg) /\ at' = at \div 2
        /\ op' = IF Len(proof') = Depth THEN "proved" ELSE "prove"
        /\ leaf' = leaf /\ index' = index
    BY DEF AddSegment
  <1>2. /\ proof \in Seq(Segments) /\ n \in 0 .. Depth - 1 /\ n \in Nat /\ tree[0][index] = HashLeaf(leaf)
        /\ \E path : WayUp(path, n) /\ at = path[n]
    <2>1. proof \in Seq(Segments) /\ n \in 0 .. Depth /\ n # Depth /\ tree[0][index] = HashLeaf(leaf)
        /\ \E path : WayUp(path, n) /\ at = path[n]
      BY <1>1 DEF MerkleInv, ProofGoesUp
    <2> QED BY <2>1, Levels
  <1>3. PICK path : WayUp(path, n) /\ at = path[n]
    BY <1>2
  <1>4. at \in Indexes(n) /\ n \in 0 .. Depth /\ n + 1 \in 0 .. Depth
    BY <1>2, <1>3, Levels DEF WayUp
  <1>5. Sibling(at) \in Indexes(n) /\ at \div 2 \in Indexes(n + 1) /\ at \div 2 \in Nat
    <2>1. Sibling(at) \in Indexes(n) /\ at \div 2 \in Indexes(n + 1)
      BY <1>2, <1>4, Children
    <2> QED BY <2>1 DEF Indexes
  <1>6. seg \in Segments
    BY <1>1, <1>4, <1>5, ReadyTree DEF MerkleInv
  <1>7. /\ proof' \in Seq(Segments) /\ Len(proof') = n + 1 /\ proof'[n + 1] = seg
        /\ \A k \in 1 .. n : proof'[k] = proof[k]
    <2> HIDE DEF seg
    <2> QED BY <1>1, <1>2, <1>6
  <1> DEFINE longer == [k \in 0 .. n + 1 |-> IF k = n + 1 THEN at \div 2 ELSE path[k]]
  <1>8. /\ longer \in [0 .. n + 1 -> Nat] /\ longer[0] = index
        /\ longer[n + 1] = at \div 2 /\ \A k \in 0 .. n : longer[k] = path[k]
    BY <1>2, <1>3, <1>5 DEF WayUp
  <1> HIDE DEF longer
  <1>9. \A k \in 0 .. n + 1 : longer[k] \in Indexes(k)
    BY <1>2, <1>3, <1>5, <1>8 DEF WayUp
  <1>10. \A k \in 0 .. n : longer[k + 1] = longer[k] \div 2 /\ proof'[k + 1] = tree[k][Sibling(longer[k])]
    <2> SUFFICES ASSUME NEW k \in 0 .. n
                 PROVE  longer[k + 1] = longer[k] \div 2 /\ proof'[k + 1] = tree[k][Sibling(longer[k])]
      OBVIOUS
    <2>1. CASE k = n
      BY <1>2, <1>3, <1>7, <1>8, <2>1
    <2>2. CASE k # n
      <3>1. k \in 0 .. n - 1 /\ k + 1 \in 0 .. n /\ k + 1 \in 1 .. n
        BY <1>2, <2>2
      <3> QED BY <1>3, <1>7, <1>8, <3>1 DEF WayUp
    <2> QED BY <2>1, <2>2
  <1>11. \E p : /\ p \in [0 .. Len(proof') -> Nat]
                /\ p[0] = index' /\ \A k \in 0 .. Len(proof') : p[k] \in Indexes(k)
                /\ \A k \in 0 .. Len(proof') - 1 : p[k + 1] = p[k] \div 2 /\ proof'[k + 1] = tree'[k][Sibling(p[k])]
                /\ at' = p[Len(proof')]
    <2>1. Len(proof') - 1 = n
      BY <1>2, <1>7
    <2> QED BY <1>1, <1>7, <1>8, <1>9, <1>10, <2>1
  <1>12. proof' \in Seq(Segments')
    BY <1>1, <1>7 DEF Segments, Indexes
  <1>13. ProofGoesUp'
    BY <1>1, <1>2, <1>4, <1>7, <1>11, <1>12 DEF ProofGoesUp, WayUp, HashLeaf, Indexes
  <1>14. CheckGoesUp' /\ OwnProofsAccepted' /\ Built'
    BY <1>1, BuiltStays DEF MerkleInv, CheckGoesUp, OwnProofsAccepted
  <1> QED BY <1>13, <1>14 DEF MerkleInv

LEMMA CheckOwnKeepsInv ==
    ASSUME MerkleInv, NEW who, CheckOwn(who)
    PROVE  MerkleInv'
  <1>1. /\ op = "proved" /\ op' = "check" /\ tree' = tree /\ proof' = proof /\ leaf' = leaf /\ index' = index
        /\ at' = index /\ steps' = 0 /\ computed' = HashLeaf(leaf) /\ own' = TRUE
    BY DEF CheckOwn, StartCheck
  <1>2. Len(proof) = Depth /\ tree[0][index] = HashLeaf(leaf) /\ \E path : WayUp(path, Depth)
    BY <1>1 DEF MerkleInv, ProofGoesUp
  <1>3. PICK path : WayUp(path, Depth)
    BY <1>2
  <1>4. WayUp(path, Depth)' /\ path[0] = index
    BY <1>1, <1>3 DEF WayUp, Indexes
  <1>5. CheckGoesUp'
    BY <1>1, <1>2, <1>4, Levels DEF CheckGoesUp
  <1> QED BY <1>1, <1>5, BuiltStays DEF MerkleInv, ProofGoesUp, OwnProofsAccepted

LEMMA ClimbKeepsInv ==
    ASSUME MerkleInv, Climb
    PROVE  MerkleInv'
  <1>1. /\ op = "check" /\ op' = "check" /\ tree' = tree /\ proof' = proof /\ index' = index /\ own' = own
        /\ steps < Len(proof) /\ steps' = steps + 1 /\ at' = at \div 2
        /\ computed' = IF at % 2 = 0 THEN HashNode(computed, proof[steps + 1])
                       ELSE HashNode(proof[steps + 1], computed)
    BY DEF Climb
  <1>2. ASSUME own PROVE CheckGoesUp'
    <2>1. Len(proof) = Depth /\ steps \in 0 .. Depth - 1 /\ computed = tree[steps][at]
      BY <1>1, <1>2, Levels DEF MerkleInv, CheckGoesUp
    <2>2. PICK path : WayUp(path, Depth) /\ at = path[steps]
      BY <1>1, <1>2 DEF MerkleInv, CheckGoesUp
    <2>3. at \in Indexes(steps) /\ path[steps + 1] = at \div 2 /\ proof[steps + 1] = tree[steps][Sibling(at)]
      BY <2>1, <2>2, Levels DEF WayUp
    <2>4. /\ at \div 2 \in Indexes(steps + 1)
          /\ IF at % 2 = 0 THEN 2 * (at \div 2) = at /\ (2 * (at \div 2)) + 1 = Sibling(at)
             ELSE 2 * (at \div 2) = Sibling(at) /\ (2 * (at \div 2)) + 1 = at
      BY <2>1, <2>3, Children
    <2>5. tree[steps + 1][at \div 2] =
            HashNode(tree[steps][2 * (at \div 2)], tree[steps][(2 * (at \div 2)) + 1])
      BY <1>1, <2>1, <2>4, ReadyTree DEF MerkleInv
    <2>6. computed' = tree[steps + 1][at \div 2]
      BY <1>1, <2>1, <2>3, <2>4, <2>5
    <2>7. WayUp(path, Depth)'
      BY <1>1, <2>2 DEF WayUp, Indexes
    <2>8. steps + 1 \in 0 .. Depth
      BY <2>1, Levels
    <2> QED BY <1>1, <2>1, <2>3, <2>6, <2>7, <2>8 DEF CheckGoesUp
  <1>3. CheckGoesUp'
    BY <1>1, <1>2 DEF CheckGoesUp
  <1> QED BY <1>1, <1>3, BuiltStays DEF MerkleInv, ProofGoesUp, OwnProofsAccepted

LEMMA DecideKeepsInv ==
    ASSUME MerkleInv, Decide
    PROVE  MerkleInv'
  <1>1. /\ op = "check" /\ op' = "done" /\ tree' = tree /\ own' = own /\ steps = Len(proof)
        /\ verdict' = IF computed = Root /\ (checker = "contract" => at = 0) THEN "accepted" ELSE "rejected"
    BY DEF Decide
  <1>2. ASSUME own PROVE verdict' = "accepted"
    <2>1. steps = Depth /\ computed = tree[Depth][at] /\ \E path : WayUp(path, Depth) /\ at = path[Depth]
      BY <1>1, <1>2 DEF MerkleInv, CheckGoesUp
    <2>2. at \in Indexes(Depth)
      BY <2>1, Levels DEF WayUp
    <2>3. at = 0
      BY <2>2, Levels
    <2> QED BY <1>1, <2>1, <2>3 DEF Root
  <1> QED BY <1>1, <1>2, BuiltStays DEF MerkleInv, ProofGoesUp, CheckGoesUp, OwnProofsAccepted

LEMMA OtherStepsKeepInv ==
    ASSUME MerkleInv,
           \/ UNCHANGED merkleVars
           \/ \E who, d, k, n : CheckMembership(who, d, k, n)
    PROVE  MerkleInv'
  <1>1. CASE UNCHANGED merkleVars
    <2>1. Built' /\ OwnProofsAccepted'
      BY <1>1 DEF merkleVars, MerkleInv, Built, Indexes, OwnProofsAccepted
    <2>2. ProofGoesUp' /\ CheckGoesUp'
      BY <1>1 DEF merkleVars, MerkleInv, ProofGoesUp, CheckGoesUp, WayUp, Indexes, Segments
    <2> QED BY <2>1, <2>2 DEF MerkleInv
  <1>2. CASE \E who, d, k, n : CheckMembership(who, d, k, n)
    <2>1. op = "ready" /\ op' = "check" /\ tree' = tree /\ own' = FALSE
      BY <1>2 DEF CheckMembership, StartCheck
    <2> QED BY <2>1, BuiltStays DEF MerkleInv, ProofGoesUp, CheckGoesUp, OwnProofsAccepted
  <1> QED BY <1>1, <1>2

LEMMA MerkleInvInit == MerkleInit => MerkleInv
  <1> SUFFICES ASSUME MerkleInit PROVE MerkleInv
    OBVIOUS
  <1>1. DOMAIN tree = 0 .. 0 /\ DOMAIN tree[0] = Indexes(0) /\ op = "build"
    BY DEF MerkleInit
  <1>2. Built
    BY <1>1, Levels DEF Built
  <1> QED BY <1>1, <1>2 DEF MerkleInv, ProofGoesUp, CheckGoesUp, OwnProofsAccepted

LEMMA MerkleInvStep == MerkleInv /\ [MerkleNext]_merkleVars => MerkleInv'
  <1> SUFFICES ASSUME MerkleInv, [MerkleNext]_merkleVars PROVE MerkleInv'
    OBVIOUS
  <1> QED BY CreateTreeKeepsInv, CreateMembershipProofKeepsInv, AddSegmentKeepsInv, CheckOwnKeepsInv,
             ClimbKeepsInv, DecideKeepsInv, OtherStepsKeepInv DEF MerkleNext

\* What the Python tree makes as a proof, the contracts accept, for any depth and any leaves.
THEOREM OwnProofsAreAccepted == MerkleSpec => []OwnProofsAccepted
  <1>1. MerkleInv => OwnProofsAccepted
    BY DEF MerkleInv
  <1> QED BY <1>1, MerkleInvInit, MerkleInvStep, PTL DEF MerkleSpec

----------------------------------------------------------------------------
\* What is no leaf is not accepted.

\* The leaves below a node that is so many levels up.
Below(k) == LevelSize[Depth - k]

\* Where the leaf is if the path has come to the node j: the index without what is left of it.
PlaceBelow(j) == (j * Below(steps)) + (index - (at * Below(steps)))

\* What is climbed is no node of the tree, unless it is one as many levels up as were climbed, with
\* the leaf where the path has come from.
CheckIsSound ==
    op = "check" =>
        /\ steps \in Nat /\ at \in Nat /\ index \in Nat
        /\ steps <= Depth => index - (at * Below(steps)) \in 0 .. Below(steps) - 1
        /\ \A m \in 0 .. Depth : \A j \in Indexes(m) :
             computed = tree[m][j] => m = steps /\ tree[0][PlaceBelow(j)] = HashLeaf(leaf)

LeavesAreSalted == \A j \in Indexes(0) : \E d : tree[0][j] = HashLeaf(d)

SoundInv == MerkleInv /\ LeavesAreSalted /\ CheckIsSound /\ OnlyLeavesAccepted

LEMMA SaltsDiffer ==
    /\ \A d, e : HashLeaf(d) = HashLeaf(e) => d = e
    /\ \A d, a, b : HashLeaf(d) # HashNode(a, b)
    /\ \A a, b, c, d : HashNode(a, b) = HashNode(c, d) => a = c /\ b = d
  <1>1. \A d, e : HashLeaf(d) = HashLeaf(e) => d = e
    BY DEF HashLeaf
  <1>2. \A d, a, b : HashLeaf(d).salt = 0 /\ HashNode(a, b).salt = 1
    BY DEF HashLeaf, HashNode
  <1>3. \A a, b : HashNode(a, b).data = <<a, b>>
    BY DEF HashNode
  <1>4. \A a, b, c, d : HashNode(a, b) = HashNode(c, d) => a = c /\ b = d
    <2> SUFFICES ASSUME NEW a, NEW b, NEW c, NEW d, HashNode(a, b) = HashNode(c, d)
                 PROVE  a = c /\ b = d
      OBVIOUS
    <2>1. <<a, b>> = <<c, d>>
      BY <1>3
    <2> QED BY <2>1
  <1> QED BY <1>1, <1>2, <1>4

LEMMA BelowDoubles ==
    /\ Below(0) = 1 /\ Below(Depth) = LevelSize[0]
    /\ \A k \in 0 .. Depth : Below(k) \in Nat
    /\ \A k \in 0 .. Depth - 1 : Below(k + 1) = 2 * Below(k)
  <1>1. \A k \in 0 .. Depth : Depth - k \in 0 .. Depth
    BY Levels
  <1>2. \A k \in 0 .. Depth - 1 : Depth - (k + 1) \in 0 .. Depth - 1 /\ (Depth - (k + 1)) + 1 = Depth - k
    BY Levels
  <1>3. Depth - 0 = Depth /\ Depth - Depth = 0 /\ Depth \in 0 .. Depth /\ 0 \in 0 .. Depth
    BY Levels
  <1>4. LevelSize[Depth] = 1
    BY DepthAssumption
  <1> QED BY <1>1, <1>2, <1>3, <1>4, Levels DEF Below

LEMMA NodesAreSalted ==
    ASSUME Built, LeavesAreSalted, op # "build", NEW m \in 0 .. Depth, NEW j \in Indexes(m)
    PROVE  IF m = 0 THEN \E d : tree[m][j] = HashLeaf(d)
           ELSE /\ m - 1 \in 0 .. Depth - 1 /\ 2 * j \in Indexes(m - 1) /\ (2 * j) + 1 \in Indexes(m - 1)
                /\ tree[m][j] = HashNode(tree[m - 1][2 * j], tree[m - 1][(2 * j) + 1])
  <1>1. CASE m = 0
    BY <1>1 DEF LeavesAreSalted
  <1>2. CASE m # 0
    <2>1. m - 1 \in 0 .. Depth - 1 /\ (m - 1) + 1 = m
      BY <1>2, Levels
    <2>2. 2 * j \in Indexes(m - 1) /\ (2 * j) + 1 \in Indexes(m - 1)
      BY <2>1, Children
    <2>3. tree[m][j] = HashNode(tree[m - 1][2 * j], tree[m - 1][(2 * j) + 1])
      BY <2>1, ReadyTree
    <2> QED BY <1>2, <2>1, <2>2, <2>3
  <1> QED BY <1>1, <1>2

LEMMA StartIsSound ==
    ASSUME Built, LeavesAreSalted, op # "build", NEW who, NEW d, NEW k \in Nat, NEW p, StartCheck(who, d, k, p)
    PROVE  CheckIsSound' /\ OnlyLeavesAccepted'
  <1>1. /\ tree' = tree /\ leaf' = d /\ index' = k /\ at' = k /\ steps' = 0 /\ computed' = HashLeaf(d)
        /\ verdict' = "none"
    BY DEF StartCheck
  <1>2. ASSUME NEW m \in 0 .. Depth, NEW j \in Indexes(m), HashLeaf(d) = tree[m][j]
        PROVE  m = 0
    BY <1>2, NodesAreSalted, SaltsDiffer
  <1>3. ASSUME NEW j \in Indexes(0)
        PROVE  PlaceBelow(j)' = j
    <2>1. j \in Nat
      BY <1>3 DEF Indexes
    <2>2. PlaceBelow(j)' = (j * Below(0)) + (k - (k * Below(0)))
      BY <1>1 DEF PlaceBelow, Below
    <2> QED BY <2>1, <2>2, BelowDoubles
  <1>4. (index - (at * Below(steps)))' \in 0 .. Below(steps)' - 1
    <2>1. (index - (at * Below(steps)))' = k - (k * Below(0)) /\ Below(steps)' = Below(0)
      BY <1>1 DEF Below
    <2> QED BY <2>1, BelowDoubles
  <1>5. \A m \in 0 .. Depth : \A j \in Indexes(m) :
          computed' = tree'[m][j] => m = steps' /\ tree'[0][PlaceBelow(j)'] = HashLeaf(leaf')
    BY <1>1, <1>2, <1>3
  <1>6. CheckIsSound'
    BY <1>1, <1>4, <1>5 DEF CheckIsSound, Indexes
  <1> QED BY <1>1, <1>6 DEF OnlyLeavesAccepted

LEMMA ClimbIsSound ==
    ASSUME Built, LeavesAreSalted, CheckIsSound, OnlyLeavesAccepted, Climb
    PROVE  CheckIsSound' /\ OnlyLeavesAccepted'
  <1>1. /\ op = "check" /\ op' = "check" /\ tree' = tree /\ index' = index /\ leaf' = leaf
        /\ checker' = checker /\ verdict' = verdict
        /\ steps' = steps + 1 /\ at' = at \div 2
        /\ computed' = IF at % 2 = 0 THEN HashNode(computed, proof[steps + 1])
                       ELSE HashNode(proof[steps + 1], computed)
    BY DEF Climb
  <1>2. steps \in Nat /\ at \in Nat /\ index \in Nat
    BY <1>1 DEF CheckIsSound
  <1> DEFINE w == Below(steps)
             half == at \div 2
  <1>3. half \in Nat /\ at = IF at % 2 = 0 THEN 2 * half ELSE (2 * half) + 1
    BY <1>2
  <1>4. ASSUME steps + 1 <= Depth
        PROVE  w \in Nat /\ Below(steps + 1) = 2 * w /\ index - (at * w) \in 0 .. w - 1
    <2>1. steps \in 0 .. Depth /\ steps \in 0 .. Depth - 1 /\ steps <= Depth
      BY <1>2, <1>4, Levels
    <2> QED BY <1>1, <2>1, BelowDoubles DEF CheckIsSound
  <1>5. ASSUME steps + 1 <= Depth
        PROVE  index - (half * (2 * w)) \in 0 .. (2 * w) - 1
    <2>1. w \in Nat /\ index - (at * w) \in 0 .. w - 1
      BY <1>4, <1>5
    <2> HIDE DEF w, half
    <2>2. CASE at = 2 * half
      <3>1. at * w = half * (2 * w)
        BY <1>3, <2>1, <2>2
      <3> QED BY <1>2, <2>1, <3>1
    <2>3. CASE at = (2 * half) + 1
      <3>1. at * w = (half * (2 * w)) + w
        BY <1>3, <2>1, <2>3
      <3>2. half * (2 * w) \in Int
        BY <1>3, <2>1
      <3> DEFINE hw == half * (2 * w)
      <3> HIDE DEF hw
      <3>3. hw \in Int /\ index - (hw + w) \in 0 .. w - 1
        BY <2>1, <3>1, <3>2 DEF hw
      <3>4. index - hw \in 0 .. (2 * w) - 1
        BY <1>2, <2>1, <3>3
      <3> QED BY <3>4 DEF hw
    <2> QED BY <1>3, <2>2, <2>3
  <1>6. ASSUME NEW m \in 0 .. Depth, NEW j \in Indexes(m), computed' = tree[m][j]
        PROVE  m = steps + 1 /\ tree[0][PlaceBelow(j)'] = HashLeaf(leaf)
    <2>1. /\ m - 1 \in 0 .. Depth - 1 /\ 2 * j \in Indexes(m - 1) /\ (2 * j) + 1 \in Indexes(m - 1)
          /\ tree[m][j] = HashNode(tree[m - 1][2 * j], tree[m - 1][(2 * j) + 1])
      <3>1. \A d : tree[m][j] # HashLeaf(d)
        BY <1>1, <1>6, SaltsDiffer
      <3> QED BY <1>1, <3>1, NodesAreSalted
    <2> DEFINE child == IF at % 2 = 0 THEN 2 * j ELSE (2 * j) + 1
    <2>2. computed = tree[m - 1][child] /\ child \in Indexes(m - 1)
      BY <1>1, <1>6, <2>1, SaltsDiffer
    <2>3. m - 1 \in 0 .. Depth /\ j \in Nat
      BY <2>1, Levels DEF Indexes
    <2>4. m - 1 = steps /\ tree[0][PlaceBelow(child)] = HashLeaf(leaf)
      BY <1>1, <2>2, <2>3 DEF CheckIsSound
    <2>5. m = steps + 1 /\ steps + 1 <= Depth
      BY <2>4
    <2>6. w \in Nat /\ Below(steps + 1) = 2 * w
      BY <1>4, <2>5
    <2>7. PlaceBelow(j)' = (j * (2 * w)) + (index - (half * (2 * w)))
      BY <1>1, <2>6 DEF PlaceBelow, Below
    <2>8. PlaceBelow(child) = (child * w) + (index - (at * w))
      BY DEF PlaceBelow
    <2>9. (child * w) + (index - (at * w)) = (j * (2 * w)) + (index - (half * (2 * w)))
      <3> HIDE DEF w, half
      <3>1. CASE at % 2 = 0
        BY <1>2, <1>3, <2>3, <2>6, <3>1
      <3>2. CASE at % 2 # 0
        <4>1. child * w = (j * (2 * w)) + w /\ at * w = (half * (2 * w)) + w
          BY <1>2, <1>3, <2>3, <2>6, <3>2
        <4> DEFINE jw == j * (2 * w)
                   hw == half * (2 * w)
        <4>2. jw \in Int /\ hw \in Int
          BY <1>3, <2>3, <2>6
        <4> HIDE DEF jw, hw
        <4>3. (jw + w) + (index - (hw + w)) = jw + (index - hw)
          BY <1>2, <2>6, <4>2
        <4> QED BY <4>1, <4>3 DEF jw, hw
      <3> QED BY <3>1, <3>2
    <2> QED BY <2>4, <2>5, <2>7, <2>8, <2>9
  <1>7. steps' <= Depth => (index - (at * Below(steps)))' \in 0 .. Below(steps)' - 1
    BY <1>1, <1>4, <1>5 DEF Below
  <1>8. CheckIsSound'
    BY <1>1, <1>2, <1>3, <1>6, <1>7 DEF CheckIsSound, Indexes
  <1> QED BY <1>1, <1>8 DEF OnlyLeavesAccepted, Indexes

LEMMA DecideIsSound ==
    ASSUME MerkleInv, CheckIsSound, Decide
    PROVE  CheckIsSound' /\ OnlyLeavesAccepted'
  <1>1. /\ op = "check" /\ op' = "done" /\ tree' = tree /\ index' = index /\ leaf' = leaf /\ checker' = checker
        /\ verdict' = IF computed = Root /\ (checker = "contract" => at = 0) THEN "accepted" ELSE "rejected"
    BY DEF Decide
  <1>2. ASSUME verdict' = "accepted"
        PROVE  LET place == IF checker = "contract" THEN index ELSE index % LevelSize[0]
               IN  place \in Indexes(0) /\ tree[0][place] = HashLeaf(leaf)
    <2>1. computed = tree[Depth][0] /\ (checker = "contract" => at = 0)
      BY <1>1, <1>2 DEF Root
    <2>2. Depth \in 0 .. Depth /\ 0 \in Indexes(Depth)
      BY Levels
    <2>3. /\ steps = Depth /\ tree[0][PlaceBelow(0)] = HashLeaf(leaf) /\ at \in Nat /\ index \in Nat
          /\ index - (at * Below(Depth)) \in 0 .. Below(Depth) - 1
      BY <1>1, <2>1, <2>2 DEF CheckIsSound
    <2> DEFINE n == LevelSize[0]
               r == index - (at * n)
    <2>4. n \in Nat /\ Below(Depth) = n
      BY BelowDoubles, Levels
    <2>5. r \in 0 .. n - 1 /\ n \in Nat \ {0} /\ PlaceBelow(0) = r
      BY <2>3, <2>4 DEF PlaceBelow
    <2>6. index = (at * n) + r
      BY <2>3, <2>4
    <2>7. index % n = r
      <3> HIDE DEF n, r
      <3>1. at \in Int /\ n \in Nat \ {0} /\ r \in 0 .. n - 1
        BY <2>3, <2>5
      <3>2. ((at * n) + r) % n = r
        BY <3>1, QuotientIs
      <3> QED BY <2>6, <3>2
    <2>8. checker = "contract" => index = r
      BY <2>1, <2>3, <2>4
    <2> QED BY <2>3, <2>5, <2>7, <2>8 DEF Indexes
  <1> QED BY <1>1, <1>2 DEF CheckIsSound, OnlyLeavesAccepted, Indexes

LEMMA OtherStepsAreSound ==
    ASSUME MerkleInv, OnlyLeavesAccepted, CheckIsSound, LeavesAreSalted,
           \/ UNCHANGED merkleVars
           \/ CreateTree
           \/ \E d \in LeafData : CreateMembershipProof(d)
           \/ AddSegment
    PROVE  LeavesAreSalted' /\ CheckIsSound' /\ OnlyLeavesAccepted'
  <1>1. CASE UNCHANGED merkleVars
    BY <1>1 DEF merkleVars, LeavesAreSalted, CheckIsSound, OnlyLeavesAccepted, Indexes, PlaceBelow, Below
  <1>2. CASE CreateTree
    <2>1. PICK n \in 0 .. Depth : DOMAIN tree = 0 .. n
      BY DEF MerkleInv, Built
    <2>2. n \in Nat /\ n <= Depth
      BY <2>1, Levels
    <2>3. Top = n /\ 0 \in 0 .. n + 1
      BY <2>1, <2>2, TopIs
    <2>4. tree'[0] = tree[0] /\ op' # "check" /\ leaf' = leaf /\ index' = index /\ verdict' = verdict /\ checker' = checker
      BY <1>2, <2>2, <2>3 DEF CreateTree
    <2> QED BY <2>4 DEF LeavesAreSalted, CheckIsSound, OnlyLeavesAccepted, Indexes
  <1>3. CASE \E d \in LeafData : CreateMembershipProof(d)
    <2>1. tree' = tree /\ op' # "check" /\ verdict' = "none"
      BY <1>3 DEF CreateMembershipProof
    <2> QED BY <2>1 DEF LeavesAreSalted, CheckIsSound, OnlyLeavesAccepted, Indexes
  <1>4. CASE AddSegment
    <2>1. tree' = tree /\ op' # "check" /\ verdict' = verdict /\ leaf' = leaf /\ index' = index /\ checker' = checker
      BY <1>4 DEF AddSegment
    <2> QED BY <2>1 DEF LeavesAreSalted, CheckIsSound, OnlyLeavesAccepted, Indexes
  <1> QED BY <1>1, <1>2, <1>3, <1>4

LEMMA SoundStep ==
    ASSUME SoundInv, [MerkleNext]_merkleVars
    PROVE  SoundInv'
  <1>1. MerkleInv' /\ MerkleInv /\ Built /\ LeavesAreSalted /\ CheckIsSound /\ OnlyLeavesAccepted
    BY MerkleInvStep DEF SoundInv, MerkleInv
  <1>2. CASE UNCHANGED merkleVars \/ CreateTree \/ (\E d \in LeafData : CreateMembershipProof(d)) \/ AddSegment
    BY <1>1, <1>2, OtherStepsAreSound DEF SoundInv
  <1>3. ASSUME NEW who, NEW d, NEW k \in Nat, NEW p, op # "build", StartCheck(who, d, k, p)
        PROVE  SoundInv'
    <2>1. CheckIsSound' /\ OnlyLeavesAccepted'
      BY <1>1, <1>3, StartIsSound
    <2>2. LeavesAreSalted'
      BY <1>1, <1>3 DEF StartCheck, LeavesAreSalted, Indexes
    <2> QED BY <1>1, <2>1, <2>2 DEF SoundInv
  <1>4. ASSUME NEW who, CheckOwn(who) PROVE SoundInv'
    <2>1. op = "proved" /\ StartCheck(who, leaf, index, proof)
      BY <1>4 DEF CheckOwn
    <2>2. PICK path : WayUp(path, Len(proof))
      BY <1>1, <2>1 DEF MerkleInv, ProofGoesUp
    <2>3. index \in Nat
      <3>1. Len(proof) \in Nat
        BY <1>1, <2>1, Levels DEF MerkleInv, ProofGoesUp
      <3> QED BY <2>2, <3>1 DEF WayUp
    <2> QED BY <1>3, <2>1, <2>3
  <1>5. ASSUME NEW who, NEW d, NEW k \in 0 .. MaxIndex, NEW n \in 1 .. MaxProof, CheckMembership(who, d, k, n)
        PROVE  SoundInv'
    <2>1. k \in Nat
      BY DepthAssumption
    <2>2. op # "build" /\ \E p : StartCheck(who, d, k, p)
      BY <1>5 DEF CheckMembership
    <2> QED BY <1>3, <2>1, <2>2
  <1>6. CASE Climb
    BY <1>1, <1>6, ClimbIsSound DEF SoundInv, Climb, LeavesAreSalted, Indexes
  <1>7. CASE Decide
    BY <1>1, <1>7, DecideIsSound DEF SoundInv, Decide, LeavesAreSalted, Indexes
  <1> QED BY <1>2, <1>4, <1>5, <1>6, <1>7 DEF MerkleNext

\* The contract accepts a leaf only at a place where it is, whatever the proof, for trees of any
\* depth and leaves that may themselves be pairs of hashes.
THEOREM OnlyLeavesAreAccepted == MerkleSpec => []OnlyLeavesAccepted
  <1>1. MerkleInit => SoundInv
    <2> SUFFICES ASSUME MerkleInit PROVE SoundInv
      OBVIOUS
    <2>1. LeavesAreSalted /\ op = "build" /\ verdict = "none"
      BY DEF MerkleInit, LeavesAreSalted
    <2> QED BY <2>1, MerkleInvInit DEF SoundInv, CheckIsSound, OnlyLeavesAccepted
  <1>2. SoundInv /\ [MerkleNext]_merkleVars => SoundInv'
    BY SoundStep
  <1>3. SoundInv => OnlyLeavesAccepted
    BY DEF SoundInv
  <1> QED BY <1>1, <1>2, <1>3, PTL DEF MerkleSpec

----------------------------------------------------------------------------
\* Signatures.

\* Each signature is none, or it is for the contract that was asked for last.
SignedFor(t, i) ==
    \/ signatures[t][i] = Nothing /\ askedFor[t][i] = Nothing
    \/ /\ signers[t][i] \in Accounts /\ askedFor[t][i] \in Contracts \cup {Nothing}
       /\ \E v \in {27, 28} :
            signatures[t][i] = [key |-> signers[t][i], v |-> v,
                                digest |-> <<VerifyingAddress(askedFor[t][i]), Content[t]>>]
SignedInv ==
    /\ \A t \in Transactions : \A s \in {signatures, signers, askedFor} :
         DOMAIN s = Transactions /\ DOMAIN s[t] = 1 .. NumInputs[t]
    /\ \A t \in Transactions : \A i \in 1 .. NumInputs[t] : SignedFor(t, i)

LEMMA SignKeepsInv ==
    ASSUME SignedInv, NEW t \in Transactions, NEW i \in 1 .. NumInputs[t], NEW account \in Accounts,
           NEW contract \in Contracts \cup {Nothing}, NEW v \in {0, 1}, Sign(t, i, account, contract, v)
    PROVE  SignedInv'
  <1> DEFINE sig == [key |-> account, digest |-> <<VerifyingAddress(contract), Content[t]>>, v |-> v + 27]
  <1>1. /\ signatures' = [signatures EXCEPT ![t][i] = sig]
        /\ signers' = [signers EXCEPT ![t][i] = account]
        /\ askedFor' = [askedFor EXCEPT ![t][i] = contract]
    <2> DEFINE made == [key |-> account, digest |-> Digest(verifyingContract', message'), v |-> v]
    <2>1. Digest(verifyingContract', message') = <<VerifyingAddress(contract), Content[t]>>
      BY DEF Sign, HashStruct, Digest, StructTx
    <2>2. Amend(made) = sig
      BY <2>1 DEF Amend
    <2> QED BY <2>2 DEF Sign
  <1>2. v + 27 \in {27, 28}
    OBVIOUS
  <1> HIDE DEF sig
  <1>3. /\ DOMAIN signatures = Transactions /\ DOMAIN signers = Transactions /\ DOMAIN askedFor = Transactions
        /\ \A u \in Transactions : /\ DOMAIN signatures[u] = 1 .. NumInputs[u]
                          /\ DOMAIN signers[u] = 1 .. NumInputs[u] /\ DOMAIN askedFor[u] = 1 .. NumInputs[u]
    BY DEF SignedInv
  <1>4. /\ DOMAIN signatures' = Transactions /\ DOMAIN signers' = Transactions /\ DOMAIN askedFor' = Transactions
        /\ \A u \in Transactions : /\ DOMAIN signatures'[u] = 1 .. NumInputs[u]
                          /\ DOMAIN signers'[u] = 1 .. NumInputs[u] /\ DOMAIN askedFor'[u] = 1 .. NumInputs[u]
    BY <1>1, <1>3
  <1>5. signatures'[t][i] = sig /\ signers'[t][i] = account /\ askedFor'[t][i] = contract
    BY <1>1, <1>3
  <1>6. ASSUME NEW u \in Transactions, NEW j \in 1 .. NumInputs[u] PROVE SignedFor(u, j)'
    <2>1. CASE u = t /\ j = i
      <3>1. sig = [key |-> account, v |-> v + 27, digest |-> <<VerifyingAddress(contract), Content[t]>>]
        BY DEF sig
      <3>2. \E w \in {27, 28} :
              signatures'[u][j] = [key |-> signers'[u][j], v |-> w,
                                   digest |-> <<VerifyingAddress(askedFor'[u][j]), Content[u]>>]
        BY <1>2, <1>5, <2>1, <3>1
      <3> QED BY <1>5, <2>1, <3>2 DEF SignedFor, VerifyingAddress
    <2>2. CASE ~ (u = t /\ j = i)
      <3>1. /\ signatures'[u][j] = signatures[u][j] /\ signers'[u][j] = signers[u][j]
            /\ askedFor'[u][j] = askedFor[u][j]
        BY <1>1, <1>3, <2>2
      <3>2. SignedFor(u, j)
        BY DEF SignedInv
      <3> QED BY <3>1, <3>2 DEF SignedFor, VerifyingAddress
    <2> QED BY <2>1, <2>2
  <1> QED BY <1>4, <1>6 DEF SignedInv

LEMMA SignedIsValid ==
    ASSUME SignedInv, NEW t \in Transactions, NEW i \in 1 .. NumInputs[t], NEW c \in Contracts
    PROVE  RecoveredBy(c, t, i) = IF askedFor[t][i] = c THEN signers[t][i] ELSE Nobody
  <1>1. SignedFor(t, i) /\ c # Nothing /\ c # NULL_ADDRESS
    BY SigningAssumption DEF SignedInv
  <1>2. CASE signatures[t][i] = Nothing /\ askedFor[t][i] = Nothing
    BY <1>1, <1>2 DEF RecoveredBy
  <1>3. CASE ~ (signatures[t][i] = Nothing /\ askedFor[t][i] = Nothing)
    <2> DEFINE contract == askedFor[t][i]
    <2>1. PICK v \in {27, 28} :
            signatures[t][i] = [key |-> signers[t][i], v |-> v,
                                digest |-> <<VerifyingAddress(contract), Content[t]>>]
      BY <1>1, <1>3 DEF SignedFor
    <2>2. signers[t][i] \in Accounts /\ contract \in Contracts \cup {Nothing}
      BY <1>1, <1>3 DEF SignedFor
    <2>3. VerifyingAddress(contract) \in Contracts \cup {NULL_ADDRESS}
      BY <2>2 DEF VerifyingAddress
    <2>4. signatures[t][i] # Nothing
      BY <2>1, <2>2, <2>3, SigningAssumption
    <2>5. /\ signatures[t][i].v \in {27, 28} /\ signatures[t][i].key = signers[t][i]
          /\ signatures[t][i].digest = <<VerifyingAddress(contract), Content[t]>>
      BY <2>1
    <2>6. <<VerifyingAddress(contract), Content[t]>> = <<c, Content[t]>> <=> contract = c
      BY <1>1, <2>2 DEF VerifyingAddress
    <2> QED BY <2>4, <2>5, <2>6 DEF RecoveredBy, Digest
  <1> QED BY <1>2, <1>3

\* A signature is valid for the contract it was asked for and for no other, for any accounts,
\* contracts and transactions, however often and in whatever order they are signed.
THEOREM SignedForItsContractOnly == SigningSpec => []ValidForItsContractOnly
  <1>1. SigningInit => SignedInv
    BY DEF SigningInit, SignedInv, ForEachInput, SignedFor
  <1>2. SignedInv /\ [SigningNext]_signingVars => SignedInv'
    <2> SUFFICES ASSUME SignedInv, [SigningNext]_signingVars PROVE SignedInv'
      OBVIOUS
    <2>1. CASE UNCHANGED signingVars
      BY <2>1 DEF signingVars, SignedInv, SignedFor, VerifyingAddress
    <2> QED BY <2>1, SignKeepsInv DEF SigningNext
  <1>3. SignedInv => ValidForItsContractOnly
    BY SignedIsValid DEF ValidForItsContractOnly
  <1> QED BY <1>1, <1>2, <1>3, PTL DEF SigningSpec

----------------------------------------------------------------------------
\* Time.

\* A time that was forwarded is after the latest block; after one to a period, a period or more.
ClockInv ==
    /\ {height, latest, nextTimestamp, exitStart} \subseteq Nat /\ askedPeriod \in 1 .. 4
    /\ exitStart <= latest
    /\ nextTimestamp = None \/ nextTimestamp > latest
    /\ askedPeriod > 1 => nextTimestamp >= latest + IN_FLIGHT_PERIOD

LEMMA PeriodIs == IN_FLIGHT_PERIOD \in Nat \ {0} /\ IN_FLIGHT_PERIOD = MIN_EXIT_PERIOD \div 2
  BY ClockAssumption DEF IN_FLIGHT_PERIOD

LEMMA PeriodsAhead ==
    ASSUME NEW period \in 2 .. 4
    PROVE  (period - 1) * IN_FLIGHT_PERIOD \in Nat /\ (period - 1) * IN_FLIGHT_PERIOD >= IN_FLIGHT_PERIOD
  BY PeriodIs

LEMMA ClockKeepsInv ==
    ASSUME ClockInv, [ClockNext]_clockVars
    PROVE  ClockInv'
  <1>1. ASSUME NEW amount \in Amounts, ForwardTimestamp(amount) PROVE ClockInv'
    BY <1>1, ClockAssumption DEF ForwardTimestamp, IncreaseTime, ClockInv, None
  <1>2. ASSUME NEW period \in 2 .. 4, ForwardToPeriod(period) PROVE ClockInv'
    <2> DEFINE ahead == (period - 1) * IN_FLIGHT_PERIOD
    <2>1. ahead \in Nat /\ ahead >= IN_FLIGHT_PERIOD /\ IN_FLIGHT_PERIOD \in Nat \ {0}
      BY PeriodIs, PeriodsAhead
    <2>2. nextTimestamp' = latest + ahead /\ UNCHANGED <<height, latest, exitStart>> /\ askedPeriod' = period
      BY <1>2 DEF ForwardToPeriod, IncreaseTime
    <2> HIDE DEF ahead
    <2>3. (IN_FLIGHT_PERIOD)' = IN_FLIGHT_PERIOD
      BY DEF IN_FLIGHT_PERIOD
    <2> QED BY <2>1, <2>2, <2>3 DEF ClockInv, None
  <1>3. ASSUME MineBlock, UNCHANGED exitStart \/ exitStart' = latest' PROVE ClockInv'
    BY <1>3 DEF MineBlock, GetNextTimestamp, ClockInv, None
  <1>4. ASSUME UNCHANGED <<height, latest, nextTimestamp, askedPeriod>>, exitStart' \in {exitStart, None}
        PROVE  ClockInv'
    BY <1>4 DEF ClockInv, None, IN_FLIGHT_PERIOD
  <1> QED BY <1>1, <1>2, <1>3, <1>4 DEF ClockNext, clockVars, Mine, SendTransaction, StartInFlightExit,
             DisableAutoMine, EndTest

LEMMA PeriodOver ==
    ASSUME NEW n \in Nat \ {0}, NEW x \in Int, x >= n
    PROVE  ~ (x \div n < 1)
  OBVIOUS

LEMMA BlocksReachPeriod ==
    ASSUME ClockInv, [ClockNext]_clockVars, height' # height
    PROVE  latest' > latest /\ (askedPeriod > 1 /\ exitStart # None => ~ IsInFirstPhase(latest'))
  <1>1. MineBlock
    BY DEF ClockInv, ClockNext, clockVars, ForwardTimestamp, ForwardToPeriod, IncreaseTime, Mine, SendTransaction,
           StartInFlightExit, DisableAutoMine, EndTest
  <1>2. latest' > latest /\ latest' \in Nat
    BY <1>1 DEF ClockInv, MineBlock, GetNextTimestamp, None
  <1>3. ASSUME askedPeriod > 1 PROVE ~ IsInFirstPhase(latest')
    <2>1. latest' = nextTimestamp /\ nextTimestamp >= latest + IN_FLIGHT_PERIOD
      BY <1>1, <1>3, PeriodIs DEF ClockInv, MineBlock, GetNextTimestamp, None
    <2>2. latest' - exitStart \in Int /\ latest' - exitStart >= IN_FLIGHT_PERIOD
      BY <2>1, PeriodIs DEF ClockInv
    <2>3. ~ ((latest' - exitStart) \div IN_FLIGHT_PERIOD < 1)
      BY <2>2, PeriodIs, PeriodOver
    <2> QED BY <2>3, PeriodIs DEF IsInFirstPhase
  <1> QED BY <1>2, <1>3

\* Every block is later than the one before, and the first after forward_to_period is past the
\* first phase of an exit started before, for any exit period and amounts.
THEOREM PeriodIsReached == ClockSpec => PeriodReached
  <1>1. ClockInit => ClockInv
    BY DEF ClockInit, ClockInv, None
  <1>2. ClockInv /\ [ClockNext]_clockVars => ClockInv'
    BY ClockKeepsInv
  <1> DEFINE A == height' # height =>
                    /\ latest' > latest
                    /\ askedPeriod > 1 /\ exitStart # None => ~ IsInFirstPhase(latest')
  <1>3. ClockInv /\ [ClockNext]_clockVars => [A]_clockVars
    BY BlocksReachPeriod
  <1> QED BY <1>1, <1>2, <1>3, PTL DEF ClockSpec, PeriodReached

----------------------------------------------------------------------------
\* Bits.

Bits == 0 .. 2 * (NUM_INPUTS + NUM_OUTPUTS)

\* Dividing by a product is dividing twice.
LEMMA QuotientTwice ==
    ASSUME NEW x \in Nat, NEW u \in Nat \ {0}, NEW v \in Nat \ {0}
    PROVE  x \div (v * u) = (x \div u) \div v
  <1> DEFINE a == x \div u
             r == x % u
             b == a \div v
             c == a % v
  <1>1. a \in Nat /\ r \in 0 .. u - 1 /\ x = (a * u) + r
    BY QuotientOf
  <1>2. b \in Nat /\ c \in 0 .. v - 1 /\ a = (b * v) + c
    <2> HIDE DEF a
    <2> QED BY <1>1, QuotientOf
  <1> HIDE DEF a, r, b, c
  <1>3. a * u = (b * (v * u)) + (c * u)
    BY <1>1, <1>2
  <1>4. c * u >= 0 /\ (c * u) + u <= v * u /\ c * u \in Nat /\ v * u \in Nat \ {0}
    <2>1. PICK d \in Nat : v = c + 1 + d
      BY <1>2
    <2>2. v * u = (c * u) + u + (d * u) /\ d * u >= 0 /\ d * u \in Nat /\ c * u \in Nat
      BY <1>2, <2>1
    <2> QED BY <2>2
  <1> DEFINE s == (c * u) + r
             w == v * u
  <1>5. s \in 0 .. w - 1 /\ w \in Nat \ {0} /\ x = (b * w) + s /\ b \in Int
    BY <1>1, <1>2, <1>3, <1>4
  <1> HIDE DEF s, w
  <1>6. x \div w = b
    <2>1. ((b * w) + s) \div w = b
      BY <1>5, QuotientIs
    <2> QED BY <1>5, <2>1
  <1> QED BY <1>6 DEF w, b, a

LEMMA BitPowers ==
    ASSUME NEW j \in Bits
    PROVE  2^j \in Nat \ {0} /\ \A i \in 0 .. j : \E m \in Nat : 2^j = m * 2^i
  <1>1. j \in Nat /\ 2^0 = 1 /\ \A i \in 1 .. j : 2^i = 2 * 2^(i - 1)
    BY NumAssumption DEF Bits
  <1>2. j \in 0 .. j
    BY <1>1
  <1>3. 2^j \in Nat \ {0}
    BY <1>1, <1>2, PowersPositive
  <1>4. \A i \in 0 .. j : \E m \in Nat : 2^j = m * 2^i
    BY <1>1, PowersDivide
  <1> QED BY <1>3, <1>4

\* Of two bits, the higher one is worth an even number of the lower one.
LEMMA HigherIsEven ==
    ASSUME NEW i \in Bits, NEW j \in Bits, i < j
    PROVE  \E m \in Nat \ {0} : 2^j = (m * 2) * 2^i
  <1>1. i \in Nat /\ j \in Nat /\ i + 1 \in 0 .. j /\ i + 1 \in Bits /\ i + 1 \in 1 .. 2 * (NUM_INPUTS + NUM_OUTPUTS)
    BY NumAssumption DEF Bits
  <1>2. PICK m \in Nat : 2^j = m * 2^(i + 1)
    BY <1>1, BitPowers
  <1>3. 2^(i + 1) = 2 * 2^i
    <2>1. (i + 1) - 1 = i
      BY <1>1
    <2> QED BY <1>1, <2>1, NumAssumption
  <1>4. 2^i \in Nat \ {0} /\ 2^j \in Nat \ {0}
    BY BitPowers
  <1> DEFINE p == 2^i
             q == 2^j
  <1>5. q = m * (2 * p) /\ p \in Nat \ {0} /\ q \in Nat \ {0}
    BY <1>2, <1>3, <1>4
  <1> HIDE DEF p, q
  <1>6. m # 0 /\ q = (m * 2) * p
    BY <1>5
  <1> QED BY <1>6 DEF p, q

LEMMA BitIs ==
    ASSUME NEW map \in Nat, NEW k \in Bits
    PROVE  GetBit(map, k) \in {0, 1} /\ map \div 2^k \in Nat
  <1> DEFINE p == 2^k
  <1>1. p \in Nat \ {0}
    BY BitPowers
  <1> HIDE DEF p
  <1> DEFINE a == map \div p
  <1>2. a \in Nat
    BY <1>1, QuotientOf
  <1>3. a % 2 \in {0, 1}
    <2> HIDE DEF a
    <2> QED BY <1>2
  <1> QED BY <1>2, <1>3 DEF GetBit, p

\* Adding what a bit is worth where it is 0 sets it and leaves the others alone.
LEMMA AddedBit ==
    ASSUME NEW map \in Nat, NEW k \in Bits, GetBit(map, k) = 0, NEW j \in Bits
    PROVE  GetBit(map + 2^k, j) = IF j = k THEN 1 ELSE GetBit(map, j)
  <1> DEFINE p == 2^k
             q == 2^j
             a == map \div p
             r == map % p
             h == a \div 2
  <1>1. p \in Nat \ {0} /\ q \in Nat \ {0}
    BY BitPowers
  <1>2. GetBit(map, k) = a % 2 /\ GetBit(map, j) = (map \div q) % 2 /\ GetBit(map + p, j) = ((map + p) \div q) % 2
    BY DEF GetBit
  <1>3. j < k => \E m \in Nat \ {0} : p = (m * 2) * q
    <2>1. j < k => \E m \in Nat \ {0} : 2^k = (m * 2) * 2^j
      BY HigherIsEven
    <2> QED BY <2>1
  <1>4. k < j => \E m \in Nat \ {0} : q = (m * 2) * p
    <2>1. k < j => \E m \in Nat \ {0} : 2^j = (m * 2) * 2^k
      BY HigherIsEven
    <2> QED BY <2>1
  <1> SUFFICES GetBit(map + p, j) = IF j = k THEN 1 ELSE GetBit(map, j)
    OBVIOUS
  <1>5. j = k => p = q
    OBVIOUS
  <1>6. j \in Int /\ k \in Int
    BY DEF Bits
  <1> HIDE DEF p, q
  <1>7. a \in Nat /\ r \in 0 .. p - 1 /\ map = (a * p) + r
    BY <1>1, QuotientOf
  <1> HIDE DEF r
  <1>8. a = 2 * h /\ h \in Nat
    <2>1. a % 2 = 0
      BY <1>2
    <2> HIDE DEF a
    <2> QED BY <1>7, <2>1
  <1>9. CASE j = k
    <2>1. map + p = ((a + 1) * p) + r
      BY <1>1, <1>7
    <2>2. a + 1 \in Int
      BY <1>7
    <2>3. (((a + 1) * p) + r) \div p = a + 1
      <3> HIDE DEF a
      <3> QED BY <1>1, <1>7, <2>2, QuotientIs
    <2>4. (map + p) \div q = a + 1
      BY <1>5, <1>9, <2>1, <2>3
    <2>5. (a + 1) % 2 = 1
      <3> HIDE DEF a, h
      <3> QED BY <1>8
    <2> QED BY <1>2, <1>9, <2>4, <2>5
  <1>10. CASE k < j
    <2>1. PICK m \in Nat \ {0} : q = (m * 2) * p
      BY <1>4, <1>10
    <2> DEFINE d == 2 * p
    <2>2. d \in Nat \ {0} /\ q = m * d /\ map = (h * d) + r /\ map + p = (h * d) + (r + p)
          /\ r \in 0 .. d - 1 /\ r + p \in 0 .. d - 1 /\ h \in Int
      <3> HIDE DEF a, h
      <3>1. d \in Nat \ {0} /\ r \in 0 .. d - 1 /\ r + p \in 0 .. d - 1 /\ h \in Int
        BY <1>1, <1>7, <1>8
      <3>2. q = m * d /\ (2 * h) * p = h * d
        BY <1>1, <1>8, <2>1
      <3>3. a * p = h * d /\ h * d \in Int
        BY <1>8, <3>1, <3>2
      <3> HIDE DEF d
      <3> QED BY <1>1, <1>7, <3>1, <3>2, <3>3
    <2> HIDE DEF d, h
    <2>3. map \div d = h /\ (map + p) \div d = h
      <3>1. ((h * d) + r) \div d = h
        BY <2>2, QuotientIs
      <3>2. ((h * d) + (r + p)) \div d = h
        BY <2>2, QuotientIs
      <3> QED BY <2>2, <3>1, <3>2
    <2>4. map \div (m * d) = (map \div d) \div m
      BY <2>2, QuotientTwice
    <2>5. (map + p) \div (m * d) = ((map + p) \div d) \div m
      <3> DEFINE x == map + p
      <3>1. x \in Nat /\ m \in Nat \ {0} /\ d \in Nat \ {0}
        BY <1>1, <2>2
      <3> HIDE DEF x
      <3>2. x \div (m * d) = (x \div d) \div m
        BY <3>1, QuotientTwice
      <3> QED BY <3>2 DEF x
    <2>6. (map + p) \div q = map \div q
      BY <2>2, <2>3, <2>4, <2>5
    <2> QED BY <1>2, <1>6, <1>10, <2>6
  <1>11. CASE j < k
    <2>1. PICK m \in Nat \ {0} : p = (m * 2) * q
      BY <1>3, <1>11
    <2> DEFINE b == map \div q
               s == map % q
    <2>2. b \in Nat /\ s \in 0 .. q - 1 /\ map = (b * q) + s
      BY <1>1, QuotientOf
    <2> HIDE DEF s
    <2>3. map + p = ((b + (m * 2)) * q) + s
      <3> HIDE DEF b
      <3>1. (b + (m * 2)) * q = (b * q) + ((m * 2) * q)
        BY <1>1, <2>2
      <3>2. b * q \in Int /\ p \in Int
        BY <1>1, <2>2
      <3> QED BY <2>1, <2>2, <3>1, <3>2
    <2>4. b + (m * 2) \in Int
      BY <2>2
    <2>5. (map + p) \div q = b + (m * 2)
      <3> HIDE DEF b
      <3>1. (((b + (m * 2)) * q) + s) \div q = b + (m * 2)
        BY <1>1, <2>2, <2>4, QuotientIs
      <3> QED BY <2>3, <3>1
    <2>6. (b + (m * 2)) % 2 = b % 2
      <3> HIDE DEF b
      <3> QED BY <2>2
    <2> QED BY <1>2, <1>6, <1>11, <2>5, <2>6
  <1> QED BY <1>6, <1>9, <1>10, <1>11

LEMMA SetBitSets ==
    ASSUME NEW map \in Nat, NEW k \in Bits, GetBit(map, k) = 0
    PROVE  /\ SetBit(map, k) \in Nat
           /\ \A j \in Bits : GetBit(SetBit(map, k), j) = IF j = k THEN 1 ELSE GetBit(map, j)
  <1>1. 2^k \in Nat
    BY BitPowers
  <1>2. SetBit(map, k) = map + 2^k
    <2> DEFINE p == 2^k
    <2>1. SetBit(map, k) = map + ((1 - 0) * p) /\ p \in Nat
      BY <1>1 DEF SetBit
    <2> HIDE DEF p
    <2>2. map + ((1 - 0) * p) = map + p
      BY <2>1
    <2> QED BY <2>1, <2>2 DEF p
  <1>3. map + 2^k \in Nat
    BY <1>1
  <1> QED BY <1>2, <1>3, AddedBit

\* What is cleared was set on a map without it.
LEMMA ClearBitClears ==
    ASSUME NEW map \in Nat, NEW k \in Bits, GetBit(map, k) = 1
    PROVE  /\ ClearBit(map, k) \in Nat
           /\ \A j \in Bits : GetBit(ClearBit(map, k), j) = IF j = k THEN 0 ELSE GetBit(map, j)
  <1> DEFINE p == 2^k
             a == map \div p
             r == map % p
             rest == map - p
  <1>1. p \in Nat \ {0}
    BY BitPowers
  <1>2. a % 2 = 1 /\ ClearBit(map, k) = map - (1 * p) /\ \A x : GetBit(x, k) = (x \div p) % 2
    BY DEF GetBit, ClearBit
  <1> HIDE DEF p
  <1>3. a \in Nat /\ r \in 0 .. p - 1 /\ map = (a * p) + r
    BY <1>1, QuotientOf
  <1> HIDE DEF a, r
  <1>4. a - 1 \in Nat /\ (a - 1) % 2 = 0
    BY <1>2, <1>3
  <1>5. rest = ((a - 1) * p) + r /\ rest \in Nat
    <2>1. a * p = ((a - 1) * p) + p /\ (a - 1) * p >= 0 /\ (a - 1) * p \in Int
      BY <1>1, <1>3, <1>4
    <2> QED BY <1>1, <1>3, <2>1
  <1>6. rest \div p = a - 1
    <2>1. (((a - 1) * p) + r) \div p = a - 1
      <3>1. a - 1 \in Int
        BY <1>4
      <3> QED BY <1>1, <1>3, <3>1, QuotientIs
    <2> QED BY <1>5, <2>1
  <1>7. rest + p = map /\ ClearBit(map, k) = rest
    BY <1>1, <1>2
  <1>8. GetBit(rest, k) = 0
    BY <1>2, <1>4, <1>6
  <1> HIDE DEF rest
  <1>9. \A j \in Bits : GetBit(map, j) = IF j = k THEN 1 ELSE GetBit(rest, j)
    BY <1>5, <1>7, <1>8, AddedBit DEF p
  <1> QED BY <1>5, <1>7, <1>8, <1>9

\* Clearing some bits leaves the others, as each is cleared on what the ones before it left.
LEMMA ClearBitsClears ==
    ASSUME NEW map \in Nat, NEW ks \in SUBSET MapBits
    PROVE  /\ ClearBits(map, ks) \in Nat
           /\ \A j \in Bits : GetBit(ClearBits(map, ks), j) = IF j \in ks THEN 0 ELSE GetBit(map, j)
  <1> DEFINE f == [k \in MapBits |-> GetBit(map, k) * 2^k]
             Cleared(T) == map - SumFunctionOnSet(f, T)
             Good == {T \in SUBSET MapBits :
                        /\ Cleared(T) \in Nat
                        /\ \A j \in Bits : GetBit(Cleared(T), j) = IF j \in T THEN 0 ELSE GetBit(map, j)}
  <1>1. IsFiniteSet(MapBits) /\ MapBits \subseteq Bits /\ MapBits \subseteq Nat
    <2>1. NUM_INPUTS \in Nat /\ NUM_OUTPUTS \in Nat /\ MapBits = 0 .. NUM_INPUTS + NUM_OUTPUTS - 1
      BY NumAssumption DEF MapBits
    <2>2. 0 \in Int /\ NUM_INPUTS + NUM_OUTPUTS - 1 \in Int
      BY <2>1
    <2>3. IsFiniteSet(MapBits)
      BY <2>1, <2>2, FS_Interval
    <2> QED BY <2>1, <2>3 DEF Bits
  <1>2. \A k \in MapBits : 2^k \in Nat \ {0} /\ GetBit(map, k) \in {0, 1}
    <2> SUFFICES ASSUME NEW k \in MapBits PROVE 2^k \in Nat \ {0} /\ GetBit(map, k) \in {0, 1}
      OBVIOUS
    <2> DEFINE p == 2^k
    <2>1. p \in Nat \ {0}
      BY <1>1, BitPowers
    <2> HIDE DEF p
    <2>2. map \div p \in Nat
      BY <2>1, QuotientOf
    <2> QED BY <2>1, <2>2 DEF GetBit, p
  <1>3. \A k \in MapBits : f[k] \in Int
    <2> SUFFICES ASSUME NEW k \in MapBits PROVE f[k] \in Int
      OBVIOUS
    <2> DEFINE p == 2^k
    <2>1. p \in Nat /\ GetBit(map, k) \in {0, 1} /\ f[k] = GetBit(map, k) * p
      BY <1>2
    <2> HIDE DEF p, f
    <2> QED BY <2>1
  <1>4. {} \in Good
    <2>1. Cleared({}) = map
      BY SumEmpty
    <2> HIDE DEF Cleared
    <2> QED BY <2>1
  <1>5. ASSUME NEW T \in SUBSET MapBits, T # {}, \A k \in T : T \ {k} \in Good PROVE T \in Good
    <2>1. PICK k \in T : TRUE
      BY <1>5
    <2> DEFINE before == Cleared(T \ {k})
               p == 2^k
    <2>2. SumFunctionOnSet(f, T) = f[k] + SumFunctionOnSet(f, T \ {k})
      <3>1. IsFiniteSet(T) /\ \A y \in T : f[y] \in Int
        BY <1>1, <1>3, FS_Subset
      <3> HIDE DEF f
      <3> QED BY <2>1, <3>1, SumRemove
    <2>3. SumFunctionOnSet(f, T \ {k}) \in Int
      BY <1>1, <1>3, SumInt
    <2>4. /\ before \in Nat
          /\ \A j \in Bits : GetBit(before, j) = IF j \in T \ {k} THEN 0 ELSE GetBit(map, j)
      BY <1>5, <2>1
    <2>5. k \in Bits /\ GetBit(before, k) = GetBit(map, k) /\ GetBit(map, k) \in {0, 1} /\ p \in Nat
      BY <1>1, <1>2, <2>1, <2>4
    <2>6. Cleared(T) = before - (GetBit(before, k) * p)
      <3>1. f[k] = GetBit(before, k) * p /\ f[k] \in Int
        BY <1>3, <2>1, <2>5
      <3>2. map - (f[k] + SumFunctionOnSet(f, T \ {k})) = (map - SumFunctionOnSet(f, T \ {k})) - f[k]
        <4> HIDE DEF f
        <4> QED BY <2>3, <3>1
      <3> QED BY <2>2, <3>1, <3>2
    <2> HIDE DEF before, p, Cleared
    <2>7. CASE GetBit(before, k) = 0
      <3>1. Cleared(T) = before
        BY <2>4, <2>5, <2>6, <2>7
      <3>2. \A j \in Bits : GetBit(Cleared(T), j) = IF j \in T THEN 0 ELSE GetBit(map, j)
        BY <2>4, <2>5, <2>7, <3>1
      <3> QED BY <2>4, <3>1, <3>2
    <2>8. CASE GetBit(before, k) = 1
      <3>1. Cleared(T) = ClearBit(before, k)
        BY <2>6 DEF ClearBit, p
      <3>2. /\ ClearBit(before, k) \in Nat
            /\ \A j \in Bits : GetBit(ClearBit(before, k), j) = IF j = k THEN 0 ELSE GetBit(before, j)
        BY <2>4, <2>5, <2>8, ClearBitClears
      <3>3. \A j \in Bits : GetBit(Cleared(T), j) = IF j \in T THEN 0 ELSE GetBit(map, j)
        BY <2>1, <2>4, <3>1, <3>2
      <3> QED BY <3>1, <3>2, <3>3
    <2> QED BY <2>5, <2>7, <2>8
  <1> HIDE DEF Good
  <1>6. \A T \in SUBSET MapBits : T \in Good
    BY <1>1, <1>4, <1>5, SubsetInduction
  <1> QED BY <1>6 DEF Good, ClearBits

\* The bits that are set are those of the piggybacks, the inputs' first, up to the last bit that is read.
IsSet(k) == IF k < NUM_INPUTS THEN k \in inputs ELSE k - NUM_INPUTS \in outputs
ViewInv ==
    /\ exitMap \in Nat /\ outputs \subseteq 0 .. NUM_OUTPUTS - 1
    /\ \A k \in Bits : GetBit(exitMap, k) = 1 <=> IsSet(k)

LEMMA EmptyMap == \A k \in Bits : GetBit(0, k) = 0
  <1> SUFFICES ASSUME NEW k \in Bits PROVE GetBit(0, k) = 0
    OBVIOUS
  <1> DEFINE p == 2^k
  <1>1. p \in Nat \ {0}
    BY BitPowers
  <1> HIDE DEF p
  <1>2. 0 \div p = 0
    BY <1>1
  <1> QED BY <1>2 DEF GetBit, p

LEMMA ViewInvInit == ViewInit => ViewInv
  <1> SUFFICES ASSUME ViewInit PROVE exitMap = 0 /\ outputs = {} /\ \A k \in Bits : ~ IsSet(k)
    BY EmptyMap DEF ViewInv
  <1> QED BY DEF ViewInit, IsSet

\* A bit that is set, and the index that it stands for.
LEMMA SetKeepsInv ==
    ASSUME ViewInv, NEW k \in Bits, GetBit(exitMap, k) = 0, exitMap' = SetBit(exitMap, k),
           outputs' \subseteq 0 .. NUM_OUTPUTS - 1,
           \A j \in Bits : IsSet(j)' <=> IsSet(j) \/ j = k
    PROVE  ViewInv'
  <1>1. exitMap \in Nat
    BY DEF ViewInv
  <1>2. exitMap' \in Nat /\ \A j \in Bits : GetBit(exitMap', j) = IF j = k THEN 1 ELSE GetBit(exitMap, j)
    BY <1>1, SetBitSets
  <1>3. \A j \in Bits : GetBit(exitMap', j) = 1 <=> IsSet(j)'
    BY <1>2 DEF ViewInv
  <1> QED BY <1>2, <1>3 DEF ViewInv, GetBit

LEMMA ClearKeepsInv ==
    ASSUME ViewInv, NEW k \in Bits, GetBit(exitMap, k) = 1, exitMap' = ClearBit(exitMap, k),
           outputs' \subseteq 0 .. NUM_OUTPUTS - 1,
           \A j \in Bits : IsSet(j)' <=> IsSet(j) /\ j # k
    PROVE  ViewInv'
  <1>1. exitMap \in Nat
    BY DEF ViewInv
  <1>2. exitMap' \in Nat /\ \A j \in Bits : GetBit(exitMap', j) = IF j = k THEN 0 ELSE GetBit(exitMap, j)
    BY <1>1, ClearBitClears
  <1>3. \A j \in Bits : GetBit(exitMap', j) = 1 <=> IsSet(j)'
    BY <1>2 DEF ViewInv
  <1> QED BY <1>2, <1>3 DEF ViewInv, GetBit

LEMMA PiggybackKeepsInv ==
    ASSUME ViewInv, NEW k \in 0 .. NUM_INPUTS + NUM_OUTPUTS, PiggybackInFlightExitInput(k)
    PROVE  ViewInv'
  <1>1. /\ {NUM_INPUTS, NUM_OUTPUTS, MAX_INPUT_NUM} \subseteq Nat \ {0}
        /\ NUM_INPUTS = MAX_INPUT_NUM /\ NUM_OUTPUTS = MAX_OUTPUT_NUM
        /\ outputs \subseteq 0 .. NUM_OUTPUTS - 1 /\ Bits \subseteq Int
    BY NumAssumption DEF ViewInv, Bits
  <1>2. (k - NUM_INPUTS) + MAX_INPUT_NUM = k
    BY <1>1
  <1>3. SetPiggybacked(k) /\ (~ k < NUM_INPUTS => k - NUM_INPUTS < NUM_OUTPUTS)
    BY <1>1, <1>2 DEF PiggybackInFlightExitInput, PiggybackInFlightExit, SetInputPiggybacked,
        SetOutputPiggybacked
  <1>4. GetBit(exitMap, k) = 0 /\ exitMap' = SetBit(exitMap, k)
    BY <1>3 DEF SetPiggybacked
  <1>5. k \in Bits /\ (~ k < NUM_INPUTS => k - NUM_INPUTS \in 0 .. NUM_OUTPUTS - 1)
    BY <1>1, <1>3 DEF Bits
  <1>6. /\ k < NUM_INPUTS => inputs' = inputs \cup {k} /\ outputs' = outputs
        /\ ~ k < NUM_INPUTS => inputs' = inputs /\ outputs' = outputs \cup {k - NUM_INPUTS}
    BY DEF PiggybackInFlightExitInput
  <1>7. outputs' \subseteq 0 .. NUM_OUTPUTS - 1
    BY <1>1, <1>5, <1>6
  <1>8. \A j \in Bits : IsSet(j)' <=> IsSet(j) \/ j = k
    <2> SUFFICES ASSUME NEW j \in Bits PROVE IsSet(j)' <=> IsSet(j) \/ j = k
      OBVIOUS
    <2>1. j - NUM_INPUTS = k - NUM_INPUTS <=> j = k
      BY <1>1
    <2> QED BY <1>6, <2>1 DEF IsSet
  <1> QED BY <1>4, <1>5, <1>7, <1>8, SetKeepsInv

\* The bits of the token are cleared, and what they stand for is no longer piggybacked.
LEMMA ProcessKeepsInv ==
    ASSUME ViewInv, NEW token \in Tokens, ProcessExit(token)
    PROVE  ViewInv'
  <1> DEFINE ks == BitsOf(token)
             cleared == ClearBits(exitMap, ks)
  <1>1. /\ {NUM_INPUTS, NUM_OUTPUTS} \subseteq Nat \ {0} /\ MapBits = 0 .. NUM_INPUTS + NUM_OUTPUTS - 1
        /\ outputs \subseteq 0 .. NUM_OUTPUTS - 1 /\ Bits \subseteq Nat /\ MapBits \subseteq Bits
        /\ exitMap \in Nat
    BY NumAssumption DEF ViewInv, Bits, MapBits
  <1>2. CASE phase = 0
    BY <1>2 DEF ProcessExit, ViewInv, GetBit, IsSet
  <1>3. CASE phase # 0
    <2>1. ks \in SUBSET MapBits
      BY DEF BitsOf
    <2>2. cleared \in Nat /\ \A j \in Bits : GetBit(cleared, j) = IF j \in ks THEN 0 ELSE GetBit(exitMap, j)
      <3> HIDE DEF ks
      <3> QED BY <1>1, <2>1, ClearBitsClears
    <2>3. /\ IF NothingPiggybacked(cleared) THEN exitMap' = 0 ELSE exitMap' = cleared
          /\ inputs' = inputs \ ks /\ outputs' = {j \in outputs : j + NUM_INPUTS \notin ks}
      BY <1>3 DEF ProcessExit
    <2> HIDE DEF ks, cleared
    <2>4. outputs' \subseteq 0 .. NUM_OUTPUTS - 1
      BY <1>1, <2>3
    <2>5. \A j \in Bits : IsSet(j)' <=> IsSet(j) /\ j \notin ks
      <3> SUFFICES ASSUME NEW j \in Bits PROVE IsSet(j)' <=> IsSet(j) /\ j \notin ks
        OBVIOUS
      <3>1. (j - NUM_INPUTS) + NUM_INPUTS = j
        BY <1>1
      <3> QED BY <2>3, <3>1 DEF IsSet
    <2>6. \A j \in Bits : GetBit(cleared, j) = 1 <=> IsSet(j)'
      BY <2>2, <2>5 DEF ViewInv
    <2>7. CASE NothingPiggybacked(cleared)
      <3>1. \A j \in Bits : ~ IsSet(j)'
        <4> SUFFICES ASSUME NEW j \in Bits, IsSet(j)' PROVE FALSE
          OBVIOUS
        <4>1. GetBit(cleared, j) = 1
          BY <2>6
        <4>2. j \notin MapBits
          BY <2>7, <4>1 DEF NothingPiggybacked
        <4>3. ~ j < NUM_INPUTS /\ j - NUM_INPUTS \notin 0 .. NUM_OUTPUTS - 1
          BY <1>1, <4>2
        <4> QED BY <2>4, <4>3 DEF IsSet
      <3>2. \A j \in Bits : GetBit(0, j) = 0
        BY EmptyMap
      <3> QED BY <2>3, <2>4, <2>7, <3>1, <3>2 DEF ViewInv, GetBit
    <2>8. CASE ~ NothingPiggybacked(cleared)
      BY <2>2, <2>3, <2>4, <2>6, <2>8 DEF ViewInv, GetBit
    <2> QED BY <2>7, <2>8
  <1> QED BY <1>2, <1>3

\* Only what was on the map is deleted from it: nothing.
LEMMA DeleteKeepsInv ==
    ASSUME ViewInv, DeleteExit
    PROVE  ViewInv'
  <1>1. /\ {NUM_INPUTS, NUM_OUTPUTS} \subseteq Nat \ {0} /\ MapBits = 0 .. NUM_INPUTS + NUM_OUTPUTS - 1
        /\ outputs \subseteq 0 .. NUM_OUTPUTS - 1 /\ Bits \subseteq Nat
    BY NumAssumption DEF ViewInv, Bits, MapBits
  <1>2. NothingPiggybacked(exitMap) /\ exitMap' = 0 /\ inputs' = inputs /\ outputs' = outputs
    BY DEF DeleteExit
  <1>3. \A j \in Bits : ~ IsSet(j)
    <2> SUFFICES ASSUME NEW j \in Bits, IsSet(j) PROVE FALSE
      OBVIOUS
    <2>1. GetBit(exitMap, j) = 1
      BY DEF ViewInv
    <2>2. j \notin MapBits
      BY <1>2, <2>1 DEF NothingPiggybacked
    <2>3. ~ j < NUM_INPUTS /\ j - NUM_INPUTS \notin 0 .. NUM_OUTPUTS - 1
      BY <1>1, <2>2
    <2> QED BY <1>1, <2>3 DEF IsSet
  <1>4. \A j \in Bits : GetBit(0, j) = 0
    BY EmptyMap
  <1> QED BY <1>1, <1>2, <1>3, <1>4 DEF ViewInv, GetBit, IsSet

LEMMA ViewStep == ViewInv /\ [ViewNext]_viewVars => ViewInv'
  <1> SUFFICES ASSUME ViewInv, [ViewNext]_viewVars PROVE ViewInv'
    OBVIOUS
  <1>1. /\ {NUM_INPUTS, NUM_OUTPUTS, MAX_INPUT_NUM} \subseteq Nat \ {0} /\ NUM_INPUTS = MAX_INPUT_NUM
        /\ outputs \subseteq 0 .. NUM_OUTPUTS - 1
    BY NumAssumption DEF ViewInv
  <1>2. ASSUME NEW i \in 0 .. NUM_INPUTS - 1
        PROVE  i \in Bits /\ i < NUM_INPUTS
    BY <1>1 DEF Bits
  <1>3. ASSUME NEW j \in 0 .. NUM_OUTPUTS - 1
        PROVE  /\ j + NUM_INPUTS \in Bits /\ ~ j + NUM_INPUTS < NUM_INPUTS
               /\ (j + NUM_INPUTS) - NUM_INPUTS = j
    BY <1>1 DEF Bits
  <1>4. Bits \subseteq Int
    BY DEF Bits
  <1>5. ASSUME NEW j \in 0 .. NUM_OUTPUTS, PiggybackInFlightExitOutput(j) PROVE ViewInv'
    <2>1. j + NUM_INPUTS \in 0 .. NUM_INPUTS + NUM_OUTPUTS
      BY <1>1
    <2> QED BY <1>5, <2>1, PiggybackKeepsInv DEF PiggybackInFlightExitOutput
  <1>6. CASE StartExit \/ FirstPhaseEnds
    BY <1>6 DEF StartExit, FirstPhaseEnds, ViewInv, GetBit, IsSet
  <1>7. ASSUME NEW i \in 0 .. NUM_INPUTS - 1, ChallengeInFlightExitInputSpent(i) PROVE ViewInv'
    <2>1. GetBit(exitMap, i) = 1 /\ exitMap' = ClearBit(exitMap, i) /\ inputs' = inputs \ {i} /\ outputs' = outputs
      BY <1>7 DEF ChallengeInFlightExitInputSpent
    <2>2. \A j \in Bits : IsSet(j)' <=> IsSet(j) /\ j # i
      BY <1>2, <1>4, <2>1 DEF IsSet
    <2> QED BY <1>1, <1>2, <2>1, <2>2, ClearKeepsInv
  <1>8. ASSUME NEW i \in 0 .. NUM_OUTPUTS - 1, ChallengeInFlightExitOutputSpent(i) PROVE ViewInv'
    <2> DEFINE k == i + NUM_INPUTS
    <2>1. /\ GetBit(exitMap, k) = 1 /\ exitMap' = ClearBit(exitMap, k)
          /\ inputs' = inputs /\ outputs' = outputs \ {i}
      BY <1>1, <1>8 DEF ChallengeInFlightExitOutputSpent
    <2>2. k \in Bits /\ ~ k < NUM_INPUTS /\ k - NUM_INPUTS = i /\ k = i + NUM_INPUTS
      BY <1>3
    <2> HIDE DEF k
    <2>3. \A j \in Bits : IsSet(j)' <=> IsSet(j) /\ j # k
      <3> SUFFICES ASSUME NEW j \in Bits PROVE IsSet(j)' <=> IsSet(j) /\ j # k
        OBVIOUS
      <3>1. j - NUM_INPUTS = i <=> j = k
        BY <1>1, <1>4, <2>2
      <3>2. j = k => ~ j < NUM_INPUTS
        BY <2>2
      <3> QED BY <2>1, <3>1, <3>2 DEF IsSet
    <2> QED BY <1>1, <2>1, <2>2, <2>3, ClearKeepsInv
  <1>9. CASE UNCHANGED viewVars
    BY <1>9 DEF viewVars, ViewInv, GetBit, IsSet
  <1> QED BY <1>5, <1>6, <1>7, <1>8, <1>9, PiggybackKeepsInv, ProcessKeepsInv, DeleteKeepsInv DEF ViewNext

\* What a test reads off an in-flight exit is what was piggybacked and neither challenged nor
\* processed since, whatever the exit's tokens and however often it ends and starts again, for any
\* numbers of inputs and outputs on which both sides agree as the code's do.
THEOREM ExitIsReadBack == ViewSpec => []ReadsBack
  <1>1. ViewInv => ReadsBack
    <2> SUFFICES ASSUME ViewInv PROVE ReadsBack
      OBVIOUS
    <2>1. {NUM_INPUTS, NUM_OUTPUTS} \subseteq Nat \ {0} /\ outputs \subseteq 0 .. NUM_OUTPUTS - 1
      BY NumAssumption DEF ViewInv
    <2>2. \A k \in Bits : InputPiggybacked(k) <=> IsSet(k)
      BY DEF ViewInv, InputPiggybacked, GetBit
    <2>3. ASSUME NEW i \in 0 .. NUM_INPUTS - 1
          PROVE  (InputPiggybacked(i) <=> i \in inputs) /\ ~ InputBlocked(i)
      <3>1. i \in Bits /\ i < NUM_INPUTS
        BY <2>1 DEF Bits
      <3> DEFINE k == i + NUM_INPUTS + NUM_OUTPUTS
      <3>2. k \in Bits /\ ~ k < NUM_INPUTS /\ k - NUM_INPUTS \notin 0 .. NUM_OUTPUTS - 1
        BY <2>1 DEF Bits
      <3> HIDE DEF k
      <3>3. ~ IsSet(k)
        BY <2>1, <3>2 DEF IsSet
      <3> QED BY <2>2, <3>1, <3>2, <3>3 DEF IsSet, InputBlocked, k
    <2>4. ASSUME NEW j \in 0 .. NUM_OUTPUTS - 1
          PROVE  (OutputPiggybacked(j) <=> j \in outputs) /\ ~ OutputBlocked(j)
      <3> DEFINE b == j + NUM_INPUTS
                 k == b + NUM_INPUTS + NUM_OUTPUTS
      <3>1. b \in Bits /\ ~ b < NUM_INPUTS /\ b - NUM_INPUTS = j
        BY <2>1 DEF Bits
      <3>2. k \in Bits /\ ~ k < NUM_INPUTS /\ k - NUM_INPUTS \notin 0 .. NUM_OUTPUTS - 1
        BY <2>1 DEF Bits
      <3> HIDE DEF b
      <3>3. OutputPiggybacked(j) <=> j \in outputs
        BY <2>2, <3>1 DEF OutputPiggybacked, IsSet, b
      <3> HIDE DEF k
      <3>4. ~ IsSet(k)
        BY <2>1, <3>2 DEF IsSet
      <3>5. ~ InputPiggybacked(k)
        BY <2>2, <3>2, <3>4
      <3> QED BY <3>3, <3>5 DEF OutputBlocked, InputBlocked, k, b
    <2> QED BY <2>3, <2>4 DEF ReadsBack
  <1> QED BY <1>1, ViewInvInit, ViewStep, PTL DEF ViewSpec
====
