---- MODULE FixedMerkle ----
(***************************************************************************)
(* The Merkle tree of a block: built and proved from by the Python tree    *)
(* (plasma_core/utils/merkle/fixed_merkle.py), checked by it and by the    *)
(* contracts (utils/Merkle.sol).  One step is one turn of a loop or of the *)
(* recursion.  A hash is named by what is hashed, with the salt.           *)
(***************************************************************************)
EXTENDS Integers, Sequences

CONSTANTS
    Depth,              \* 16 for the blocks
    LevelSize,          \* the nodes of each level; LevelSize[0] is 2 ** depth
    LeafData,           \* what may be a leaf, among it
    NULL_HASH,          \* what the tree is filled up with
    Lists,              \* the lists of leaves that trees are made of
    MaxIndex, MaxProof  \* bounds of the model: the indexes and the lengths of proofs to check

ASSUME DepthAssumption ==
    /\ Depth \in Nat \ {0}
    /\ LevelSize \in [0 .. Depth -> Nat]
    /\ LevelSize[Depth] = 1
    /\ \A i \in 0 .. Depth - 1 : LevelSize[i] = 2 * LevelSize[i + 1]
    /\ NULL_HASH \in LeafData
    /\ Lists \subseteq Seq(LeafData)
    /\ \A l \in Lists : Len(l) <= LevelSize[0]
    /\ MaxIndex \in Nat /\ MaxProof \in Nat

VARIABLES
    tree,               \* the levels there are, from the leaves; a level is a function on indexes
    op,                 \* what goes on: "build", "ready", "prove", "proved", "check", "done"
    leaf, index,        \* of the proof that is made or checked
    at,                 \* the index at the level where the loop is
    proof,              \* the hashes beside the path
    steps, computed,    \* of a check: the levels climbed and the hash there
    checker,            \* "python" or "contract"
    verdict,            \* of the last check
    own                 \* history: the check is one of the proof just made, for the same leaf

merkleVars == <<tree, op, leaf, index, at, proof, steps, computed, checker, verdict, own>>

\* A mutant: leaves are hashed as nodes are.
HashLeafUnsalted(data) == [salt |-> 1, data |-> data]
HashLeaf(data) == [salt |-> 0, data |-> data]
HashNode(left, right) == [salt |-> 1, data |-> <<left, right>>]

Top == CHOOSE i \in 0 .. Depth : DOMAIN tree = 0 .. i
Indexes(i) == 0 .. LevelSize[i] - 1
Root == tree[Depth][0]
FirstIndex(h) == CHOOSE j \in Indexes(0) : tree[0][j] = h /\ \A k \in Indexes(0) : tree[0][k] = h => j <= k

Sibling(j) == IF j % 2 = 0 THEN j + 1 ELSE j - 1

MerkleInit ==
    /\ \E data \in Lists :
         tree = [i \in {0} |-> [j \in Indexes(0) |->
                    HashLeaf(IF j < Len(data) THEN data[j + 1] ELSE NULL_HASH)]]
    /\ op = "build"
    /\ leaf = NULL_HASH /\ index = 0 /\ at = 0 /\ proof = <<>>
    /\ steps = 0 /\ computed = HashLeaf(NULL_HASH) /\ checker = "python"
    /\ verdict = "none" /\ own = FALSE

\* The level above the last one.
CreateTree ==
    /\ op = "build"
    /\ tree' = [i \in 0 .. Top + 1 |->
                  IF i <= Top THEN tree[i]
                  ELSE [j \in Indexes(i) |-> HashNode(tree[Top][2 * j], tree[Top][(2 * j) + 1])]]
    /\ op' = IF Top + 1 = Depth THEN "ready" ELSE "build"
    /\ UNCHANGED <<leaf, index, at, proof, steps, computed, checker, verdict, own>>

Idle == op \in {"ready", "proved", "done"}
IsMember(d) == \E j \in Indexes(0) : tree[0][j] = HashLeaf(d)

\* The proof is one for the first of equal leaves; what is not a leaf raises
\* MemberNotExistException.
CreateMembershipProof(d) ==
    /\ Idle /\ IsMember(d)
    /\ op' = "prove"
    /\ leaf' = d /\ index' = FirstIndex(HashLeaf(d)) /\ at' = index' /\ proof' = <<>>
    /\ verdict' = "none"
    /\ UNCHANGED <<tree, steps, computed, checker, own>>

AddSegment ==
    /\ op = "prove"
    /\ proof' = Append(proof, tree[Len(proof)][Sibling(at)])
    /\ at' = at \div 2
    /\ op' = IF Len(proof') = Depth THEN "proved" ELSE "prove"
    /\ UNCHANGED <<tree, leaf, index, steps, computed, checker, verdict, own>>

StartCheck(who, d, k, p) ==
    /\ op' = "check" /\ checker' = who
    /\ leaf' = d /\ index' = k /\ proof' = p
    /\ at' = k /\ steps' = 0 /\ computed' = HashLeaf(d)
    /\ verdict' = "none"
    /\ UNCHANGED tree

\* The proof just made.
CheckOwn(who) ==
    /\ op = "proved"
    /\ StartCheck(who, leaf, index, proof)
    /\ own' = TRUE

\* Any leaf, index and hashes of the tree.  The Python tree looks at as many hashes as it is deep.
Segments == UNION {{tree[i][j] : j \in Indexes(i)} : i \in DOMAIN tree}
CheckMembership(who, d, k, n) ==
    /\ op = "ready"
    /\ who = "python" => n = Depth
    /\ \E p \in [1 .. n -> Segments] : StartCheck(who, d, k, p)
    /\ own' = FALSE

\* A mutant: the sibling is always on the right.
ClimbRight ==
    /\ op = "check" /\ steps < Len(proof)
    /\ computed' = HashNode(computed, proof[steps + 1])
    /\ at' = at \div 2
    /\ steps' = steps + 1
    /\ UNCHANGED <<tree, op, leaf, index, proof, checker, verdict, own>>

Climb ==
    /\ op = "check" /\ steps < Len(proof)
    /\ computed' = IF at % 2 = 0 THEN HashNode(computed, proof[steps + 1])
                   ELSE HashNode(proof[steps + 1], computed)
    /\ at' = at \div 2
    /\ steps' = steps + 1
    /\ UNCHANGED <<tree, op, leaf, index, proof, checker, verdict, own>>

\* index < 2 ** length, which the contract requires, is that nothing of it is left here.
Decide ==
    /\ op = "check" /\ steps = Len(proof)
    /\ verdict' = IF computed = Root /\ (checker = "contract" => at = 0) THEN "accepted" ELSE "rejected"
    /\ op' = "done"
    /\ UNCHANGED <<tree, leaf, index, at, proof, steps, computed, checker, own>>

MerkleNext ==
    \/ CreateTree
    \/ \E d \in LeafData : CreateMembershipProof(d)
    \/ AddSegment
    \/ \E who \in {"python", "contract"} : CheckOwn(who)
    \/ \E who \in {"python", "contract"}, d \in LeafData, k \in 0 .. MaxIndex, n \in 1 .. MaxProof :
         CheckMembership(who, d, k, n)
    \/ Climb
    \/ Decide

MerkleSpec == MerkleInit /\ [][MerkleNext]_merkleVars

----------------------------------------------------------------------------

\* What the Python tree makes as a proof of a leaf, the contracts accept for the first place the
\* leaf has, in blocks of any fill.
OwnProofsAccepted == own /\ op = "done" => verdict = "accepted"

\* The contract accepts a leaf only at a place where it is, whatever hashes and however many the
\* proof has: no node passes for a leaf, and no leaf for a node.  A place after the last
\* transaction holds NULL_HASH.  The Python tree does not look at how large the index is: what
\* it accepts is a leaf at the place that is left of the index.
OnlyLeavesAccepted ==
    verdict = "accepted" =>
        LET place == IF checker = "contract" THEN index ELSE index % LevelSize[0]
        IN  place \in Indexes(0) /\ tree[0][place] = HashLeaf(leaf)
====
