---- MODULE UtxoPosition ----
(***************************************************************************)
(* Where an output is: the number of its Plasma block, the index of its    *)
(* transaction there and the index of the output, all from 0, packed into  *)
(* one decimal number.  The contracts (PosLib) and the Python chain        *)
(* (plasma_core/utils/transactions.py) each have their own coding; the     *)
(* contracts reject what does not fit the exit priority.                   *)
(***************************************************************************)
EXTENDS Integers

CONSTANTS
    BLKNUM_OFFSET,      \* BLOCK_OFFSET of PosLib, 10^9 in the code
    TXINDEX_OFFSET,     \* TX_OFFSET of PosLib, 10^4 in the code
    TxIndexSize,        \* 2^16: the leaves of a block's Merkle tree
    TxPosSize           \* 2^56: what an exit priority has room for

\* Last: a transaction index of the tree fits between two blocks.
ASSUME OffsetAssumption ==
    /\ {BLKNUM_OFFSET, TXINDEX_OFFSET, TxIndexSize, TxPosSize} \subseteq Nat \ {0}
    /\ BLKNUM_OFFSET % TXINDEX_OFFSET = 0
    /\ TxIndexSize <= BLKNUM_OFFSET \div TXINDEX_OFFSET
    /\ TxIndexSize <= TxPosSize

\* encode_utxo_id: checks nothing.
Encode(blknum, txindex, oindex) ==
    (blknum * BLKNUM_OFFSET) + (txindex * TXINDEX_OFFSET) + oindex

Decode(id) ==
    [blknum |-> id \div BLKNUM_OFFSET,
     txindex |-> (id % BLKNUM_OFFSET) \div TXINDEX_OFFSET,
     oindex |-> id % TXINDEX_OFFSET]

MAX_TX_INDEX == TxIndexSize - 1
MAX_BLOCK_NUM == ((TxPosSize - 1) - MAX_TX_INDEX) \div (BLKNUM_OFFSET \div TXINDEX_OFFSET)

\* The positions that PosLib.decode does not reject.
UtxoPositions ==
    [blknum : 0 .. MAX_BLOCK_NUM, txindex : 0 .. MAX_TX_INDEX, oindex : 0 .. TXINDEX_OFFSET - 1]
IdOf(p) == Encode(p.blknum, p.txindex, p.oindex)

\* PosLib.getTxPositionForExitPriority, a uint56.
TxPosition(id) == (id \div TXINDEX_OFFSET) % TxPosSize
====
