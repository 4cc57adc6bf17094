--------------------------- MODULE BlockAllocator ---------------------------
(***************************************************************************)
(* The block arithmetic of SingleIndexStorage: how the single index file   *)
(* is cut into base blocks, which block size a token needs, and how runs   *)
(* of freed base blocks are kept and reused.  Pure operators: the state    *)
(* machine that uses them is SingleIndexStorage.                           *)
(*                                                                         *)
(* Units.  The file is measured in rows (24 bytes: file id, position, word *)
(* position) and a mask is represented by the number of base blocks it     *)
(* stands for, i.e. by mask^3, the only thing the code does with it.       *)
(***************************************************************************)
EXTENDS Integers

CONSTANTS
  BlockMasks, \* sizes, in base blocks, of the masks of allBlockMasks
  BaseRows,   \* rows in one base block (MASK_MULTIPLE)
  Span        \* rows an unsigned 32-bit byte count can tell apart

(***************************************************************************)
(* getMask compares the size with a product computed in a signed 32-bit    *)
(* int and then converted to size_t: a product past the signed range is    *)
(* negative there and compares as a huge capacity (P_134b), one past the   *)
(* unsigned range starts again from 0 (P_1t).                              *)
(***************************************************************************)
Accepts(mask, size) ==
  LET product == (mask * BaseRows) % Span
  IN  2 * product >= Span \/ size <= product

ASSUME BlockAssumption ==
  /\ BaseRows \in Nat \ {0}
  /\ Span \in Nat \ {0}
  /\ BlockMasks \subseteq Nat \ {0}

\* The throw at the end of getMask is dead code: P_134b accepts every size.
ASSUME MaskAssumption ==
  \A size \in 0 .. Span - 1 : \E mask \in BlockMasks : Accepts(mask, size)

GetMask(size) ==
  CHOOSE mask \in BlockMasks :
    /\ Accepts(mask, size)
    /\ \A other \in BlockMasks : Accepts(other, size) => mask <= other

\* An address that forgets the rows already there.
BlockToPosStart(start, size) == (start * BaseRows) % Span

\* First row of a block: the byte offset is computed in 32 bits.
BlockToPos(start, size) == (start * BaseRows + size) % Span

-----------------------------------------------------------------------------
(***************************************************************************)
(* freeBlockPoses, an ordered map from the first block of a free run to    *)
(* its length.                                                             *)
(***************************************************************************)
NoRuns == [k \in {} |-> 0]

IsRunMap(free) == DOMAIN free \subseteq Nat /\ free \in [DOMAIN free -> Nat \ {0}]

\* it = free.lower_bound(x), free.upper_bound(x); no such key: it = free.end()
IsLowerBound(free, x, k) ==
  k \in DOMAIN free /\ k >= x /\ \A j \in DOMAIN free : j >= x => k <= j

IsUpperBound(free, x, k) == IsLowerBound(free, x + 1, k)

(***************************************************************************)
(* The code reads end()->second when there is no bound.  libstdc++ keeps   *)
(* the number of elements there, whose upper half, read as "second", is 0: *)
(* the `second > 0` guard fails and nothing is merged.  For start = 0 the  *)
(* unsigned `blockStart - 1` is past every key and the outcome is the same.*)
(***************************************************************************)
MergesPrev(free, start) ==
  start > 0 /\ \E k \in DOMAIN free : IsLowerBound(free, start - 1, k) /\ k + free[k] = start

MergesNext(free, start, count) ==
  \E k \in DOMAIN free : IsUpperBound(free, start, k) /\ k = start + count

\* Without the early return for an empty run.
MarkEvenEmpty(free, start, count) ==
  [k \in DOMAIN free \cup {start} |-> IF k = start THEN count ELSE free[k]]

\* A merged previous run starts at start - 1: lower_bound looks no further back.
MarkBlockAvailable(free, start, count) ==
  LET prev   == MergesPrev(free, start)
      next   == MergesNext(free, start, count)
      first  == IF prev THEN start - 1 ELSE start
      length == (IF prev THEN free[start - 1] ELSE 0) + count
                  + (IF next THEN free[start + count] ELSE 0)
      kept   == DOMAIN free \ ((IF prev THEN {start - 1} ELSE {})
                                 \cup (IF next THEN {start + count} ELSE {}))
  IN  IF count = 0 THEN free
      ELSE [k \in kept \cup {first} |-> IF k = first THEN length ELSE free[k]]

\* The free runs that the scan of getNewBlock stops at: none, or the first that fits.
FirstFit(free, blocks) ==
  {k \in DOMAIN free : /\ free[k] >= blocks
                       /\ \A j \in DOMAIN free : free[j] >= blocks => k <= j}

\* getNewBlock: the start of the block, and the runs and the head it leaves.
GetNewBlock(free, head, blocks) ==
  IF FirstFit(free, blocks) # {}
  THEN LET at   == CHOOSE k \in FirstFit(free, blocks) : TRUE
           rest == [k \in DOMAIN free \ {at} |-> free[k]]
       IN  [start |-> at, head |-> head,
            free  |-> MarkBlockAvailable(rest, at + blocks, free[at] - blocks)]
  ELSE [start |-> head, head |-> head + blocks, free |-> free]

-----------------------------------------------------------------------------
\* Which base blocks a run map holds, and which a block of `count` at `start` is.
InRun(b, start, count) == start <= b /\ b < start + count
IsFree(free, b) == \E k \in DOMAIN free : InRun(b, k, free[k])
RunsDisjoint(free) ==
  \A j, k \in DOMAIN free : j < k => j + free[j] <= k

=============================================================================
