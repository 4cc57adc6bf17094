------------------------------ MODULE Indexer ------------------------------
(***************************************************************************)
(* The buffer of class Indexer: tokens grouped by word and text until they *)
(* are handed to the index storage as one batch.  Sizes are in units of a  *)
(* file id: 8 bytes; a TokenInfo takes two.                                *)
(***************************************************************************)
EXTENDS Integers, Sequences, FiniteSets

CONSTANT MaxBuffer  \* maxBufferSizeInBytes

ASSUME BufferAssumption == MaxBuffer \in Nat

IdSize   == 1
InfoSize == 2

NoTokens == [w \in {} |-> 0]

-----------------------------------------------------------------------------
\* A PosMap: file id -> the positions in that text.
NoPositions == [id \in {} |-> << >>]
At(posMap, id) == IF id \in DOMAIN posMap THEN posMap[id] ELSE << >>

\* mergeFilePositions, and one that forgets what was there.
MergeReplacing(old, new) ==
  [id \in DOMAIN old \cup DOMAIN new |-> IF id \in DOMAIN new THEN new[id] ELSE old[id]]
MergeFilePositions(old, new) ==
  [id \in DOMAIN old \cup DOMAIN new |-> At(old, id) \o At(new, id)]

-----------------------------------------------------------------------------
\* BigToken: its positions and the number of them.
BigToken(id, info)       == [filePositions |-> [i \in {id} |-> <<info>>], posMapSize |-> 1]
AddPosition(bt, id, info) ==
  [filePositions |-> [i \in DOMAIN bt.filePositions \cup {id} |->
                        IF i = id THEN Append(At(bt.filePositions, id), info)
                        ELSE bt.filePositions[i]],
   posMapSize    |-> bt.posMapSize + 1]

\* What a token adds to the size of the buffer; and without the file id it may bring.
GrowthBare(buffer, w, id) == IF w \in DOMAIN buffer THEN InfoSize ELSE IdSize + InfoSize
Growth(buffer, w, id) ==
  IF w \in DOMAIN buffer /\ id \in DOMAIN buffer[w].filePositions
  THEN InfoSize ELSE IdSize + InfoSize

\* addToken hands the buffer to the storage before it takes a token that does not fit.
Overflows(buffer, size, w, id) == size + Growth(buffer, w, id) > MaxBuffer

\* The buffer with a token added.
Buffered(buffer, w, id, info) ==
  [v \in DOMAIN buffer \cup {w} |->
     IF v # w THEN buffer[v]
     ELSE IF w \in DOMAIN buffer THEN AddPosition(buffer[w], id, info) ELSE BigToken(id, info)]

\* createIndex, as far as the reader of the index sees it: a word's positions grow.
Indexed(index, batch) ==
  [w \in DOMAIN index \cup DOMAIN batch |->
     LET old == IF w \in DOMAIN index THEN index[w] ELSE NoPositions
     IN  IF w \in DOMAIN batch THEN MergeFilePositions(old, batch[w].filePositions) ELSE old]

\* The positions of a word in one text.
Positions(index, w, id) == IF w \in DOMAIN index THEN At(index[w], id) ELSE << >>
Waiting(buffer, w, id)  ==
  IF w \in DOMAIN buffer THEN At(buffer[w].filePositions, id) ELSE << >>

=============================================================================
