------------------------- MODULE SingleIndexStorage -------------------------
(***************************************************************************)
(* The inverted index in a single file: class SingleIndexStorage.  Static  *)
(* maps say where the postings of each token are; the file is written      *)
(* through the buffer of one fstream; the maps reach the disk only when    *)
(* saveStorageMeta is called.  The handler createIndex is a loop over the  *)
(* tokens of a batch, and its phases (find a block, copy, append) are      *)
(* actions of their own, because the process may die between any two.      *)
(*                                                                         *)
(* Sizes and addresses are in rows, masks in base blocks (BlockAllocator). *)
(***************************************************************************)
EXTENDS BlockAllocator, StreamFile, Sequences, FiniteSets

CONSTANTS
  Tokens,
  CopyRows,    \* rows copied per iteration of copyBytes (COPY_BLOCK_SIZE)
  NoToken,
  MaxIncoming, \* bound: rows of one token in one batch
  MaxRows,     \* bound: rows of one token
  MaxEnds      \* bound: times the process ends and is started again

ASSUME StorageAssumption ==
  /\ CopyRows \in Nat \ {0}
  /\ NoToken \notin Tokens
  /\ MaxIncoming \in Nat /\ MaxRows \in Nat /\ MaxEnds \in Nat

VARIABLES
  \* static members, one copy per process
  indexMap, freeBlockPoses, currentBlockPos,
  \* the object: "down" no process, "closed" process without an open stream
  proc,
  failed,      \* the failbit of indexStream: once set, every later read and write fails
  work,        \* where createIndex stands: batch left, token in hand, block it leaves, rows copied
  \* the directory index_files
  disk,        \* index_storage.bin: address -> row
  tail,        \* rows written to indexStream and still in its buffer
  meta,        \* index_storage_metadata.bin
  \* observer: what the index should hold, what a restart should find, what
  \* a process that ended without closing may have damaged, and how often one has
  expected, savedExpected, lost, ends

statics  == <<indexMap, freeBlockPoses, currentBlockPos>>
files    == <<disk, tail, meta>>
observer == <<expected, savedExpected, lost, ends>>
vars     == <<statics, proc, failed, work, files, observer>>

\* What the metadata file says when there is none.
NoMeta  == [indexMap |-> Empty, freeBlockPoses |-> NoRuns, currentBlockPos |-> -1]
NoPos   == [blockMask |-> 0, blockStart |-> 0, bytesSize |-> 0]
Idle    == [batch |-> Empty, token |-> NoToken, old |-> NoPos, copied |-> 0]

IndexPos == [blockMask : BlockMasks \cup {0}, blockStart : Nat, bytesSize : 0 .. Span - 1]

\* Every row ever indexed is distinct: its token, its place, the process run.
Row == Tokens \X (1 .. MaxRows) \X (0 .. MaxEnds)

ASSUME NoTokenAssumption == NoToken \notin Seq(Row)

-----------------------------------------------------------------------------
\* The file as the stream sees it: its buffer over what is on the disk.
Written == Over(tail, disk)

\* The map in force: the one in memory, or the one the next process will load.
SavedMap == IF meta = NoMeta THEN Empty ELSE meta.indexMap
Map      == IF proc = "down" THEN SavedMap ELSE indexMap

\* The rows that are kept for a token: while it moves, its first ones are in the new block.
Stored(t) ==
  IF t \notin DOMAIN Map THEN << >>
  ELSE LET pos    == Map[t]
           moving == work.token = t /\ work.old # NoPos
       IN  Slice(Written, BlockToPos(pos.blockStart, 0), pos.bytesSize)
             \o IF moving
                THEN Slice(Written, BlockToPos(work.old.blockStart, 0) + work.copied,
                           work.old.bytesSize - work.copied)
                ELSE << >>

\* What getRawIndex returns for it: a stream that has failed reads nothing, so its rows are
\* never assigned, and NoToken stands for whatever they hold.
View(t) == IF failed /\ Stored(t) # << >> THEN NoToken ELSE Stored(t)

-----------------------------------------------------------------------------
Init ==
  /\ indexMap = Empty /\ freeBlockPoses = NoRuns /\ currentBlockPos = 0
  /\ proc = "down" /\ failed = FALSE /\ work = Idle
  /\ disk = Empty /\ tail = Empty /\ meta = NoMeta
  /\ expected = [t \in Tokens |-> << >>]
  /\ savedExpected = expected
  /\ lost = {} /\ ends = 0

\* A constructor without the isStorageLoaded guard, and one that does not load the
\* free runs.
ConstructReloading ==
  /\ proc \in {"down", "closed"}
  /\ proc' = "open" /\ failed' = FALSE
  /\ IF meta # NoMeta
     THEN /\ indexMap' = SavedMap
          /\ freeBlockPoses' = meta.freeBlockPoses
          /\ currentBlockPos' = meta.currentBlockPos
     ELSE UNCHANGED statics
  /\ UNCHANGED <<work, files, observer>>

ConstructWithoutRuns ==
  /\ proc \in {"down", "closed"}
  /\ proc' = "open" /\ failed' = FALSE
  /\ IF proc = "down" /\ meta # NoMeta
     THEN indexMap' = SavedMap /\ currentBlockPos' = meta.currentBlockPos
     ELSE UNCHANGED <<indexMap, currentBlockPos>>
  /\ UNCHANGED <<freeBlockPoses, work, files, observer>>

\* Constructor: the maps are loaded once per process; the stream is opened afresh.
Construct ==
  /\ proc \in {"down", "closed"}
  /\ proc' = "open" /\ failed' = FALSE
  /\ IF proc = "down" /\ meta # NoMeta
     THEN /\ indexMap' = SavedMap
          /\ freeBlockPoses' = meta.freeBlockPoses
          /\ currentBlockPos' = meta.currentBlockPos
     ELSE UNCHANGED statics
  /\ UNCHANGED <<work, files, observer>>

\* createIndex is called with a batch: token -> number of its new rows.
CreateIndex(batch) ==
  /\ proc = "open" /\ work = Idle
  /\ \A t \in DOMAIN batch : Len(expected[t]) + batch[t] <= MaxRows
  /\ work' = [Idle EXCEPT !.batch = batch]
  /\ UNCHANGED <<statics, proc, failed, files, observer>>

\* The batch is an unordered_map: its tokens come in any order.
NextOfBatch(t) == proc = "open" /\ work.token = NoToken /\ t \in DOMAIN work.batch

\* The size a token had, without the rows that come.
GrownStale(t) == indexMap[t].bytesSize

Grown(t) == (indexMap[t].bytesSize + work.batch[t]) % Span

SetPos(t, pos) ==
  indexMap' = [u \in DOMAIN indexMap \cup {t} |-> IF u = t THEN pos ELSE indexMap[u]]

\* The block the token has is of the size it needs.
KeepBlock(t) ==
  /\ NextOfBatch(t)
  /\ t \in DOMAIN indexMap
  /\ indexMap[t].blockMask = GetMask(Grown(t))
  /\ work' = [work EXCEPT !.token = t]
  /\ UNCHANGED <<statics, proc, failed, files, observer>>

\* It needs another size: its block is freed first, so the new one may overlap it.
MoveBlock(t) ==
  /\ NextOfBatch(t)
  /\ t \in DOMAIN indexMap
  /\ LET old  == indexMap[t]
         mask == GetMask(Grown(t))
         new  == GetNewBlock(MarkBlockAvailable(freeBlockPoses, old.blockStart, old.blockMask),
                             currentBlockPos, mask)
     IN  /\ old.blockMask # mask
         /\ SetPos(t, [blockMask |-> mask, blockStart |-> new.start, bytesSize |-> 0])
         /\ freeBlockPoses' = new.free /\ currentBlockPos' = new.head
         /\ work' = [work EXCEPT !.token = t, !.old = old]
  /\ UNCHANGED <<proc, failed, files, observer>>

\* A completely new token.
NewBlock(t) ==
  /\ NextOfBatch(t)
  /\ t \notin DOMAIN indexMap
  /\ LET mask == GetMask(work.batch[t] % Span)
         new  == GetNewBlock(freeBlockPoses, currentBlockPos, mask)
     IN  /\ SetPos(t, [blockMask |-> mask, blockStart |-> new.start, bytesSize |-> 0])
         /\ freeBlockPoses' = new.free /\ currentBlockPos' = new.head
  /\ work' = [work EXCEPT !.token = t]
  /\ UNCHANGED <<proc, failed, files, observer>>

\* A copy loop that moves whole chunks only.
ChunkRowsWhole == LET left == work.old.bytesSize - work.copied IN left - (left % CopyRows)

ChunkRows == LET left == work.old.bytesSize - work.copied
             IN  IF left < CopyRows THEN left ELSE CopyRows

\* One iteration of copyBytes.  A short read sets the failbit and writes nothing;
\* the sizes move on all the same.
CopyChunk ==
  LET t    == work.token
      n    == ChunkRows
      from == BlockToPos(work.old.blockStart, 0) + work.copied
      to   == BlockToPos(indexMap[t].blockStart, 0) + work.copied
      ok   == ~failed /\ Readable(Written, from, n)
  IN  /\ t # NoToken /\ work.copied < work.old.bytesSize
      /\ disk' = Written
      /\ tail' = IF ok THEN Place(Slice(Written, from, n), to) ELSE Empty
      /\ failed' = ~ok
      /\ indexMap' = [indexMap EXCEPT ![t].bytesSize = (@ + n) % Span]
      /\ work' = [work EXCEPT !.copied = @ + n]
      /\ lost' = IF ok THEN lost ELSE lost \cup {t}
      /\ UNCHANGED <<freeBlockPoses, currentBlockPos, proc, meta, expected, savedExpected, ends>>

\* updateStorageFile: the rows go to the stream's buffer; the size grows whatever happened.
AppendRows ==
  LET t    == work.token
      n    == work.batch[t]
      rows == [i \in 1 .. n |-> <<t, Len(expected[t]) + i, ends>>]
      pos  == indexMap[t]
  IN  /\ t # NoToken /\ work.copied = work.old.bytesSize
      /\ disk' = Written
      /\ tail' = IF failed THEN Empty
                 ELSE Place(rows, BlockToPos(pos.blockStart, pos.bytesSize))
      /\ indexMap' = [indexMap EXCEPT ![t].bytesSize = (@ + n) % Span]
      /\ work' = [Idle EXCEPT !.batch = [u \in DOMAIN work.batch \ {t} |-> work.batch[u]]]
      /\ expected' = [expected EXCEPT ![t] = @ \o rows]
      /\ lost' = IF failed THEN lost \cup {t} ELSE lost
      /\ UNCHANGED <<freeBlockPoses, currentBlockPos, proc, failed, meta, savedExpected, ends>>

\* Looking a token up flushes the stream, creates an entry if there is none
\* (indexMap[body]), and sets the failbit when the file ends before its rows.
GetRawIndex(t) ==
  LET pos == IF t \in DOMAIN indexMap THEN indexMap[t] ELSE NoPos
  IN  /\ proc = "open" /\ work = Idle
      /\ SetPos(t, pos)
      /\ disk' = Written /\ tail' = Empty
      /\ failed' = (failed \/ ~Readable(Written, BlockToPos(pos.blockStart, 0), pos.bytesSize))
      /\ UNCHANGED <<freeBlockPoses, currentBlockPos, proc, work, meta, observer>>

\* The maps are written; the stream of the index file is not flushed.
SaveStorageMeta ==
  /\ proc # "down" /\ work = Idle
  /\ meta' = [indexMap |-> indexMap, freeBlockPoses |-> freeBlockPoses,
              currentBlockPos |-> currentBlockPos]
  /\ savedExpected' = expected
  /\ UNCHANGED <<statics, proc, failed, work, disk, tail, expected, lost, ends>>

\* close(), or the object is destroyed: the stream is flushed and closed.
Close ==
  /\ proc = "open" /\ work = Idle
  /\ proc' = "closed" /\ failed' = FALSE
  /\ disk' = Written /\ tail' = Empty
  /\ UNCHANGED <<statics, work, meta, observer>>

-----------------------------------------------------------------------------
\* Tokens with saved postings whose saved block has been given up since the save.
Released ==
  {t \in DOMAIN SavedMap : /\ SavedMap[t].bytesSize > 0
                           /\ Map[t].blockMask # SavedMap[t].blockMask}

\* Tokens with saved postings among the buffered rows that never reach the file.
SavedIn(cells) ==
  {t \in DOMAIN SavedMap :
     LET at == BlockToPos(SavedMap[t].blockStart, 0)
     IN  cells \cap (at .. at + SavedMap[t].bytesSize - 1) # {}}

\* The process ends, at any point, and the statics go with it.  Of the
\* buffered rows those before `cut` have reached the file.
ProcessEnds ==
  \E cut \in DOMAIN tail \cup {Length(Written)} :
    /\ proc # "down" /\ ends < MaxEnds
    /\ ends' = ends + 1
    /\ proc' = "down" /\ failed' = FALSE /\ work' = Idle
    /\ indexMap' = Empty /\ freeBlockPoses' = NoRuns /\ currentBlockPos' = 0
    /\ disk' = Over(Before(tail, cut), disk)
    /\ tail' = Empty
    /\ expected' = savedExpected
    /\ lost' = lost \cup Released \cup SavedIn(DOMAIN From(tail, cut))
    /\ UNCHANGED <<meta, savedExpected>>

Batches == UNION {[S -> 1 .. MaxIncoming] : S \in SUBSET Tokens \ {{}}}

CreateIndexStep ==
  \/ \E t \in Tokens : KeepBlock(t) \/ MoveBlock(t) \/ NewBlock(t)
  \/ CopyChunk
  \/ AppendRows

Next ==
  \/ Construct
  \/ \E batch \in Batches : CreateIndex(batch)
  \/ CreateIndexStep
  \/ \E t \in Tokens : GetRawIndex(t)
  \/ SaveStorageMeta
  \/ Close
  \/ ProcessEnds

\* A thread inside createIndex keeps running until it returns or the process ends.
Spec == Init /\ [][Next]_vars /\ WF_vars(CreateIndexStep)

-----------------------------------------------------------------------------
\* The variables have the types the code gives them.
IsIndexMap(map) == DOMAIN map \subseteq Tokens /\ map \in [DOMAIN map -> IndexPos]
IsFile(cells)   == DOMAIN cells \subseteq Nat /\ cells \in [DOMAIN cells -> Row \cup {Hole}]
WorkType ==
  /\ work = [batch |-> work.batch, token |-> work.token, old |-> work.old, copied |-> work.copied]
  /\ DOMAIN work.batch \subseteq Tokens /\ work.batch \in [DOMAIN work.batch -> 1 .. MaxIncoming]
  /\ work.token \in DOMAIN work.batch \cup {NoToken}
  /\ work.old \in IndexPos /\ work.copied \in 0 .. work.old.bytesSize
TypeOK ==
  /\ IsIndexMap(indexMap) /\ IsRunMap(freeBlockPoses) /\ currentBlockPos \in Nat
  /\ proc \in {"down", "closed", "open"} /\ failed \in BOOLEAN
  /\ WorkType
  /\ IsFile(disk) /\ IsFile(tail)
  /\ meta # NoMeta => /\ IsIndexMap(meta.indexMap) /\ IsRunMap(meta.freeBlockPoses)
                      /\ meta.currentBlockPos \in Nat
  /\ expected \in [Tokens -> Seq(Row)] /\ savedExpected \in [Tokens -> Seq(Row)]
  /\ lost \subseteq Tokens /\ ends \in 0 .. MaxEnds

\* No base block below the head is lost or has two owners: it belongs either to one
\* free run or to the block of one token, through every move and reuse, and so does
\* what a restart would load.  (markBlockAvailable, getNewBlock, cpp:123-182.)
Owns(map, t, b) == InRun(b, map[t].blockStart, map[t].blockMask)
Partitioned(map, free, head) ==
  /\ RunsDisjoint(free)
  /\ \A k \in DOMAIN free : k + free[k] <= head
  /\ \A t \in DOMAIN map : map[t].blockStart + map[t].blockMask <= head
  /\ \A b \in 0 .. head - 1 :
       /\ IsFree(free, b) <=> ~ \E t \in DOMAIN map : Owns(map, t, b)
       /\ \A t, u \in DOMAIN map : Owns(map, t, b) /\ Owns(map, u, b) => t = u
BlocksPartitioned ==
  /\ Partitioned(indexMap, freeBlockPoses, currentBlockPos)
  /\ meta # NoMeta => Partitioned(meta.indexMap, meta.freeBlockPoses, meta.currentBlockPos)

\* Between the tokens of a batch, each block is of the mask its size asks for:
\* the rows of a token stay inside its block and no token keeps a block too large.
\* An entry that a lookup of an unknown token left behind owns nothing.
BlocksFit ==
  work.token = NoToken =>
    \A t \in DOMAIN indexMap :
      LET pos == indexMap[t]
      IN  IF pos.bytesSize = 0 THEN pos = NoPos ELSE pos.blockMask = GetMask(pos.bytesSize)

\* For a token outside `lost` the file keeps exactly what was indexed for it, in order, at
\* every point, also while it is being copied to a block that overlaps its old one; and
\* getRawIndex returns that, unless the stream has failed, which it does over a token of
\* `lost` only: then every token reads as garbage, until the object is closed.  A process
\* that ends without closing costs only tokens whose saved block was given up after the
\* save, whose saved rows were still buffered, or that were indexed through a stream that
\* had failed.  (createIndex, copyBytes, getRawIndex, cpp:19-100.)
DamageConfined ==
  \A t \in Tokens \ lost :
    /\ Stored(t) = expected[t]
    /\ View(t) = expected[t] \/ (failed /\ lost # {})

\* "Do not forget to save metadata" (docs/api/engine.md:83): what saveStorageMeta
\* was called for is there for the next process.
SavedIndexSurvives == \A t \in Tokens : View(t) = expected[t]

\* Without such an end of a process nothing is lost and no read runs past the file,
\* however often objects are closed and constructed again.
NothingLostInOneProcess == ends = 0 => lost = {} /\ ~failed

\* Every behaviour of the single-file storage is one the promise of IndexStorage
\* allows, reading each list from the cells of the file and of the stream's buffer, and
\* each answer through the stream as it is.
Undamaged(lists) == [t \in Tokens |-> IF t \in lost THEN NoToken ELSE lists[t]]
Promise ==
  INSTANCE IndexStorage
    WITH MaxBatch <- MaxIncoming, Damaged <- NoToken, Frail <- {}, Exposed <- {},
         postings <- Undamaged([t \in Tokens |-> Stored(t)]),
         answers  <- Undamaged([t \in Tokens |-> View(t)]),
         saved    <- Undamaged(savedExpected),
         atRisk   <- (Released \cup SavedIn(DOMAIN tail)) \ lost
KeepsPromise == Promise!Spec

\* Each step of a call of createIndex brings it nearer to its return: a token is done, or
\* taken in hand, or some of the rows it has are copied and no more than it has, also when
\* they could not be read; and nothing else touches the call.  (createIndex, copyBytes, cpp:19-82.)
NearerReturn ==
  \/ DOMAIN work'.batch \subseteq DOMAIN work.batch /\ work'.batch # work.batch
  \/ /\ work'.batch = work.batch
     /\ \/ work.token = NoToken /\ work'.token # NoToken
        \/ /\ work'.token = work.token /\ work'.old = work.old
           /\ work.copied < work'.copied /\ work'.copied <= work.old.bytesSize
CallAdvances == [][work # Idle /\ work' # Idle => NearerReturn]_vars

\* createIndex returns: every batch is worked off, whatever the copies.
CreateIndexReturns == work # Idle ~> work = Idle

=============================================================================
