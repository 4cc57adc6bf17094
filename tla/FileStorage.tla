---------------------------- MODULE FileStorage -----------------------------
(***************************************************************************)
(* The texts as they were given to the library: class FileStorage.  All of *)
(* them lie one after the other in the file file_storage_raw; the static   *)
(* dataMap says where each is and reaches the disk only when               *)
(* saveStorageMeta is called.  An object either writes a new text or reads *)
(* one that is there; several objects, each with an fstream of its own on  *)
(* the same file, live side by side.                                       *)
(*                                                                         *)
(* A text is known by its number, the order of creation; its name is that  *)
(* number and its bytes are the pairs <<number, offset>>.                  *)
(***************************************************************************)
EXTENDS StreamFile, FiniteSets

CONSTANTS
  Handles,     \* places for live objects
  Sizes,       \* sizes of texts, in bytes
  Chunk,       \* bytes asked for in one read (BYTES_BLOCK)
  StrayIds,    \* ids a caller asks for without having been given them
  CounterSpan, \* values of an unsigned short
  MaxFiles,    \* bound: texts ever created
  MaxEnds      \* bound: times the process ends and is started again

ASSUME FileAssumption ==
  /\ Sizes \subseteq Nat /\ Chunk \in Nat \ {0}
  /\ StrayIds \subseteq Nat /\ CounterSpan \in Nat \ {0}
  /\ MaxFiles \in Nat /\ MaxEnds \in Nat

VARIABLES
  instancesNumber, g_cursor, dataMap, isStorageLoaded, \* static members
  handles,     \* the live objects
  disk, meta,  \* file_storage_raw, file_storage_metadata.bin
  \* observer: the texts entered (made: the constructor returned), those of them a restart
  \* should find, those that a restart or a save damaged, how often the process has ended
  files, savedFiles, lost, ends

statics  == <<instancesNumber, g_cursor, dataMap, isStorageLoaded>>
observer == <<files, savedFiles, lost, ends>>
vars     == <<statics, handles, disk, meta, observer>>

\* DataStruct, and what dataMap[id] makes of an id that is not there.
DataStruct == [startPos : Nat, filename : 0 .. MaxFiles, filesize : Nat]
NoData     == [startPos |-> 0, filename |-> 0, filesize |-> 0]
EndPos(data) == data.startPos + data.filesize

\* What the metadata file says when there is none.
NoMeta == [cursor |-> -1, map |-> Empty]

\* The counter in an int, and in an unsigned short.
CountedWide(n) == n
Counted(n)     == n % CounterSpan

Smaller(m, n) == IF m < n THEN m ELSE n

\* The bytes of a text from an offset on.
Bytes(u, from, n) == [i \in 1 .. n |-> <<u, from + i - 1>>]

\* Without the cursor: only the map is loaded.
LoadedMapOnly ==
  IF isStorageLoaded \/ meta = NoMeta THEN [cursor |-> g_cursor, map |-> dataMap]
  ELSE [cursor |-> g_cursor, map |-> meta.map]

\* loadStorageMeta: once per process; what the statics are after it.
Loaded ==
  IF isStorageLoaded \/ meta = NoMeta THEN [cursor |-> g_cursor, map |-> dataMap] ELSE meta

\* The bytes of texts being written that are still in a buffer; the file with them.
Tails   == UNION {{<<h, a>> : a \in DOMAIN handles[h].tail} : h \in DOMAIN handles}
Written == [a \in DOMAIN disk \cup {p[2] : p \in Tails} |->
              IF \E p \in Tails : p[2] = a
              THEN LET p == CHOOSE p \in Tails : p[2] = a IN handles[p[1]].tail[a]
              ELSE disk[a]]

\* isEnd: tellg gives no position once the stream has failed.
IsEnd(r) == ~r.failed /\ r.at = EndPos(r.data)

Has(h, mode) == h \in DOMAIN handles /\ handles[h].mode = mode

\* map[key] = value.
Put(map, key, value) == [k \in DOMAIN map \cup {key} |-> IF k = key THEN value ELSE map[k]]
With(h, r)           == Put(handles, h, r)

\* A fresh object: its stream stands at `at`.
Object(mode, id, data, at) ==
  [mode |-> mode, id |-> id, data |-> data, at |-> at, failed |-> FALSE, tail |-> Empty,
   currentPosition |-> 0,
   \* observer: see ReadsOwnBytes
   whole |-> FALSE, own |-> TRUE, seen |-> 0, jumped |-> FALSE, threw |-> FALSE]

-----------------------------------------------------------------------------
Init ==
  /\ instancesNumber = 0 /\ g_cursor = 0 /\ dataMap = Empty /\ isStorageLoaded = FALSE
  /\ handles = Empty /\ disk = Empty /\ meta = NoMeta
  /\ files = << >> /\ savedFiles = << >> /\ lost = {} /\ ends = 0

\* FileStorage(filename, filesize), up to its open(): the instance is counted and the new
\* text has its entry at the cursor, whether or not the constructor gets any further.
NewId         == Cardinality(DOMAIN Loaded.map) + 1
NewData(size) == [startPos |-> Loaded.cursor, filename |-> Len(files) + 1, filesize |-> size]
Enter(size, made) ==
  /\ Len(files) < MaxFiles
  /\ isStorageLoaded' = TRUE
  /\ instancesNumber' = Counted(instancesNumber + 1)
  /\ dataMap' = Put(Loaded.map, NewId, NewData(size))
  /\ files' = Append(files, [id |-> NewId, size |-> size, written |-> 0, made |-> made])
  /\ UNCHANGED <<disk, meta, savedFiles, lost, ends>>

\* The file opens: the room at the cursor is taken.
Create(h, size) ==
  /\ h \notin DOMAIN handles
  /\ Enter(size, TRUE)
  /\ g_cursor' = EndPos(NewData(size))
  /\ handles' = With(h, Object("write", NewId, NewData(size), Loaded.cursor))

\* It does not and the constructor throws: the entry stays, the cursor does not move.
CreateThrows(size) ==
  /\ Enter(size, FALSE)
  /\ g_cursor' = Loaded.cursor
  /\ UNCHANGED handles

\* A text whose bytes are all in the file.
Complete(u) ==
  /\ u \in DOMAIN files \ lost /\ files[u].made /\ files[u].written = files[u].size
  /\ ~ \E g \in DOMAIN handles : Has(g, "write") /\ handles[g].data.filename = u

\* FileStorage(fileId): an unknown id gets an entry; the instance is not counted.
Open(h, id) ==
  LET data == IF id \in DOMAIN Loaded.map THEN Loaded.map[id] ELSE NoData
      u    == data.filename
  IN  /\ h \notin DOMAIN handles /\ id \in DOMAIN Loaded.map \cup StrayIds
      /\ isStorageLoaded' = TRUE
      /\ dataMap' = Put(Loaded.map, id, data)
      /\ g_cursor' = Loaded.cursor
      /\ handles' = With(h, [Object("read", id, data, 0) EXCEPT !.whole = Complete(u)])
      /\ UNCHANGED <<instancesNumber, disk, meta, observer>>

\* It throws over the file before it looks the id up: the statics are loaded.
OpenThrows ==
  /\ isStorageLoaded' = TRUE /\ dataMap' = Loaded.map /\ g_cursor' = Loaded.cursor
  /\ UNCHANGED <<instancesNumber, handles, disk, meta, observer>>

\* The object is destroyed: its stream is flushed and closed.
Destroy(h) ==
  /\ h \in DOMAIN handles
  /\ disk' = Over(handles[h].tail, disk)
  /\ instancesNumber' = Counted(instancesNumber - 1)
  /\ handles' = [g \in DOMAIN handles \ {h} |-> handles[g]]
  /\ UNCHANGED <<g_cursor, dataMap, isStorageLoaded, meta, observer>>

\* The next piece of the text, as long as a chunk or what is left of the size announced.
\* It stays in the buffer, or the buffer is full and goes to the file with it.
Write(h) ==
  /\ Has(h, "write")
  /\ LET r    == handles[h]
         u    == r.data.filename
         n    == Smaller(Chunk, r.data.filesize - files[u].written)
         tail == Over(Place(Bytes(u, files[u].written, n), r.at), r.tail)
     IN  /\ n > 0
         /\ \E cut \in {r.data.startPos, r.at + n} :
              /\ disk' = Over(Before(tail, cut), disk)
              /\ handles' = With(h, [r EXCEPT !.at = @ + n, !.tail = From(tail, cut)])
         /\ files' = [files EXCEPT ![u].written = @ + n]
  /\ UNCHANGED <<statics, meta, savedFiles, lost, ends>>

\* Bytes a read asks the stream for, and without regard to where the text ends.
AskedAny(data, pos) == Chunk
Asked(data, pos)    == Smaller(Chunk, data.filesize - pos)

\* The object after read(buffer, Chunk, pos): seeking and reading a failed stream does
\* nothing, and a read that meets the end of the file makes it fail.
AfterRead(r, pos) ==
  LET from == r.data.startPos + pos
      room == IF from < Length(disk) THEN Length(disk) - from ELSE 0
      n    == IF r.failed THEN 0 ELSE Smaller(Asked(r.data, pos), room)
      due  == Bytes(r.data.filename, pos, Smaller(Chunk, r.data.filesize - pos))
  IN  [r EXCEPT !.at = from + n,
                !.failed = @ \/ n < Asked(r.data, pos),
                !.own = @ /\ (r.whole => Slice(disk, from, n) = due)]

\* Where in a text a read may start.
Positions == UNION {0 .. size - 1 : size \in Sizes}

\* read(buffer, bytesToRead, startPos).  From the end on it throws and changes nothing.
ReadPart(h, pos) ==
  /\ Has(h, "read") /\ pos < handles[h].data.filesize
  /\ handles' = With(h, [AfterRead(handles[h], pos) EXCEPT !.jumped = TRUE])
  /\ UNCHANGED <<statics, disk, meta, observer>>

\* How far a sequential read moves the position: by what was asked, or by what came.
AdvanceByRead(r) == r.at - r.data.startPos
Advance(r)       == r.currentPosition + Chunk

\* read(buffer, bytesToRead) in the loop `while (!isEnd())`; a read that throws ends it.
ReadNext(h) ==
  /\ Has(h, "read") /\ ~handles[h].threw /\ ~IsEnd(handles[h])
  /\ LET r    == handles[h]
         next == AfterRead(r, r.currentPosition)
         read == next.at - (r.data.startPos + r.currentPosition)
     IN  handles' = With(h, IF r.currentPosition >= r.data.filesize
                            THEN [r EXCEPT !.threw = TRUE]
                            ELSE [next EXCEPT !.currentPosition = Advance(next),
                                              !.seen = @ + read])
  /\ UNCHANGED <<statics, disk, meta, observer>>

\* Static, and loads nothing first: a process that has made no object yet saves an empty map.
SaveStorageMeta ==
  /\ meta' = [cursor |-> g_cursor, map |-> dataMap]
  /\ savedFiles' = files
  /\ lost' = IF isStorageLoaded THEN lost ELSE DOMAIN files
  /\ UNCHANGED <<statics, handles, disk, files, ends>>

-----------------------------------------------------------------------------
\* Saved texts with saved bytes in a buffer, at addresses where it is not written out.
SavedIn(addresses) ==
  {u \in DOMAIN savedFiles :
     \E p \in Tails : /\ p[2] \in addresses
                      /\ handles[p[1]].data.filename = u
                      /\ p[2] < handles[p[1]].data.startPos + savedFiles[u].written}

\* How far the buffer of each object has reached the file.
Cuts == {cut \in [DOMAIN handles -> 0 .. g_cursor] :
           \A h \in DOMAIN handles : cut[h] \in DOMAIN handles[h].tail \cup {handles[h].at}}

\* The process ends, at any point, and the statics go with it.  Of each buffer
\* the bytes before `cut` have reached the file.
ProcessEnds ==
  \E cut \in Cuts :
    LET missed == {p \in Tails : p[2] >= cut[p[1]]}
        gone   == {p[2] : p \in missed}
    IN  /\ ends < MaxEnds
        /\ ends' = ends + 1
        /\ instancesNumber' = 0 /\ g_cursor' = 0 /\ dataMap' = Empty /\ isStorageLoaded' = FALSE
        /\ handles' = Empty
        /\ disk' = [a \in DOMAIN Written \ (gone \ DOMAIN disk) |->
                      IF a \in gone THEN disk[a] ELSE Written[a]]
        /\ lost' = lost \cup SavedIn(gone) \cup (DOMAIN files \ DOMAIN savedFiles)
        /\ files' = [u \in DOMAIN files |->
                       IF u \in DOMAIN savedFiles THEN savedFiles[u] ELSE files[u]]
        /\ UNCHANGED <<meta, savedFiles>>

Next ==
  \/ \E h \in Handles :
       \/ \E size \in Sizes : Create(h, size)
       \/ \E id \in 0 .. MaxFiles : Open(h, id)
       \/ Destroy(h)
       \/ Write(h)
       \/ \E pos \in Positions : ReadPart(h, pos)
       \/ ReadNext(h)
  \/ \E size \in Sizes : CreateThrows(size)
  \/ OpenThrows
  \/ SaveStorageMeta
  \/ ProcessEnds

\* A caller in the reading loop goes on reading.
Spec == Init /\ [][Next]_vars /\ \A h \in Handles : WF_vars(ReadNext(h))

-----------------------------------------------------------------------------
\* The variables have the types the code gives them.
IsDataMap(map) == DOMAIN map \subseteq Nat /\ map \in [DOMAIN map -> DataStruct]
Byte == (1 .. MaxFiles) \X Nat
IsFile(cells) == DOMAIN cells \subseteq Nat /\ cells \in [DOMAIN cells -> Byte \cup {Hole}]
Fields == {"mode", "id", "data", "at", "failed", "tail", "currentPosition",
           "whole", "own", "seen", "jumped", "threw"}
IsObject(r) ==
  /\ DOMAIN r = Fields
  /\ r.mode \in {"read", "write"} /\ r.id \in Nat /\ r.data \in DataStruct /\ r.at \in Nat
  /\ {r.failed, r.whole, r.own, r.jumped, r.threw} \subseteq BOOLEAN
  /\ IsFile(r.tail) /\ r.currentPosition \in Nat /\ r.seen \in Nat
Text == [id : Nat, size : Sizes, written : Nat, made : BOOLEAN]
IsFiles(seq) == seq \in Seq(Text) /\ Len(seq) <= MaxFiles
TypeOK ==
  /\ instancesNumber \in 0 .. CounterSpan - 1 /\ g_cursor \in Nat /\ IsDataMap(dataMap)
  /\ isStorageLoaded \in BOOLEAN
  /\ DOMAIN handles \subseteq Handles /\ \A h \in DOMAIN handles : IsObject(handles[h])
  /\ IsFile(disk)
  /\ meta # NoMeta => meta.cursor \in Nat /\ IsDataMap(meta.map)
  /\ IsFiles(files) /\ IsFiles(savedFiles)
  /\ lost \subseteq DOMAIN files /\ ends \in 0 .. MaxEnds

\* Every text outside `lost` keeps its entry under the id that was given out, with its
\* name and size, and every byte written to it, whoever else writes, crashes or is
\* created after it; lost are only the texts not saved when the process ended, those
\* with saved bytes in a buffer then, and all of them when a process saved before it
\* made its first object.  (Constructors, saveStorageMeta, cpp:17-32, 105-177.)
FilesKept ==
  \A u \in DOMAIN files \ lost :
    LET f == files[u]
    IN  /\ f.id \in DOMAIN Loaded.map
        /\ Loaded.map[f.id].filename = u /\ Loaded.map[f.id].filesize = f.size
        /\ Slice(Written, Loaded.map[f.id].startPos, f.written) = Bytes(u, 0, f.written)

\* No two texts share a byte of the file, and the next one starts behind them all, now
\* and after a restart; except the text whose constructor threw: it keeps an entry for
\* room it never took, in which the next text lies.  (Constructors, cpp:17-32.)
Taken(data) == data.filename = 0 \/ files[data.filename].made
RegionsOwned ==
  LET map    == Loaded.map
      owners == {i \in DOMAIN map : Taken(map[i])}
  IN  \A i \in owners :
        /\ EndPos(map[i]) <= Loaded.cursor
        /\ \A j \in owners :
             i # j => EndPos(map[i]) <= map[j].startPos \/ EndPos(map[j]) <= map[i].startPos

\* An object opened on a complete text gets that text and nothing else: every read,
\* wherever it starts, returns its bytes up to its end; the loop `while (!isEnd())`
\* has seen every byte when it ends, does not throw unless the text is empty, and
\* cannot be led into the next text by what other objects do.  (read, isEnd, cpp:61-103.)
ReadsOwnBytes ==
  \A h \in DOMAIN handles :
    LET r == handles[h]
        n == r.data.filesize
    IN  r.whole => /\ r.own /\ ~r.failed
                   /\ r.seen = Smaller(r.currentPosition, n)
                   /\ ~r.jumped /\ IsEnd(r) => r.seen = n
                   /\ ~r.jumped /\ n > 0 => ~r.threw

\* Each read of the loop moves on in the text or throws behind its end, however many bytes
\* came; and no other step, of this object or another, moves the loop back or to other bytes.
\* (read, isEnd, cpp:61-103.)
LoopMovesOn(h) ==
  LET r    == handles[h]
      next == handles'[h]
  IN  /\ next.data = r.data /\ next.currentPosition >= r.currentPosition
      /\ r.threw => next.threw
      /\ ReadNext(h) => \/ next.threw
                       \/ /\ r.currentPosition < r.data.filesize
                          /\ next.currentPosition > r.currentPosition
LoopAdvances ==
  [][\A h \in DOMAIN handles \cap DOMAIN handles' : Has(h, "read") => LoopMovesOn(h)]_vars

\* The loop `while (!isEnd()) read(buffer)` ends, even on a text that is not all there
\* and on a stream that has failed, for which isEnd never holds.
LoopEnds ==
  \A h \in Handles :
    Has(h, "read") ~> (h \in DOMAIN handles => IsEnd(handles[h]) \/ handles[h].threw)

\* "Forces saving meta data changes" (engine.h:54): a save keeps what was saved before.
SavesKeepTexts ==
  [][meta # NoMeta => \A id \in DOMAIN meta.map : id \in DOMAIN meta'.map]_meta

=============================================================================
