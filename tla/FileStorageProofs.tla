------------------------- MODULE FileStorageProofs -------------------------
(***************************************************************************)
(* The texts of FileStorage for every set of objects, every size of text   *)
(* and of chunk and every bound: types, regions, and what a read returns   *)
(* hold whatever ids are asked for; that every text is kept under its id   *)
(* is proved for callers that ask for no ids they were not given.          *)
(*                                                                         *)
(* The argument: everything that says where a text is - the entries in     *)
(* memory, the saved ones, those in the hands of live objects - agrees on  *)
(* one region for each text that was made, apart from all others and below *)
(* the cursor.  A step writes in the region of one text only, behind what  *)
(* it has; a text whose constructor threw has none and is never written.   *)
(***************************************************************************)
EXTENDS FileStorage, StreamFileProofs

\* All records that say where a text is.
Entries ==
  {Loaded.map[i] : i \in DOMAIN Loaded.map}
    \cup (IF meta = NoMeta THEN {} ELSE {meta.map[i] : i \in DOMAIN meta.map})
    \cup {handles[h].data : h \in DOMAIN handles}

Apart(a, b) == EndPos(a) <= b.startPos \/ EndPos(b) <= a.startPos

\* One region for each text that was made, whoever knows of it; none for the text without
\* a number.
Bounded(a) ==
  /\ a.filename <= Len(files)
  /\ IF a.filename = 0 THEN a = NoData ELSE a.filesize = files[a.filename].size
  /\ Taken(a) => EndPos(a) <= Loaded.cursor
Distinct(a, b) == a.filename # b.filename /\ (Taken(a) /\ Taken(b) => Apart(a, b))
OneRegionEach ==
  /\ \A a \in Entries : Bounded(a)
  /\ \A a, b \in Entries : a = b \/ Distinct(a, b)

\* No map has two entries for a text, and what is saved lies below the saved cursor.
\* A map is finite: an id is given out by counting.
EachOnce(map) == \A i, j \in DOMAIN map : map[i].filename = map[j].filename => i = j \/ map[i].filename = 0
MapsAgree ==
  /\ EachOnce(Loaded.map) /\ IsFiniteSet(DOMAIN Loaded.map)
  /\ meta # NoMeta => /\ EachOnce(meta.map) /\ IsFiniteSet(DOMAIN meta.map)
                      /\ meta.cursor <= Loaded.cursor
                      /\ \A i \in DOMAIN meta.map :
                           Taken(meta.map[i]) => EndPos(meta.map[i]) <= meta.cursor

\* Before the first object of a process the statics are as they were initialized.
NothingBeforeLoading ==
  ~isStorageLoaded => g_cursor = 0 /\ dataMap = Empty /\ handles = Empty

\* What was saved of a text is not ahead of it.
SavesBehind ==
  /\ \A u \in DOMAIN files : /\ files[u].written <= files[u].size
                             /\ ~files[u].made => files[u].written = 0
  /\ Len(savedFiles) <= Len(files)
  /\ \A u \in DOMAIN savedFiles : /\ savedFiles[u].id = files[u].id
                                  /\ savedFiles[u].size = files[u].size
                                  /\ savedFiles[u].made = files[u].made
                                  /\ savedFiles[u].written <= files[u].written
  /\ meta = NoMeta => savedFiles = << >>

\* A text is written by one object, in order, and its buffer holds bytes of that text.
Buffers(r) ==
  LET u == r.data.filename
  IN  /\ u \in DOMAIN files \ lost /\ files[u].made
      /\ r.at = r.data.startPos + files[u].written
      /\ \A a \in DOMAIN r.tail : /\ r.data.startPos <= a /\ a < r.at
                                  /\ r.tail[a] = <<u, a - r.data.startPos>>
Writers ==
  \A h \in DOMAIN handles :
    /\ Has(h, "read")  => handles[h].tail = Empty
    /\ Has(h, "write") => Buffers(handles[h])
    /\ Has(h, "write") => \A g \in DOMAIN handles :
         Has(g, "write") /\ handles[g].data.filename = handles[h].data.filename => g = h

\* The first n bytes of text u are in a file, from an address on.
Holds(file, u, from, n) ==
  \A k \in 0 .. n - 1 : from + k \in DOMAIN file /\ file[from + k] = <<u, k>>
Content ==
  \A a \in Entries :
    a.filename \in DOMAIN files \ lost
      => Holds(Written, a.filename, a.startPos, files[a.filename].written)

\* An object opened on a complete text.
Reads(r) ==
  LET n == r.data.filesize
  IN  /\ r.mode = "read" /\ Complete(r.data.filename)
      /\ r.own /\ ~r.failed
      /\ r.seen = Smaller(r.currentPosition, n)
      /\ ~r.jumped => \/ r.at = 0 /\ r.currentPosition = 0
                      \/ r.at = r.data.startPos + Smaller(r.currentPosition, n)
      /\ ~r.jumped /\ n > 0 => ~r.threw
Readers == \A h \in DOMAIN handles : handles[h].whole => Reads(handles[h])

\* Ids are given out from one on; the map leads from them to the texts.
Leads(map, u, f) == f.id \in DOMAIN map /\ map[f.id].filename = u
Named ==
  /\ \E n \in Nat : DOMAIN Loaded.map = 1 .. n
  /\ meta # NoMeta => \E n \in Nat : DOMAIN meta.map = 1 .. n
  /\ \A u \in DOMAIN files \ lost : Leads(Loaded.map, u, files[u])
  /\ \A u \in DOMAIN savedFiles \ lost : Leads(meta.map, u, savedFiles[u])

IInv ==
  /\ TypeOK
  /\ IsFiniteSet(DOMAIN disk)
  /\ OneRegionEach
  /\ MapsAgree
  /\ NothingBeforeLoading
  /\ SavesBehind
  /\ Writers
  /\ Content
  /\ Readers
  /\ StrayIds = {} => Named


-----------------------------------------------------------------------------
\* What the types say of the maps in force and of the entries.
LEMMA LoadedType ==
  ASSUME TypeOK
  PROVE  /\ Loaded.cursor \in Nat /\ IsDataMap(Loaded.map)
         /\ \A i \in DOMAIN Loaded.map : i \in Nat /\ Loaded.map[i] \in DataStruct
         /\ meta # NoMeta => \A i \in DOMAIN meta.map : i \in Nat /\ meta.map[i] \in DataStruct
         /\ Entries \subseteq DataStruct
<1>1. Loaded.cursor \in Nat /\ IsDataMap(Loaded.map)
  BY DEF TypeOK, Loaded
<1>2. \A i \in DOMAIN Loaded.map : i \in Nat /\ Loaded.map[i] \in DataStruct
  BY <1>1 DEF IsDataMap
<1>3. meta # NoMeta => \A i \in DOMAIN meta.map : i \in Nat /\ meta.map[i] \in DataStruct
  BY DEF TypeOK, IsDataMap
<1>4. \A h \in DOMAIN handles : handles[h].data \in DataStruct
  BY DEF TypeOK, IsObject
<1> QED
  BY <1>1, <1>2, <1>3, <1>4 DEF Entries

LEMMA FilesType ==
  ASSUME NEW seq, IsFiles(seq)
  PROVE  /\ DOMAIN seq = 1 .. Len(seq) /\ Len(seq) \in 0 .. MaxFiles
         /\ \A u \in DOMAIN seq : /\ u \in 1 .. MaxFiles
                                 /\ seq[u] \in Text
                                 /\ seq[u].id \in Nat /\ seq[u].size \in Nat
                                 /\ seq[u].size \in Sizes /\ seq[u].written \in Nat
                                 /\ seq[u].made \in BOOLEAN
<1>1. seq \in Seq(Text) /\ Len(seq) <= MaxFiles /\ MaxFiles \in Nat
  BY FileAssumption DEF IsFiles
<1>2. \A f \in Text : /\ f.id \in Nat /\ f.size \in Nat /\ f.size \in Sizes /\ f.written \in Nat
                     /\ f.made \in BOOLEAN
  BY FileAssumption DEF Text
<1>3. DOMAIN seq = 1 .. Len(seq) /\ Len(seq) \in 0 .. MaxFiles
  BY <1>1
<1>4. \A u \in DOMAIN seq : u \in 1 .. MaxFiles /\ seq[u] \in Text
  BY <1>1, <1>3
<1>5. \A u \in DOMAIN seq : /\ seq[u].id \in Nat /\ seq[u].size \in Nat
                           /\ seq[u].size \in Sizes /\ seq[u].written \in Nat
                           /\ seq[u].made \in BOOLEAN
  BY <1>2, <1>4
<1> QED
  BY <1>3, <1>4, <1>5

LEMMA EmptyTypes == IsDataMap(Empty) /\ IsFile(Empty) /\ DOMAIN Empty = {} /\ NoData \in DataStruct
BY FileAssumption DEF IsDataMap, IsFile, Empty, NoData, DataStruct

\* A file that the buffers lie over.
TailsOf(hs) == UNION {{<<h, a>> : a \in DOMAIN hs[h].tail} : h \in DOMAIN hs}
FileOf(hs, dk) ==
  [a \in DOMAIN dk \cup {p[2] : p \in TailsOf(hs)} |->
     IF \E p \in TailsOf(hs) : p[2] = a
     THEN LET p == CHOOSE p \in TailsOf(hs) : p[2] = a IN hs[p[1]].tail[a]
     ELSE dk[a]]

LEMMA WrittenIsFileOf == Written = FileOf(handles, disk) /\ Tails = TailsOf(handles)
BY DEF Written, Tails, FileOf, TailsOf

\* No byte of the file is in two buffers.
OneBuffer(hs) ==
  \A g, h \in DOMAIN hs : \A a \in DOMAIN hs[g].tail : a \in DOMAIN hs[h].tail => g = h

LEMMA FileCells ==
  ASSUME NEW hs, NEW dk, OneBuffer(hs)
  PROVE  /\ \A a : a \in DOMAIN FileOf(hs, dk) <=> \/ a \in DOMAIN dk
                                                   \/ \E h \in DOMAIN hs : a \in DOMAIN hs[h].tail
         /\ \A h \in DOMAIN hs : \A a \in DOMAIN hs[h].tail : FileOf(hs, dk)[a] = hs[h].tail[a]
         /\ \A a \in DOMAIN dk : (\A h \in DOMAIN hs : a \notin DOMAIN hs[h].tail)
                                   => FileOf(hs, dk)[a] = dk[a]
<1>2. \A p \in TailsOf(hs) : p[1] \in DOMAIN hs /\ p[2] \in DOMAIN hs[p[1]].tail
  BY DEF TailsOf
<1>0. \A h \in DOMAIN hs : \A a \in DOMAIN hs[h].tail : <<h, a>> \in TailsOf(hs)
  BY DEF TailsOf
<1>1. ASSUME NEW a
      PROVE  (\E p \in TailsOf(hs) : p[2] = a) <=> \E h \in DOMAIN hs : a \in DOMAIN hs[h].tail
  <2>1. ASSUME NEW h \in DOMAIN hs, a \in DOMAIN hs[h].tail PROVE \E p \in TailsOf(hs) : p[2] = a
    BY <1>0, <2>1
  <2> QED
    BY <1>2, <2>1
<1>3. \A a : a \in DOMAIN FileOf(hs, dk) <=> \/ a \in DOMAIN dk
                                             \/ \E h \in DOMAIN hs : a \in DOMAIN hs[h].tail
  BY <1>1 DEF FileOf
<1>4. ASSUME NEW h \in DOMAIN hs, NEW a \in DOMAIN hs[h].tail
      PROVE  FileOf(hs, dk)[a] = hs[h].tail[a]
  <2> DEFINE p == CHOOSE p \in TailsOf(hs) : p[2] = a
  <2>1. \E q \in TailsOf(hs) : q[2] = a
    BY <1>1
  <2>2. p \in TailsOf(hs) /\ p[2] = a
    BY <2>1
  <2>3. p[1] = h
    BY <1>2, <2>2 DEF OneBuffer
  <2>4. a \in DOMAIN FileOf(hs, dk)
    BY <1>3
  <2>5. FileOf(hs, dk)[a] = hs[p[1]].tail[a]
    BY <2>1, <2>4 DEF FileOf
  <2> QED
    BY <2>3, <2>5
<1>5. ASSUME NEW a \in DOMAIN dk, \A h \in DOMAIN hs : a \notin DOMAIN hs[h].tail
      PROVE  FileOf(hs, dk)[a] = dk[a]
  BY <1>1, <1>5 DEF FileOf
<1> QED
  BY <1>3, <1>4, <1>5

\* Files whose cells agree at the places of a text hold the same bytes of it.
LEMMA HoldsStay ==
  ASSUME NEW old, NEW new, NEW u, NEW from \in Nat, NEW n \in Nat, Holds(old, u, from, n),
         \A a \in Nat : from <= a /\ a < from + n /\ a \in DOMAIN old
                          => a \in DOMAIN new /\ new[a] = old[a]
  PROVE  Holds(new, u, from, n)
<1> SUFFICES ASSUME NEW k \in 0 .. n - 1
             PROVE  from + k \in DOMAIN new /\ new[from + k] = <<u, k>>
  BY DEF Holds
<1>1. from + k \in Nat /\ from <= from + k /\ from + k < from + n
  OBVIOUS
<1>2. from + k \in DOMAIN old /\ old[from + k] = <<u, k>>
  BY DEF Holds
<1> QED
  BY <1>1, <1>2

-----------------------------------------------------------------------------
\* Where a buffered byte lies: in the region of the text that its object writes.
LEMMA BufferedByte ==
  ASSUME IInv, NEW h \in DOMAIN handles, NEW a \in DOMAIN handles[h].tail
  PROVE  LET d == handles[h].data
         IN  /\ Has(h, "write") /\ a \in Nat /\ d \in Entries /\ d \in DataStruct
             /\ d.filename \in DOMAIN files \ lost /\ d.filename # 0 /\ Taken(d)
             /\ d.startPos <= a /\ a < EndPos(d)
             /\ a < d.startPos + files[d.filename].written
             /\ handles[h].tail[a] = <<d.filename, a - d.startPos>>
<1> DEFINE r == handles[h]
           d == r.data
<1>1. IsObject(r) /\ h \in Handles
  BY DEF IInv, TypeOK
<1>2. a \in Nat
  BY <1>1 DEF IsObject, IsFile
<1>3. Has(h, "write")
  <2>1. r.tail # Empty
    BY EmptyTypes
  <2> QED
    BY <1>1, <2>1 DEF IInv, Writers, Has, IsObject
<1>4. Buffers(r)
  BY <1>3 DEF IInv, Writers
<1>5. d \in Entries /\ d \in DataStruct
  BY <1>1 DEF Entries, IsObject
<1>6. d.filename \in DOMAIN files \ lost /\ d.filename # 0 /\ Taken(d)
  BY <1>4 DEF Buffers, Taken, IInv, TypeOK, IsFiles
<1>7. files[d.filename].written <= d.filesize /\ files[d.filename].written \in Nat
  <2>1. files[d.filename].written \in Nat
    BY <1>6, FilesType DEF IInv, TypeOK
  <2>2. files[d.filename].written <= files[d.filename].size
    BY <1>6 DEF IInv, SavesBehind
  <2>3. files[d.filename].size = d.filesize
    BY <1>5, <1>6 DEF IInv, OneRegionEach, Bounded
  <2> QED
    BY <2>1, <2>2, <2>3
<1>8. /\ d.startPos <= a /\ a < d.startPos + files[d.filename].written
      /\ r.tail[a] = <<d.filename, a - d.startPos>>
  BY <1>4 DEF Buffers
<1>9. a < EndPos(d)
  BY <1>2, <1>5, <1>7, <1>8 DEF EndPos, DataStruct
<1> QED
  BY <1>2, <1>3, <1>5, <1>6, <1>8, <1>9

\* An address in a region is in no other, of texts that were made.
LEMMA OwnAddress ==
  ASSUME IInv, NEW d \in Entries, NEW e \in Entries, NEW a \in Nat,
         Taken(d), Taken(e), d.startPos <= a, a < EndPos(d), e.startPos <= a, a < EndPos(e)
  PROVE  d = e
<1>1. d \in DataStruct /\ e \in DataStruct
  BY LoadedType DEF IInv
<1>2. ~ Apart(d, e)
  BY <1>1 DEF Apart, EndPos, DataStruct
<1> QED
  BY <1>2 DEF IInv, OneRegionEach, Distinct

LEMMA BuffersApart ==
  ASSUME IInv
  PROVE  OneBuffer(handles)
<1> SUFFICES ASSUME NEW g \in DOMAIN handles, NEW h \in DOMAIN handles,
                    NEW a \in DOMAIN handles[g].tail, a \in DOMAIN handles[h].tail
             PROVE  g = h
  BY DEF OneBuffer
<1>1. handles[g].data = handles[h].data /\ Has(g, "write") /\ Has(h, "write")
  BY BufferedByte, OwnAddress
<1> QED
  BY <1>1 DEF IInv, Writers

\* What a file with its buffers holds at an address.
LEMMA WrittenCells ==
  ASSUME IInv
  PROVE  /\ \A a : a \in DOMAIN Written <=> \/ a \in DOMAIN disk
                                            \/ \E h \in DOMAIN handles : a \in DOMAIN handles[h].tail
         /\ \A h \in DOMAIN handles : \A a \in DOMAIN handles[h].tail : Written[a] = handles[h].tail[a]
         /\ \A a \in DOMAIN disk : (\A h \in DOMAIN handles : a \notin DOMAIN handles[h].tail)
                                     => Written[a] = disk[a]
         /\ DOMAIN Written \subseteq Nat
<1>1. DOMAIN disk \subseteq Nat
  BY DEF IInv, TypeOK, IsFile
<1> QED
  BY <1>1, BuffersApart, FileCells, WrittenIsFileOf, BufferedByte

-----------------------------------------------------------------------------
LEMMA InitIInv == Init => IInv
<1> SUFFICES ASSUME Init PROVE IInv
  OBVIOUS
<1> USE DEF Init
<1>1. Loaded = [cursor |-> 0, map |-> Empty] /\ Entries = {}
  BY EmptyTypes DEF Loaded, Entries
<1>2. TypeOK
  <2>1. IsFiles(<< >>)
    BY FileAssumption DEF IsFiles
  <2>2. 0 \in 0 .. CounterSpan - 1 /\ 0 \in 0 .. MaxEnds
    BY FileAssumption
  <2> QED
    BY <2>1, <2>2, EmptyTypes DEF TypeOK
<1>3. IsFiniteSet(DOMAIN disk)
  BY EmptyTypes, FS_EmptySet
<1>4. OneRegionEach /\ MapsAgree /\ NothingBeforeLoading /\ SavesBehind
  BY <1>1, EmptyTypes, FS_EmptySet DEF OneRegionEach, MapsAgree, EachOnce, NothingBeforeLoading, SavesBehind
<1>5. Writers /\ Content /\ Readers
  BY <1>1, EmptyTypes DEF Writers, Content, Readers
<1>6. Named
  <2>1. DOMAIN Loaded.map = 1 .. 0
    BY <1>1, EmptyTypes
  <2> QED
    BY <2>1 DEF Named
<1> QED
  BY <1>2, <1>3, <1>4, <1>5, <1>6 DEF IInv

-----------------------------------------------------------------------------
\* Steps that leave the maps alone.
LEMMA TakenStays ==
  ASSUME IInv, \A u \in DOMAIN files : files'[u].made = files[u].made, NEW a \in Entries
  PROVE  a.filename # 0 => a.filename \in DOMAIN files /\ files'[a.filename].made = files[a.filename].made
<1>1. a.filename \in Nat /\ a.filename <= Len(files)
  BY LoadedType DEF IInv, OneRegionEach, Bounded, DataStruct
<1>2. DOMAIN files = 1 .. Len(files) /\ Len(files) \in Nat
  BY FilesType DEF IInv, TypeOK
<1> QED
  BY <1>1, <1>2

LEMMA MapsStay ==
  ASSUME IInv, UNCHANGED <<g_cursor, dataMap, isStorageLoaded, meta>>,
         \A u \in DOMAIN files : files'[u].made = files[u].made
  PROVE  Loaded' = Loaded /\ MapsAgree'
<1>1. Loaded' = Loaded
  BY DEF Loaded
<1>2. \A i \in DOMAIN meta.map : meta # NoMeta => (Taken(meta.map[i])' <=> Taken(meta.map[i]))
  BY TakenStays DEF Entries, Taken
<1> QED
  BY <1>1, <1>2 DEF IInv, MapsAgree, EachOnce

LEMMA RegionsStay ==
  ASSUME IInv, Entries' \subseteq Entries, Loaded'.cursor = Loaded.cursor,
         Len(files') = Len(files),
         \A u \in DOMAIN files : files'[u].size = files[u].size /\ files'[u].made = files[u].made
  PROVE  OneRegionEach'
<1>1. \A a \in Entries : a.filename # 0 =>
        /\ a.filename \in DOMAIN files
        /\ files'[a.filename].size = files[a.filename].size
        /\ files'[a.filename].made = files[a.filename].made
  BY TakenStays
<1>2. \A a \in Entries : Bounded(a)' /\ (Taken(a)' <=> Taken(a))
  BY <1>1 DEF IInv, OneRegionEach, Bounded, Taken, EndPos, NoData
<1> QED
  BY <1>2 DEF IInv, OneRegionEach, Distinct, Apart, EndPos

\* An address keeps its byte when the buffer or the file that has it does, or when the
\* buffer hands it to the file.
LEMMA CellsStay ==
  ASSUME IInv, OneBuffer(handles'), NEW a \in DOMAIN Written,
         \A h \in DOMAIN handles : a \in DOMAIN handles[h].tail =>
           \/ /\ h \in DOMAIN handles' /\ a \in DOMAIN handles'[h].tail
              /\ handles'[h].tail[a] = handles[h].tail[a]
           \/ /\ a \in DOMAIN disk' /\ disk'[a] = handles[h].tail[a]
              /\ \A g \in DOMAIN handles' : a \notin DOMAIN handles'[g].tail,
         (\A h \in DOMAIN handles : a \notin DOMAIN handles[h].tail) =>
           /\ a \in DOMAIN disk' /\ disk'[a] = disk[a]
           /\ \A g \in DOMAIN handles' : a \notin DOMAIN handles'[g].tail
  PROVE  a \in DOMAIN Written' /\ Written'[a] = Written[a]
<1>1. Written' = FileOf(handles', disk')
  BY DEF Written, Tails, FileOf, TailsOf
<1>2. /\ a \in DOMAIN Written' <=> a \in DOMAIN disk' \/ \E h \in DOMAIN handles' : a \in DOMAIN handles'[h].tail
      /\ \A h \in DOMAIN handles' : a \in DOMAIN handles'[h].tail => Written'[a] = handles'[h].tail[a]
      /\ a \in DOMAIN disk' /\ (\A h \in DOMAIN handles' : a \notin DOMAIN handles'[h].tail)
           => Written'[a] = disk'[a]
  BY <1>1, FileCells
<1>3. CASE \E h \in DOMAIN handles : a \in DOMAIN handles[h].tail
  BY <1>2, <1>3, WrittenCells
<1>4. CASE \A h \in DOMAIN handles : a \notin DOMAIN handles[h].tail
  BY <1>2, <1>4, WrittenCells
<1> QED
  BY <1>3, <1>4

\* An entry with its text keeps the bytes of it.
LEMMA EntryKept ==
  ASSUME IInv, NEW d \in Entries, d.filename \in DOMAIN files \ lost,
         Taken(d) => \A a \in DOMAIN Written :
                       d.startPos <= a /\ a < EndPos(d)
                         => a \in DOMAIN Written' /\ Written'[a] = Written[a]
  PROVE  Holds(Written', d.filename, d.startPos, files[d.filename].written)
<1>1. d.startPos \in Nat /\ d.filename # 0
  BY LoadedType, FilesType DEF IInv, DataStruct, TypeOK
<1>2. files[d.filename].written \in Nat /\ files[d.filename].written <= d.filesize /\ d.filesize \in Nat
  BY <1>1, FilesType DEF IInv, OneRegionEach, Bounded, SavesBehind, TypeOK
<1>3. Holds(Written, d.filename, d.startPos, files[d.filename].written)
  BY DEF IInv, Content
<1>4. \A a \in Nat : d.startPos <= a /\ a < d.startPos + files[d.filename].written => a < EndPos(d)
  BY <1>1, <1>2 DEF EndPos
<1>5. CASE Taken(d)
  BY <1>1, <1>2, <1>3, <1>4, <1>5, HoldsStay
<1>6. CASE ~Taken(d)
  <2>1. files[d.filename].written = 0
    BY <1>6 DEF Taken, IInv, SavesBehind
  <2> QED
    BY <2>1 DEF Holds
<1> QED
  BY <1>5, <1>6

\* What a reading step may do with its object: read on, and stay right if it was.
ReadsOn(r) ==
  LET n == r.data.filesize
  IN  /\ r.own /\ ~r.failed
      /\ r.seen = Smaller(r.currentPosition, n)
      /\ ~r.jumped => \/ r.at = 0 /\ r.currentPosition = 0
                      \/ r.at = r.data.startPos + Smaller(r.currentPosition, n)
      /\ ~r.jumped /\ n > 0 => ~r.threw

LEMMA ReaderMoves ==
  ASSUME IInv, NEW h, Has(h, "read"), NEW r, IsObject(r),
         r.mode = "read", r.data = handles[h].data, r.tail = Empty, r.whole = handles[h].whole,
         handles' = With(h, r), UNCHANGED <<statics, disk, meta, observer>>,
         r.whole => ReadsOn(r)
  PROVE  IInv'
<1> USE DEF statics, observer
<1>1. /\ h \in DOMAIN handles /\ DOMAIN handles' = DOMAIN handles /\ handles'[h] = r
      /\ \A g \in DOMAIN handles : g # h => handles'[g] = handles[g]
      /\ handles[h].mode = "read" /\ handles[h].tail = Empty
  BY DEF Has, With, Put, IInv, Writers
<1>2. TypeOK'
  BY <1>1 DEF IInv, TypeOK, IsDataMap, IsFile, IsFiles
<1>3. Loaded' = Loaded /\ MapsAgree'
  BY MapsStay
<1>4. Entries' = Entries
  <2>1. \A g \in DOMAIN handles : handles'[g].data = handles[g].data
    BY <1>1
  <2> QED
    BY <1>1, <1>3, <2>1 DEF Entries
<1>5. OneRegionEach'
  BY <1>3, <1>4, RegionsStay
<1>6. NothingBeforeLoading'
  <2>1. isStorageLoaded
    BY <1>1, EmptyTypes DEF IInv, NothingBeforeLoading
  <2> QED
    BY <2>1 DEF NothingBeforeLoading
<1>7. SavesBehind'
  BY DEF IInv, SavesBehind
<1>8. \A g \in DOMAIN handles : /\ handles'[g].tail = handles[g].tail
                                /\ handles'[g].mode = handles[g].mode
                                /\ handles'[g].data = handles[g].data
  BY <1>1
<1>9. Writers'
  <2>1. \A g : \A m \in {"read", "write"} : Has(g, m)' <=> Has(g, m)
    BY <1>1, <1>8 DEF Has
  <2>2. \A g \in DOMAIN handles : Has(g, "write") => handles'[g] = handles[g]
    BY <1>1 DEF Has
  <2>3. ASSUME NEW g \in DOMAIN handles, Has(g, "write") PROVE Buffers(handles[g])'
    <3>1. Buffers(handles[g])
      BY <2>3 DEF IInv, Writers
    <3> QED
      BY <2>2, <2>3, <3>1 DEF Buffers
  <2> QED
    BY <1>1, <1>8, <2>1, <2>3 DEF IInv, Writers
<1>10. Written' = Written
  <2>1. Tails' = Tails
    BY <1>1, <1>8 DEF Tails
  <2>2. \A p \in Tails : handles'[p[1]].tail = handles[p[1]].tail
    BY <1>8 DEF Tails
  <2>3. \A p \in Tails : TRUE => handles'[p[1]].tail[p[2]] = handles[p[1]].tail[p[2]]
    BY <2>2
  <2>4. OneBuffer(handles')
    BY <1>1, <1>8, BuffersApart DEF OneBuffer
  <2>5. DOMAIN Written' = DOMAIN Written
    BY <2>1 DEF Written
  <2>6. ASSUME NEW a \in DOMAIN Written PROVE Written'[a] = Written[a]
    <3>1. \A g \in DOMAIN handles : a \in DOMAIN handles[g].tail =>
            /\ g \in DOMAIN handles' /\ a \in DOMAIN handles'[g].tail
            /\ handles'[g].tail[a] = handles[g].tail[a]
      BY <1>1, <1>8
    <3>2. (\A g \in DOMAIN handles : a \notin DOMAIN handles[g].tail) =>
            /\ a \in DOMAIN disk' /\ disk'[a] = disk[a]
            /\ \A g \in DOMAIN handles' : a \notin DOMAIN handles'[g].tail
      BY <1>1, <1>8, WrittenCells
    <3> QED
      BY <2>4, <3>1, <3>2, CellsStay
  <2>7. Written = [a \in DOMAIN Written |-> Written[a]] /\ Written' = [a \in DOMAIN Written' |-> Written'[a]]
    BY DEF Written
  <2> QED
    BY <2>5, <2>6, <2>7
<1>11. Content'
  BY <1>4, <1>10 DEF IInv, Content
<1>12. Readers'
  <2>1. \A u : Complete(u)' <=> Complete(u)
    BY <1>1, <1>8 DEF Complete, Has
  <2>2. ASSUME NEW g \in DOMAIN handles, g # h, handles[g].whole PROVE Reads(handles[g])'
    <3>1. handles'[g] = handles[g] /\ Reads(handles[g])
      BY <1>1, <2>2 DEF IInv, Readers
    <3> QED
      BY <2>1, <3>1 DEF Reads
  <2>3. ASSUME r.whole PROVE Reads(r)'
    <3>1. Complete(r.data.filename)
      BY <1>1, <2>3 DEF IInv, Readers, Reads
    <3>2. Complete(r.data.filename)'
      BY <2>1, <3>1
    <3> QED
      BY <2>3, <3>2 DEF Reads, ReadsOn
  <2> QED
    BY <1>1, <2>2, <2>3 DEF Readers
<1>13. StrayIds = {} => Named'
  BY <1>3 DEF IInv, Named, Leads
<1>14. IsFiniteSet(DOMAIN disk)'
  BY DEF IInv
<1> QED
  BY <1>2, <1>3, <1>5, <1>6, <1>7, <1>9, <1>11, <1>12, <1>13, <1>14 DEF IInv

-----------------------------------------------------------------------------
\* A complete text is on the disk, whatever is in buffers.
LEMMA WholeOnDisk ==
  ASSUME IInv, NEW h \in DOMAIN handles, handles[h].whole
  PROVE  LET d == handles[h].data
         IN  /\ d \in Entries /\ d \in DataStruct /\ d.filename \in DOMAIN files \ lost
             /\ Holds(disk, d.filename, d.startPos, d.filesize)
<1> DEFINE d == handles[h].data
           u == d.filename
<1>1. /\ Complete(u) /\ u \in DOMAIN files \ lost /\ files[u].made /\ files[u].written = files[u].size /\ u # 0
  BY FilesType DEF IInv, Readers, Reads, Complete, TypeOK
<1>2. d \in Entries /\ d \in DataStruct
  BY LoadedType DEF Entries, IInv
<1>7. Taken(d)
  BY <1>1 DEF Taken
<1>3. d.filesize = files[u].size /\ d.startPos \in Nat /\ d.filesize \in Nat
  BY <1>1, <1>2 DEF IInv, OneRegionEach, Bounded, DataStruct
<1>4. Holds(Written, u, d.startPos, d.filesize)
  BY <1>1, <1>2, <1>3 DEF IInv, Content
<1>5. ASSUME NEW a \in Nat, d.startPos <= a, a < d.startPos + d.filesize, a \in DOMAIN Written
      PROVE  a \in DOMAIN disk /\ disk[a] = Written[a]
  <2>1. ASSUME NEW g \in DOMAIN handles, a \in DOMAIN handles[g].tail PROVE FALSE
    <3>1. Has(g, "write") /\ handles[g].data = d
      BY <1>2, <1>5, <1>7, <2>1, BufferedByte, OwnAddress DEF EndPos
    <3> QED
      BY <1>1, <3>1 DEF Complete
  <2> QED
    BY <1>5, <2>1, WrittenCells
<1>6. Holds(disk, u, d.startPos, d.filesize)
  BY <1>3, <1>4, <1>5, HoldsStay
<1> QED
  BY <1>1, <1>2, <1>6

\* Two objects that differ at most in what a read of the stream changes.
SameButRead(new, r) ==
  DOMAIN new = Fields /\ \A x \in Fields \ {"at", "failed", "own"} : new[x] = r[x]

\* The object after a read; of a complete text the read returns all it asked for.
LEMMA AfterReadFacts ==
  ASSUME IInv, NEW h, Has(h, "read"), NEW pos \in Nat, pos < handles[h].data.filesize
  PROVE  LET r    == handles[h]
             next == AfterRead(r, pos)
         IN  /\ SameButRead(next, r)
             /\ next.at \in Nat /\ next.at >= r.data.startPos + pos
             /\ next.failed \in BOOLEAN /\ next.own \in BOOLEAN
             /\ r.whole => /\ ~next.failed /\ next.own
                           /\ next.at = r.data.startPos + pos + Smaller(Chunk, r.data.filesize - pos)
<1> DEFINE r    == handles[h]
           d    == r.data
           next == AfterRead(r, pos)
           from == d.startPos + pos
           room == IF from < Length(disk) THEN Length(disk) - from ELSE 0
           n    == IF r.failed THEN 0 ELSE Smaller(Asked(d, pos), room)
           due  == Bytes(d.filename, pos, Smaller(Chunk, d.filesize - pos))
<1>1. h \in DOMAIN handles /\ IsObject(r) /\ d \in DataStruct
  BY DEF Has, IInv, TypeOK, IsObject
<1>2. d.startPos \in Nat /\ d.filesize \in Nat /\ from \in Nat
  BY <1>1 DEF DataStruct
<1>3. Length(disk) \in Nat /\ room \in Nat /\ \A a \in DOMAIN disk : a < Length(disk)
  BY <1>2, LengthPast DEF IInv, TypeOK, IsFile
<1>4. Asked(d, pos) = Smaller(Chunk, d.filesize - pos) /\ Asked(d, pos) \in Nat \ {0}
  BY <1>2, FileAssumption DEF Asked, Smaller
<1>5. n \in Nat
  BY <1>3, <1>4 DEF Smaller
<1>6. r.failed \in BOOLEAN /\ r.own \in BOOLEAN
  BY <1>1 DEF IsObject
<1>7. next = [r EXCEPT !.at = from + n, !.failed = @ \/ n < Asked(d, pos),
                       !.own = @ /\ (r.whole => Slice(disk, from, n) = due)]
  BY DEF AfterRead
<1> HIDE DEF next, n, due, room
<1>8. DOMAIN r = Fields
  BY <1>1 DEF IsObject, Fields
<1>9. /\ next.at = from + n /\ next.failed = (r.failed \/ n < Asked(d, pos))
      /\ next.own = (r.own /\ (r.whole => Slice(disk, from, n) = due))
      /\ SameButRead(next, r)
  BY <1>7, <1>8 DEF Fields, SameButRead
<1>10. ASSUME r.whole
       PROVE  n = Asked(d, pos) /\ Slice(disk, from, n) = due /\ ~r.failed /\ r.own
  <2>1. Holds(disk, d.filename, d.startPos, d.filesize)
    BY <1>1, <1>10, WholeOnDisk
  <2>2. ~r.failed /\ r.own
    BY <1>1, <1>10 DEF IInv, Readers, Reads
  <2>3. d.startPos + d.filesize <= Length(disk)
    <3>1. d.filesize - 1 \in 0 .. d.filesize - 1
      BY <1>2
    <3>2. d.startPos + (d.filesize - 1) \in DOMAIN disk
      BY <2>1, <3>1 DEF Holds
    <3> QED
      BY <1>2, <1>3, <3>2
  <2>4. room >= d.filesize - pos
    BY <1>2, <1>3, <2>3 DEF room
  <2>5. n = Asked(d, pos)
    BY <1>2, <1>3, <1>4, <2>2, <2>4, FileAssumption DEF n, Smaller
  <2>6. ASSUME NEW i \in 1 .. n PROVE Cell(disk, from + i - 1) = <<d.filename, pos + i - 1>>
    <3>1. pos + i - 1 \in 0 .. d.filesize - 1
      BY <1>2, <1>4, <2>5, FileAssumption DEF Smaller
    <3>2. d.startPos + (pos + i - 1) \in DOMAIN disk
          /\ disk[d.startPos + (pos + i - 1)] = <<d.filename, pos + i - 1>>
      BY <2>1, <3>1 DEF Holds
    <3>3. d.startPos + (pos + i - 1) = from + i - 1
      BY <1>2
    <3> QED
      BY <3>2, <3>3 DEF Cell
  <2>7. Slice(disk, from, n) = due
    BY <1>4, <2>5, <2>6 DEF Slice, Bytes, due
  <2> QED
    BY <2>2, <2>5, <2>7
<1>11. next.at \in Nat /\ next.at >= from
  BY <1>2, <1>5, <1>9
<1>12. next.failed \in BOOLEAN /\ next.own \in BOOLEAN
  BY <1>6, <1>9
<1>13. ASSUME r.whole
       PROVE  ~next.failed /\ next.own /\ next.at = from + Smaller(Chunk, d.filesize - pos)
  <2>1. ~(n < Asked(d, pos))
    BY <1>4, <1>5, <1>10, <1>13
  <2>2. ~next.failed /\ next.own
    BY <1>6, <1>9, <1>10, <1>12, <1>13, <2>1
  <2>3. next.at = from + Smaller(Chunk, d.filesize - pos)
    BY <1>4, <1>9, <1>10, <1>13
  <2> QED
    BY <2>2, <2>3
<1> QED
  BY <1>9, <1>11, <1>12, <1>13 DEF next

\* An object that is being read, and the facts a reading step starts from.
LEMMA ReaderFacts ==
  ASSUME IInv, NEW h, Has(h, "read")
  PROVE  LET r == handles[h]
         IN  /\ IsObject(r) /\ r.mode = "read" /\ r.tail = Empty
             /\ r.data.filesize \in Nat /\ r.data.startPos \in Nat
             /\ r.currentPosition \in Nat /\ r.seen \in Nat /\ r.at \in Nat
             /\ r.whole => ReadsOn(r)
BY DEF Has, IInv, TypeOK, Writers, Readers, Reads, ReadsOn, IsObject, DataStruct

LEMMA ReadPartKeeps ==
  ASSUME IInv, NEW h, NEW pos \in Nat, ReadPart(h, pos)
  PROVE  IInv'
<1> DEFINE r    == handles[h]
           next == AfterRead(r, pos)
           new  == [next EXCEPT !.jumped = TRUE]
<1>1. /\ Has(h, "read") /\ pos < r.data.filesize
      /\ handles' = With(h, new) /\ UNCHANGED <<statics, disk, meta, observer>>
  BY DEF ReadPart
<1>2. /\ SameButRead(next, r)
      /\ next.at \in Nat /\ next.failed \in BOOLEAN /\ next.own \in BOOLEAN
      /\ r.whole => ~next.failed /\ next.own
  BY <1>1, AfterReadFacts
<1>3. /\ IsObject(r) /\ r.mode = "read" /\ r.tail = Empty
      /\ r.whole => ReadsOn(r)
  BY <1>1, ReaderFacts
<1> HIDE DEF next
<1>4. /\ DOMAIN new = Fields
      /\ new.at = next.at /\ new.failed = next.failed /\ new.own = next.own /\ new.jumped = TRUE
      /\ \A x \in {"mode", "id", "data", "tail", "currentPosition", "whole", "seen", "threw"} : new[x] = r[x]
  BY <1>2, <1>3 DEF SameButRead, Fields, IsObject
<1> HIDE DEF new
<1>5. IsObject(new)
  BY <1>2, <1>3, <1>4 DEF IsObject
<1>6. /\ new.mode = "read" /\ new.data = handles[h].data /\ new.tail = Empty
      /\ new.whole = handles[h].whole
  BY <1>3, <1>4
<1>7. new.whole => ReadsOn(new)
  BY <1>2, <1>3, <1>4 DEF ReadsOn
<1> QED
  BY <1>1, <1>5, <1>6, <1>7, ReaderMoves

LEMMA ReadNextKeeps ==
  ASSUME IInv, NEW h, ReadNext(h)
  PROVE  IInv'
<1> DEFINE r    == handles[h]
           cp   == r.currentPosition
           next == AfterRead(r, cp)
           read == next.at - (r.data.startPos + cp)
           size == r.data.filesize
<1>1. Has(h, "read") /\ ~r.threw /\ ~IsEnd(r)
  BY DEF ReadNext
<1>2. handles' = With(h, IF cp >= size
                         THEN [r EXCEPT !.threw = TRUE]
                         ELSE [next EXCEPT !.currentPosition = Advance(next), !.seen = @ + read])
  BY DEF ReadNext
<1>3. UNCHANGED <<statics, disk, meta, observer>>
  BY DEF ReadNext
<1>4. /\ IsObject(r) /\ r.mode = "read" /\ r.tail = Empty
      /\ size \in Nat /\ r.data.startPos \in Nat
      /\ cp \in Nat /\ r.seen \in Nat /\ r.at \in Nat
      /\ r.whole => ReadsOn(r)
  BY <1>1, ReaderFacts
<1>5. cp < size => /\ SameButRead(next, r)
                   /\ next.at \in Nat /\ next.at >= r.data.startPos + cp
                   /\ next.failed \in BOOLEAN /\ next.own \in BOOLEAN
                   /\ r.whole => /\ ~next.failed /\ next.own
                                 /\ next.at = r.data.startPos + cp + Smaller(Chunk, size - cp)
  BY <1>1, <1>4, AfterReadFacts
<1> HIDE DEF next
<1>6. CASE cp >= size
  <2> DEFINE new == [r EXCEPT !.threw = TRUE]
  <2>1. DOMAIN new = Fields /\ new.threw = TRUE /\ \A x \in Fields \ {"threw"} : new[x] = r[x]
    BY <1>4 DEF IsObject, Fields
  <2> HIDE DEF new
  <2>2. IsObject(new)
    BY <1>4, <2>1 DEF IsObject, Fields
  <2>3. /\ new.mode = "read" /\ new.data = handles[h].data /\ new.tail = Empty
        /\ new.whole = handles[h].whole
    BY <1>4, <2>1 DEF Fields
  <2>4. ASSUME r.whole, ~r.jumped, size > 0 PROVE FALSE
    <3>1. ~r.failed /\ ((r.at = 0 /\ cp = 0) \/ r.at = r.data.startPos + Smaller(cp, size))
      BY <1>4, <2>4 DEF ReadsOn
    <3>2. r.at = r.data.startPos + size
      BY <1>4, <1>6, <2>4, <3>1 DEF Smaller
    <3> QED
      BY <1>1, <3>1, <3>2 DEF IsEnd, EndPos
  <2>5. new.whole => ReadsOn(new)
    BY <1>4, <2>1, <2>4 DEF ReadsOn, Fields
  <2>6. handles' = With(h, new)
    BY <1>2, <1>6 DEF new
  <2> QED
    BY <1>1, <1>3, <2>2, <2>3, <2>5, <2>6, ReaderMoves
<1>7. CASE cp < size
  <2> DEFINE new == [next EXCEPT !.currentPosition = Advance(next), !.seen = @ + read]
  <2>1. DOMAIN next = Fields /\ \A x \in Fields \ {"at", "failed", "own"} : next[x] = r[x]
    BY <1>5, <1>7 DEF SameButRead
  <2>2. next.currentPosition = cp /\ next.seen = r.seen /\ Advance(next) = cp + Chunk
    BY <2>1 DEF Advance, Fields
  <2>3. /\ DOMAIN new = Fields /\ new.currentPosition = cp + Chunk /\ new.seen = r.seen + read
        /\ new.at = next.at /\ new.failed = next.failed /\ new.own = next.own
        /\ \A x \in {"mode", "id", "data", "tail", "whole", "jumped", "threw"} : new[x] = r[x]
    BY <2>1, <2>2 DEF Fields
  <2> HIDE DEF new
  <2>5. cp + Chunk \in Nat /\ read \in Nat
    BY <1>4, <1>5, <1>7, FileAssumption
  <2>6. IsObject(new)
    BY <1>4, <1>5, <1>7, <2>3, <2>5 DEF IsObject
  <2>7. /\ new.mode = "read" /\ new.data = handles[h].data /\ new.tail = Empty
        /\ new.whole = handles[h].whole
    BY <1>4, <2>3
  <2>8. ASSUME new.whole PROVE ReadsOn(new)
    <3>1. r.whole
      BY <2>7, <2>8
    <3>2. /\ Smaller(cp, size) = cp
          /\ Smaller(cp + Chunk, size) = cp + Smaller(Chunk, size - cp)
      BY <1>4, <1>7, FileAssumption DEF Smaller
    <3>3. new.at = r.data.startPos + Smaller(cp + Chunk, size)
      BY <1>4, <1>5, <1>7, <2>3, <3>1, <3>2, FileAssumption DEF Smaller
    <3>4. new.seen = Smaller(cp + Chunk, size)
      <4>1. r.seen = cp
        BY <1>4, <3>1, <3>2 DEF ReadsOn
      <4>2. read = Smaller(Chunk, size - cp)
        BY <1>4, <1>5, <1>7, <3>1, FileAssumption DEF Smaller
      <4> QED
        BY <2>3, <3>2, <4>1, <4>2
    <3>5. new.own /\ ~new.failed /\ new.currentPosition = cp + Chunk /\ new.data = r.data /\ ~new.threw
      BY <1>1, <1>5, <1>7, <2>3, <3>1
    <3> QED
      BY <3>3, <3>4, <3>5 DEF ReadsOn
  <2>9. handles' = With(h, new)
    BY <1>2, <1>4, <1>7 DEF new
  <2> QED
    BY <1>1, <1>3, <2>6, <2>7, <2>8, <2>9, ReaderMoves
<1> QED
  BY <1>4, <1>6, <1>7

-----------------------------------------------------------------------------
\* A buffer is finite: it holds bytes of one text.
LEMMA TailFinite ==
  ASSUME IInv, NEW h \in DOMAIN handles
  PROVE  IsFile(handles[h].tail) /\ IsFiniteSet(DOMAIN handles[h].tail)
<1>1. IsObject(handles[h])
  BY DEF IInv, TypeOK
<1>2. DOMAIN handles[h].tail \subseteq Nat /\ handles[h].at \in Nat
  BY <1>1 DEF IsObject, IsFile
<1>3. \A a \in DOMAIN handles[h].tail : a < handles[h].at
  BY BufferedByte DEF IInv, Writers, Buffers
<1> QED
  BY <1>1, <1>2, <1>3, FiniteIsBounded DEF IsObject

LEMMA OverIsFile ==
  ASSUME NEW new, NEW old, IsFile(new), IsFile(old)
  PROVE  IsFile(Over(new, old))
<1>1. DOMAIN Over(new, old) \subseteq Nat
  BY OverCells DEF IsFile
<1>2. \A a \in DOMAIN Over(new, old) : Over(new, old)[a] \in Byte \cup {Hole}
  <2> DEFINE B == Byte \cup {Hole}
  <2>1. (\A a \in DOMAIN new : new[a] \in B) /\ \A a \in DOMAIN old : old[a] \in B
    BY DEF IsFile
  <2> HIDE DEF B
  <2>2. \A a \in DOMAIN Over(new, old) : Over(new, old)[a] \in B
    BY <2>1 DEF Over
  <2> QED
    BY <2>2 DEF B
<1>3. Over(new, old) = [a \in DOMAIN Over(new, old) |-> Over(new, old)[a]]
  BY DEF Over
<1> HIDE DEF Over
<1> QED
  BY <1>1, <1>2, <1>3 DEF IsFile

LEMMA DestroyKeeps ==
  ASSUME IInv, NEW h, Destroy(h)
  PROVE  IInv'
<1> DEFINE tail == handles[h].tail
<1> USE DEF observer
<1>1. /\ h \in DOMAIN handles /\ DOMAIN handles' = DOMAIN handles \ {h}
      /\ \A g \in DOMAIN handles' : handles'[g] = handles[g]
      /\ disk' = Over(tail, disk)
      /\ instancesNumber' = Counted(instancesNumber - 1)
      /\ UNCHANGED <<g_cursor, dataMap, isStorageLoaded, meta, observer>>
  BY DEF Destroy
<1>0. /\ DOMAIN disk' = DOMAIN tail \cup DOMAIN disk
      /\ \A a \in DOMAIN tail : disk'[a] = tail[a]
      /\ \A a \in DOMAIN disk : a \notin DOMAIN tail => disk'[a] = disk[a]
  BY <1>1 DEF Over
<1>2. IsFile(disk') /\ IsFiniteSet(DOMAIN disk')
  <2>1. IsFile(disk) /\ IsFiniteSet(DOMAIN disk)
    BY DEF IInv, TypeOK
  <2> QED
    BY <1>1, <2>1, TailFinite, OverIsFile, OverFinite
<1>3. TypeOK'
  <2>1. Counted(instancesNumber - 1) \in 0 .. CounterSpan - 1
    BY FileAssumption DEF IInv, TypeOK, Counted
  <2>2. \A g \in DOMAIN handles' : IsObject(handles[g])'
    BY <1>1 DEF IInv, TypeOK, IsObject, IsFile
  <2> QED
    BY <1>1, <1>2, <2>1, <2>2 DEF IInv, TypeOK, IsDataMap, IsFiles
<1>4. Loaded' = Loaded /\ MapsAgree'
  BY <1>1, MapsStay
<1>5. Entries' \subseteq Entries
  BY <1>1, <1>4 DEF Entries
<1>6. OneRegionEach'
  BY <1>1, <1>4, <1>5, RegionsStay
<1>7. NothingBeforeLoading'
  BY <1>1, EmptyTypes DEF IInv, NothingBeforeLoading
<1>8. SavesBehind'
  BY <1>1 DEF IInv, SavesBehind
<1>9. \A g, m : Has(g, m)' => Has(g, m) /\ g \in DOMAIN handles'
  BY <1>1 DEF Has
<1>10. Writers'
  <2>1. ASSUME NEW g \in DOMAIN handles', Has(g, "write") PROVE Buffers(handles[g])'
    <3>1. Buffers(handles[g])
      BY <1>1, <2>1 DEF IInv, Writers
    <3> QED
      BY <1>1, <2>1, <3>1 DEF Buffers
  <2> QED
    BY <1>1, <1>9, <2>1 DEF IInv, Writers
<1>11. ASSUME NEW a \in DOMAIN Written PROVE a \in DOMAIN Written' /\ Written'[a] = Written[a]
  <2>1. OneBuffer(handles')
    BY <1>1, BuffersApart DEF OneBuffer
  <2>2. ASSUME NEW g \in DOMAIN handles, a \in DOMAIN handles[g].tail, g = h
        PROVE  /\ a \in DOMAIN disk' /\ disk'[a] = handles[g].tail[a]
               /\ \A f \in DOMAIN handles' : a \notin DOMAIN handles'[f].tail
    BY <1>0, <1>1, <2>2, BuffersApart DEF OneBuffer
  <2>3. ASSUME \A g \in DOMAIN handles : a \notin DOMAIN handles[g].tail
        PROVE  /\ a \in DOMAIN disk' /\ disk'[a] = disk[a]
               /\ \A f \in DOMAIN handles' : a \notin DOMAIN handles'[f].tail
    <3>1. a \in DOMAIN disk /\ a \notin DOMAIN tail
      BY <1>1, <2>3, WrittenCells
    <3> QED
      BY <1>0, <1>1, <2>3, <3>1
  <2> QED
    BY <1>1, <2>1, <2>2, <2>3, CellsStay
<1>12. Content'
  BY <1>1, <1>5, <1>11, EntryKept DEF Content
<1>13. Readers'
  <2>1. \A u : Complete(u) => Complete(u)'
    BY <1>1 DEF Complete, Has
  <2> QED
    BY <1>1, <2>1 DEF IInv, Readers, Reads
<1>14. StrayIds = {} => Named'
  BY <1>1, <1>4 DEF IInv, Named, Leads
<1> QED
  BY <1>2, <1>3, <1>4, <1>6, <1>7, <1>8, <1>10, <1>12, <1>13, <1>14 DEF IInv

-----------------------------------------------------------------------------
\* The buffer with the next n bytes of a text: bytes of that text, each at its address.
OfText(cells, u, start, end) ==
  \A a \in DOMAIN cells : start <= a /\ a < end /\ cells[a] = <<u, a - start>>

LEMMA PieceCells ==
  ASSUME NEW buf, NEW first \in Nat, NEW text \in 1 .. MaxFiles, NEW done \in Nat, NEW more \in Nat, IsFile(buf),
         NEW next \in Nat, next <= first + done, first + done <= next, OfText(buf, text, first, next),
         NEW longer, longer = Over(Place(Bytes(text, done, more), next), buf)
  PROVE  /\ OfText(longer, text, first, next + more)
         /\ IsFile(longer) /\ IsFiniteSet(DOMAIN longer)
<1> DEFINE cells == Bytes(text, done, more)
           new   == Place(cells, next)
           B     == Byte \cup {Hole}
<1>1. cells \in [1 .. more -> B] /\ \A k \in 1 .. more : cells[k] = <<text, done + k - 1>>
  BY DEF Bytes, Byte
<1>2. next = first + done
  OBVIOUS
<1> HIDE DEF cells, B
<1>3. /\ DOMAIN new = next .. next + more - 1
      /\ \A a \in DOMAIN new : a - next + 1 \in 1 .. more /\ new[a] = cells[a - next + 1]
  <2>1. Len(cells) = more
    BY <1>1
  <2> QED
    BY <1>2, <2>1 DEF Place
<1>4. \A a \in DOMAIN new : first <= a /\ a < first + done + more /\ new[a] = <<text, a - first>>
  <2> TAKE a \in DOMAIN new
  <2>1. a \in Int /\ next <= a /\ a <= next + more - 1
    BY <1>2, <1>3
  <2>2. done + (a - next + 1) - 1 = a - first
    BY <2>1
  <2>3. new[a] = <<text, done + (a - next + 1) - 1>>
    BY <1>1, <1>3
  <2> QED
    BY <2>1, <2>2, <2>3
<1> HIDE DEF new
<1>5. /\ DOMAIN longer = DOMAIN buf \cup DOMAIN new
      /\ \A a \in DOMAIN longer : longer[a] = IF a \in DOMAIN new THEN new[a] ELSE buf[a]
  <2>1. longer = Over(new, buf)
    BY DEF new, cells
  <2> QED
    BY <2>1 DEF Over
<1>6. longer = [a \in DOMAIN longer |-> longer[a]]
  BY DEF Over
<1>7. DOMAIN buf \subseteq Nat
  BY DEF IsFile
<1>8. \A a \in DOMAIN longer : first <= a /\ a < first + done + more /\ longer[a] = <<text, a - first>>
  <2> TAKE a \in DOMAIN longer
  <2>1. CASE a \in DOMAIN new
    BY <1>4, <1>5, <2>1
  <2>2. CASE a \notin DOMAIN new
    BY <1>2, <1>5, <1>7, <2>2 DEF OfText
  <2> QED
    BY <2>1, <2>2
<1>9. DOMAIN longer = DOMAIN buf \cup (next .. next + more - 1)
  BY <1>3, <1>5
<1>10. DOMAIN longer \subseteq Nat
  BY <1>2, <1>7, <1>9
<1>11. IsFile(longer)
  <2>1. \A a \in DOMAIN longer : a \in Nat /\ a - first \in Nat
    BY <1>8, <1>10
  <2>2. \A a \in DOMAIN longer : longer[a] \in B
    BY <1>8, <2>1 DEF B, Byte
  <2> QED
    BY <1>6, <1>10, <2>2 DEF IsFile, B
<1>12. IsFiniteSet(DOMAIN longer)
  <2>1. first + done + more \in Nat /\ \A a \in DOMAIN longer : a < first + done + more
    BY <1>8
  <2> QED
    BY <1>10, <2>1, FiniteIsBounded
<1> QED
  BY <1>2, <1>8, <1>11, <1>12 DEF OfText

\* A part of a file is a file.
LEMMA CutIsFile ==
  ASSUME NEW tail, NEW cut, IsFile(tail), IsFiniteSet(DOMAIN tail)
  PROVE  IsFile(Before(tail, cut)) /\ IsFile(From(tail, cut)) /\ IsFiniteSet(DOMAIN Before(tail, cut))
<1>1. DOMAIN Before(tail, cut) \subseteq DOMAIN tail
  BY CutCells
<1> QED
  BY <1>1, FS_Subset DEF Before, From, IsFile

LEMMA MoreWritten ==
  ASSUME NEW f \in Text, NEW n \in Nat, NEW g, g = [f EXCEPT !.written = @ + n]
  PROVE  /\ g \in Text /\ g.written = f.written + n
         /\ g.size = f.size /\ g.id = f.id /\ g.made = f.made
BY DEF Text

LEMMA WriteKeeps ==
  ASSUME IInv, NEW h, Write(h)
  PROVE  IInv'
<1> DEFINE r == handles[h]
           d == r.data
           u == d.filename
           w == files[u].written
           n == Smaller(Chunk, d.filesize - w)
           tail == Over(Place(Bytes(u, w, n), r.at), r.tail)
           After(cut) == [r EXCEPT !.at = @ + n, !.tail = From(tail, cut)]
<1> USE DEF statics
<1>1. /\ Has(h, "write") /\ h \in DOMAIN handles /\ n > 0
      /\ files' = [files EXCEPT ![u].written = @ + n]
      /\ UNCHANGED <<statics, meta, savedFiles, lost, ends>>
  BY DEF Write, Has
<1>2. PICK cut \in {d.startPos, r.at + n} :
        /\ disk' = Over(Before(tail, cut), disk)
        /\ handles' = With(h, After(cut))
  BY DEF Write
<1>3. /\ Buffers(r) /\ IsObject(r) /\ d \in Entries /\ d \in DataStruct /\ r.mode = "write"
  BY <1>1 DEF Has, IInv, Writers, TypeOK, IsObject, Entries
<1>4. /\ u \in DOMAIN files \ lost /\ u \in 1 .. MaxFiles /\ u # 0 /\ w \in Nat
      /\ d.startPos \in Nat /\ d.filesize \in Nat
      /\ r.at = d.startPos + w /\ w <= d.filesize /\ Taken(d) /\ files[u].made
  <2>1. u \in DOMAIN files \ lost /\ r.at = d.startPos + w
    BY <1>3 DEF Buffers
  <2>2. u \in 1 .. MaxFiles /\ w \in Nat
    BY <2>1, FilesType DEF IInv, TypeOK
  <2>3. d.startPos \in Nat /\ d.filesize \in Nat
    BY <1>3 DEF DataStruct
  <2>4. w <= files[u].size /\ files[u].size = d.filesize
    BY <1>3, <2>1, <2>2 DEF IInv, SavesBehind, OneRegionEach, Bounded
  <2>5. Taken(d) /\ files[u].made
    BY <1>3 DEF Buffers, Taken
  <2> QED
    BY <2>1, <2>2, <2>3, <2>4, <2>5, FileAssumption
<1>5. n \in Nat /\ w + n <= d.filesize
  BY <1>4, FileAssumption DEF Smaller
<1>6. /\ \A a \in DOMAIN tail : d.startPos <= a /\ a < r.at + n /\ tail[a] = <<u, a - d.startPos>>
      /\ IsFile(tail) /\ IsFiniteSet(DOMAIN tail)
  <2>1. IsFile(r.tail)
    BY <1>3 DEF IsObject
  <2>2. \A a \in DOMAIN r.tail :
          d.startPos <= a /\ a < d.startPos + w /\ r.tail[a] = <<u, a - d.startPos>>
    BY <1>3, <1>4 DEF Buffers
  <2> DEFINE start  == d.startPos
             buffer == r.tail
             at     == r.at
  <2>3. /\ IsFile(buffer) /\ tail = Over(Place(Bytes(u, w, n), at), buffer)
        /\ OfText(buffer, u, start, at)
    BY <1>4, <2>1, <2>2 DEF OfText
  <2>4. at \in Nat /\ at <= start + w /\ start + w <= at /\ start \in Nat /\ u \in 1 .. MaxFiles /\ w \in Nat /\ n \in Nat
    BY <1>4, <1>5
  <2> HIDE DEF n, w, u, d, tail, start, buffer, at
  <2>5. /\ OfText(tail, u, start, at + n)
        /\ IsFile(tail) /\ IsFiniteSet(DOMAIN tail)
    BY <2>3, <2>4, PieceCells
  <2> QED
    BY <2>5 DEF start, buffer, at, OfText
<1>14. DOMAIN r.tail \subseteq DOMAIN tail /\ r.at .. r.at + n - 1 \subseteq DOMAIN tail
  <2> DEFINE cells == Bytes(u, w, n)
  <2>1. Len(cells) = n
    BY <1>5 DEF Bytes
  <2>2. tail = Over(Place(cells, r.at), r.tail)
    OBVIOUS
  <2> HIDE DEF cells, tail, n
  <2> QED
    BY <2>1, <2>2 DEF Over, Place
<1> HIDE DEF n, tail
<1> DEFINE s == After(cut)
<1>7. /\ DOMAIN s = Fields
      /\ s.at = r.at + n /\ s.tail = From(tail, cut)
      /\ \A x \in Fields \ {"at", "tail"} : s[x] = r[x]
  BY <1>3 DEF IsObject, Fields
<1> HIDE DEF s
<1>8. /\ DOMAIN handles' = DOMAIN handles /\ handles'[h] = s
      /\ \A g \in DOMAIN handles : g # h => handles'[g] = handles[g]
  BY <1>1, <1>2 DEF With, Put, s
<1>9. /\ DOMAIN s.tail = {a \in DOMAIN tail : a >= cut}
      /\ \A a \in DOMAIN s.tail : s.tail[a] = tail[a]
  BY <1>7 DEF From
<1>10. /\ DOMAIN disk' = DOMAIN disk \cup {a \in DOMAIN tail : a < cut}
       /\ \A a \in DOMAIN disk' : disk'[a] = IF a \in DOMAIN tail /\ a < cut THEN tail[a] ELSE disk[a]
  BY <1>2 DEF Before, Over
<1>11. IsFile(s.tail) /\ IsFile(disk') /\ IsFiniteSet(DOMAIN disk')
  <2>1. IsFile(disk) /\ IsFiniteSet(DOMAIN disk)
    BY DEF IInv, TypeOK
  <2> QED
    BY <1>2, <1>6, <1>7, <2>1, CutIsFile, OverIsFile, OverFinite
<1>12. /\ s.mode = "write" /\ s.data = d /\ s.whole = r.whole /\ s.at \in Nat /\ IsObject(s)
  <2>1. s.mode = "write" /\ s.data = d /\ s.whole = r.whole
    BY <1>3, <1>7 DEF Fields
  <2>2. s.at \in Nat
    BY <1>4, <1>5, <1>7
  <2> QED
    BY <1>3, <1>7, <1>11, <2>1, <2>2 DEF IsObject, Fields
<1>13. /\ DOMAIN files' = DOMAIN files /\ Len(files') = Len(files) /\ IsFiles(files')
       /\ files'[u].written = w + n /\ files'[u].size = files[u].size /\ files'[u].id = files[u].id
       /\ files'[u].made = files[u].made
       /\ \A v \in DOMAIN files : v # u => files'[v] = files[v]
  <2> DEFINE f == [files[u] EXCEPT !.written = @ + n]
  <2>1. files[u] \in Text /\ IsFiles(files)
    BY <1>4, FilesType DEF IInv, TypeOK
  <2>2. /\ f \in Text /\ f.written = w + n
        /\ f.size = files[u].size /\ f.id = files[u].id /\ f.made = files[u].made
    BY <1>5, <2>1, MoreWritten
  <2> HIDE DEF f, w
  <2>3. files' = [files EXCEPT ![u] = f]
    BY <1>1 DEF f
  <2>4. /\ DOMAIN files' = DOMAIN files /\ Len(files') = Len(files) /\ files'[u] = f
        /\ \A v \in DOMAIN files : v # u => files'[v] = files[v]
        /\ files' \in Seq(Text)
    BY <1>4, <2>1, <2>2, <2>3 DEF IsFiles
  <2> QED
    BY <2>1, <2>2, <2>4 DEF IsFiles
<1>15. Loaded' = Loaded /\ MapsAgree'
  <2>1. \A v \in DOMAIN files : files'[v].made = files[v].made
    BY <1>13
  <2> QED
    BY <1>1, <2>1, MapsStay
<1>16. \A g \in DOMAIN handles : /\ handles'[g].mode = handles[g].mode
                                 /\ handles'[g].data = handles[g].data
                                 /\ handles'[g].whole = handles[g].whole
  BY <1>3, <1>8, <1>12
<1>17. \A g, m : Has(g, m)' <=> Has(g, m)
  BY <1>8, <1>16 DEF Has
<1>18. Entries' = Entries
  BY <1>1, <1>8, <1>15, <1>16 DEF Entries
<1>19. TypeOK'
  <2>1. \A g \in DOMAIN handles' : IsObject(handles[g])'
    BY <1>8, <1>12 DEF IInv, TypeOK, IsObject, IsFile
  <2> QED
    BY <1>1, <1>8, <1>11, <1>13, <2>1 DEF IInv, TypeOK, IsDataMap, IsFiles
<1>20. OneRegionEach'
  <2>1. \A v \in DOMAIN files : files'[v].size = files[v].size /\ files'[v].made = files[v].made
    BY <1>13
  <2> QED
    BY <1>13, <1>15, <1>18, <2>1, RegionsStay
<1>21. NothingBeforeLoading'
  BY <1>1, EmptyTypes DEF IInv, NothingBeforeLoading
<1>22. SavesBehind'
  <2>1. w + n <= files[u].size
    BY <1>3, <1>4, <1>5 DEF IInv, OneRegionEach, Bounded
  <2>2. \A v \in DOMAIN files : /\ files'[v].written <= files'[v].size
                                /\ files'[v].written >= files[v].written
                                /\ files'[v].id = files[v].id /\ files'[v].size = files[v].size
                                /\ files'[v].made = files[v].made
                                /\ ~files'[v].made => files'[v].written = 0
    <3> TAKE v \in DOMAIN files
    <3>1. files[v].written \in Nat /\ files[v].size \in Nat /\ files[v].written <= files[v].size
      BY FilesType DEF IInv, SavesBehind, TypeOK
    <3>2. CASE v = u
      <4>1. /\ files'[u].written <= files'[u].size /\ files'[u].written >= w
            /\ files'[u].id = files[u].id /\ files'[u].size = files[u].size
        BY <1>4, <1>5, <1>13, <2>1
      <4>2. files'[u].made = files[u].made /\ files'[u].made
        BY <1>4, <1>13
      <4> QED
        BY <3>2, <4>1, <4>2
    <3>3. CASE v # u
      <4>1. files'[v] = files[v] /\ (~files[v].made => files[v].written = 0)
        BY <1>13, <3>3 DEF IInv, SavesBehind
      <4> QED
        BY <3>1, <4>1
    <3> QED
      BY <3>2, <3>3
  <2>3. \A v \in DOMAIN savedFiles : v \in DOMAIN files /\ savedFiles[v].written \in Nat
    BY FilesType DEF IInv, SavesBehind, TypeOK
  <2>4. \A v \in DOMAIN savedFiles : savedFiles[v].written <= files'[v].written
    <3> TAKE v \in DOMAIN savedFiles
    <3>1. /\ savedFiles[v].written <= files[v].written /\ savedFiles[v].written \in Nat
          /\ files[v].written \in Nat /\ files'[v].written \in Nat
      BY <1>13, <2>3, FilesType DEF IInv, SavesBehind, TypeOK
    <3>2. files'[v].written >= files[v].written
      BY <2>2, <2>3
    <3> HIDE DEF w, u
    <3> QED
      BY <3>1, <3>2
  <2>5. \A v \in DOMAIN savedFiles : /\ savedFiles[v].id = files'[v].id
                                     /\ savedFiles[v].size = files'[v].size
                                     /\ savedFiles[v].made = files'[v].made
    BY <2>2, <2>3 DEF IInv, SavesBehind
  <2>6. Len(savedFiles) <= Len(files') /\ (meta' = NoMeta => savedFiles = << >>)
    BY <1>1, <1>13 DEF IInv, SavesBehind
  <2>7. \A v \in DOMAIN files' : /\ files'[v].written <= files'[v].size
                                 /\ ~files'[v].made => files'[v].written = 0
    BY <1>13, <2>2
  <2> QED
    BY <1>1, <2>4, <2>5, <2>6, <2>7 DEF SavesBehind
<1>23. Writers'
  <2>1. ASSUME NEW g \in DOMAIN handles, Has(g, "write"), g # h PROVE Buffers(handles[g])'
    <3>1. Buffers(handles[g]) /\ handles[g].data.filename # u
      BY <1>1, <2>1 DEF IInv, Writers
    <3> QED
      BY <1>1, <1>8, <1>13, <2>1, <3>1 DEF Buffers
  <2>2. Buffers(handles[h])'
    <3>1. s.at = d.startPos + (w + n)
      BY <1>4, <1>5, <1>7
    <3>2. \A a \in DOMAIN s.tail : d.startPos <= a /\ a < s.at /\ s.tail[a] = <<u, a - d.startPos>>
      BY <1>6, <1>7, <1>9
    <3> QED
      BY <1>1, <1>4, <1>8, <1>12, <1>13, <3>1, <3>2 DEF Buffers
  <2> QED
    BY <1>8, <1>16, <1>17, <2>1, <2>2, <1>12 DEF IInv, Writers, Has
<1>24. ASSUME NEW g \in DOMAIN handles, g # h, NEW a \in DOMAIN handles[g].tail
       PROVE  ~(d.startPos <= a /\ a < r.at + n)
  <2> SUFFICES ASSUME d.startPos <= a, a < r.at + n PROVE FALSE
    OBVIOUS
  <2>1. /\ Has(g, "write") /\ a \in Nat /\ handles[g].data \in Entries /\ Taken(handles[g].data)
        /\ handles[g].data.startPos <= a /\ a < EndPos(handles[g].data)
    BY BufferedByte
  <2>2. a < EndPos(d)
    BY <1>4, <1>5, <2>1 DEF EndPos
  <2>3. handles[g].data = d
    BY <1>3, <1>4, <2>1, <2>2, OwnAddress
  <2> QED
    BY <1>1, <1>24, <2>1, <2>3 DEF IInv, Writers
<1>25. OneBuffer(handles')
  <2>1. \A g \in DOMAIN handles : g # h => \A a \in DOMAIN handles[g].tail : a \notin DOMAIN s.tail
    BY <1>6, <1>9, <1>24
  <2> QED
    BY <1>8, <2>1, BuffersApart DEF OneBuffer
<1>26. ASSUME NEW a \in DOMAIN Written, ~(d.startPos <= a /\ a < d.startPos + d.filesize)
       PROVE  a \in DOMAIN Written' /\ Written'[a] = Written[a]
  <2>1. ~(d.startPos <= a /\ a < r.at + n) /\ a \in Nat
    BY <1>4, <1>5, <1>26, WrittenCells
  <2>2. a \notin DOMAIN tail /\ a \notin DOMAIN r.tail /\ a \notin DOMAIN s.tail
    BY <1>6, <1>9, <1>14, <2>1
  <2>3. ASSUME NEW g \in DOMAIN handles, a \in DOMAIN handles[g].tail
        PROVE  g \in DOMAIN handles' /\ handles'[g] = handles[g]
    BY <1>8, <2>2, <2>3
  <2>4. (\A g \in DOMAIN handles : a \notin DOMAIN handles[g].tail) =>
          /\ a \in DOMAIN disk' /\ disk'[a] = disk[a]
          /\ \A g \in DOMAIN handles' : a \notin DOMAIN handles'[g].tail
    BY <1>8, <1>10, <2>2, WrittenCells
  <2> QED
    BY <1>25, <2>3, <2>4, CellsStay
<1>27. /\ \A a \in DOMAIN s.tail : a \in DOMAIN Written' /\ Written'[a] = s.tail[a]
       /\ \A a \in DOMAIN disk' : (\A g \in DOMAIN handles' : a \notin DOMAIN handles'[g].tail)
                                    => a \in DOMAIN Written' /\ Written'[a] = disk'[a]
  <2>1. Written' = FileOf(handles', disk')
    BY DEF Written, Tails, FileOf, TailsOf
  <2> QED
    BY <1>1, <1>8, <1>25, <2>1, FileCells
<1>28. Holds(Written', u, d.startPos, w + n)
  <2> DEFINE file == Written'
             from == d.startPos
             last == w + n
             ByteAt(k) == from + k \in DOMAIN file /\ file[from + k] = <<u, k>>
  <2>5. SUFFICES ASSUME NEW k \in 0 .. last - 1 PROVE ByteAt(k)
    <3>1. SUFFICES Holds(file, u, from, last)
      OBVIOUS
    <3> HIDE DEF file, from, last, u
    <3> QED
      BY DEF Holds
  <2> DEFINE a == d.startPos + k
  <2>1. a \in Nat /\ d.startPos <= a /\ a < r.at + n /\ a - d.startPos = k /\ k \in Nat
    BY <1>4, <1>5
  <2> HIDE DEF a
  <2>2. \A g \in DOMAIN handles : g # h => a \notin DOMAIN handles[g].tail
    BY <1>24, <2>1
  <2>3. CASE a \in DOMAIN tail
    <3>1. tail[a] = <<u, k>>
      BY <1>6, <2>1, <2>3
    <3>2. CASE a \in DOMAIN s.tail
      BY <1>9, <1>27, <3>1, <3>2 DEF a
    <3>3. CASE a \notin DOMAIN s.tail
      <4>1. cut \in Nat
        BY <1>4, <1>5
      <4>2. a < cut
        BY <1>9, <2>1, <2>3, <3>3, <4>1
      <4>3. a \in DOMAIN disk' /\ disk'[a] = <<u, k>>
        BY <1>10, <2>3, <3>1, <4>2
      <4> QED
        BY <1>8, <1>27, <2>2, <3>3, <4>3 DEF a
    <3> QED
      BY <3>2, <3>3
  <2>4. CASE a \notin DOMAIN tail
    <3>1. k \in 0 .. w - 1
      BY <1>4, <1>5, <1>14, <2>1, <2>4
    <3>2. a \in DOMAIN Written /\ Written[a] = <<u, k>>
      BY <1>3, <1>4, <3>1 DEF IInv, Content, Holds, a
    <3>3. \A g \in DOMAIN handles : a \notin DOMAIN handles[g].tail
      BY <1>14, <2>2, <2>4
    <3>4. a \in DOMAIN disk /\ disk[a] = <<u, k>>
      BY <3>2, <3>3, WrittenCells
    <3>5. a \in DOMAIN disk' /\ disk'[a] = <<u, k>>
      BY <1>10, <2>4, <3>4
    <3>6. \A g \in DOMAIN handles' : a \notin DOMAIN handles'[g].tail
      BY <1>8, <1>9, <2>4, <3>3
    <3> QED
      BY <1>27, <3>5, <3>6 DEF a
  <2> QED
    BY <2>3, <2>4
<1>29. Content'
  <2> SUFFICES ASSUME NEW e \in Entries, e.filename \in DOMAIN files \ lost
               PROVE  Holds(Written', e.filename, e.startPos, files'[e.filename].written)
    BY <1>1, <1>13, <1>18 DEF Content
  <2>1. CASE e = d
    BY <1>13, <1>28, <2>1
  <2>2. CASE e # d
    <3>1. e.filename # u /\ (Taken(e) => Apart(e, d)) /\ e \in DataStruct
      BY <1>3, <1>4, <2>2, LoadedType DEF IInv, OneRegionEach, Distinct
    <3>2. ASSUME Taken(e)
          PROVE  \A a \in DOMAIN Written : e.startPos <= a /\ a < EndPos(e) => a \in DOMAIN Written' /\ Written'[a] = Written[a]
      <4> TAKE a \in DOMAIN Written
      <4>1. a \in Nat
        BY WrittenCells
      <4>2. e.startPos <= a /\ a < EndPos(e) => ~(d.startPos <= a /\ a < d.startPos + d.filesize)
        BY <1>4, <3>1, <3>2, <4>1 DEF Apart, EndPos, DataStruct
      <4> QED
        BY <1>26, <4>2
    <3>3. files'[e.filename] = files[e.filename]
      BY <1>13, <3>1
    <3> QED
      BY <3>2, <3>3, EntryKept
  <2> QED
    BY <2>1, <2>2
<1>30. Readers'
  <2>1. ASSUME NEW g \in DOMAIN handles, handles[g].whole PROVE Reads(handles[g])'
    <3>1. Reads(handles[g])
      BY <2>1 DEF IInv, Readers
    <3>2. g # h /\ handles'[g] = handles[g] /\ handles[g].data.filename # u
      BY <1>1, <1>3, <1>8, <3>1 DEF Reads, Complete
    <3>3. Complete(handles[g].data.filename)'
      <4>1. Complete(handles[g].data.filename)
        BY <3>1 DEF Reads
      <4> QED
        BY <1>1, <1>8, <1>13, <1>16, <1>17, <3>2, <4>1 DEF Complete, Has
    <3> QED
      BY <3>1, <3>2, <3>3 DEF Reads
  <2> QED
    BY <1>8, <1>16, <2>1 DEF Readers
<1>31. StrayIds = {} => Named'
  <2>1. \A v \in DOMAIN files : files'[v].id = files[v].id
    BY <1>13
  <2>2. StrayIds = {} => Named
    BY DEF IInv
  <2>3. DOMAIN files' = DOMAIN files
    BY <1>13
  <2> QED
    BY <1>1, <1>15, <2>1, <2>2, <2>3 DEF Named, Leads
<1> QED
  BY <1>11, <1>15, <1>19, <1>20, <1>21, <1>22, <1>23, <1>29, <1>30, <1>31 DEF IInv

-----------------------------------------------------------------------------
\* A new object has nothing in its buffer.
LEMMA NewBuffer ==
  ASSUME IInv, NEW h, h \notin DOMAIN handles, NEW r, r.tail = Empty,
         handles' = With(h, r), disk' = disk
  PROVE  /\ DOMAIN handles' = DOMAIN handles \cup {h} /\ handles'[h] = r
         /\ \A g \in DOMAIN handles : g # h /\ handles'[g] = handles[g]
         /\ \A a \in DOMAIN Written : a \in DOMAIN Written' /\ Written'[a] = Written[a]
<1>1. /\ DOMAIN handles' = DOMAIN handles \cup {h} /\ handles'[h] = r
      /\ \A g \in DOMAIN handles : g # h /\ handles'[g] = handles[g]
  BY DEF With, Put
<1>2. OneBuffer(handles')
  BY <1>1, BuffersApart, EmptyTypes DEF OneBuffer
<1>3. ASSUME NEW a \in DOMAIN Written PROVE a \in DOMAIN Written' /\ Written'[a] = Written[a]
  <2>1. (\A g \in DOMAIN handles : a \notin DOMAIN handles[g].tail) =>
          /\ a \in DOMAIN disk' /\ disk'[a] = disk[a]
          /\ \A g \in DOMAIN handles' : a \notin DOMAIN handles'[g].tail
    BY <1>1, WrittenCells, EmptyTypes
  <2> QED
    BY <1>1, <1>2, <2>1, CellsStay
<1> QED
  BY <1>1, <1>3

\* A new object and the map in force with its entry: what there is of entries then.
LEMMA NewEntries ==
  ASSUME NEW h, NEW r, NEW id, isStorageLoaded', meta' = meta,
         dataMap' = Put(Loaded.map, id, r.data),
         h \notin DOMAIN handles, handles' = With(h, r)
  PROVE  /\ Loaded' = [cursor |-> g_cursor', map |-> dataMap']
         /\ Entries' \subseteq Entries \cup {r.data}
<1>1. Loaded' = [cursor |-> g_cursor', map |-> dataMap']
  BY DEF Loaded
<1>2. \A i \in DOMAIN dataMap' : dataMap'[i] = r.data \/ (i \in DOMAIN Loaded.map /\ dataMap'[i] = Loaded.map[i])
  BY DEF Put
<1>3. \A g \in DOMAIN handles' : handles'[g].data = r.data \/ (g \in DOMAIN handles /\ handles'[g] = handles[g])
  BY DEF With, Put
<1> QED
  BY <1>1, <1>2, <1>3 DEF Entries

\* A map with a new entry, for a text no other entry is for.
LEMMA NewMap ==
  ASSUME NEW old, NEW new, NEW id \in Nat, NEW data \in DataStruct,
         IsDataMap(old), EachOnce(old), IsFiniteSet(DOMAIN old),
         new = Put(old, id, data),
         data.filename = 0 \/ \A i \in DOMAIN old : i = id \/ old[i].filename # data.filename
  PROVE  IsDataMap(new) /\ EachOnce(new) /\ IsFiniteSet(DOMAIN new)
<1>1. DOMAIN new = DOMAIN old \cup {id}
  BY DEF Put
<1>2. IsFiniteSet(DOMAIN new)
  BY <1>1, FS_AddElement
<1>3. EachOnce(new)
  BY DEF EachOnce, Put
<1>4. IsDataMap(new)
  BY DEF IsDataMap, Put
<1> QED
  BY <1>2, <1>3, <1>4

\* The constructor up to its open(): a new text, and its entry in the map in force.
LEMMA EnterFacts ==
  ASSUME IInv, NEW size \in Sizes, NEW made \in BOOLEAN, Enter(size, made)
  PROVE  LET u    == Len(files) + 1
             data == NewData(size)
         IN  /\ data \in DataStruct /\ data.filename = u /\ data.filesize = size
             /\ data.startPos = Loaded.cursor /\ EndPos(data) = Loaded.cursor + size
             /\ size \in Nat /\ NewId \in Nat /\ u \in 1 .. MaxFiles /\ u \notin DOMAIN files
             /\ Len(files') = u /\ DOMAIN files' = DOMAIN files \cup {u} /\ IsFiles(files')
             /\ files'[u].id = NewId /\ files'[u].size = size
             /\ files'[u].written = 0 /\ files'[u].made = made
             /\ \A v \in DOMAIN files : files'[v] = files[v]
             /\ IsDataMap(dataMap') /\ EachOnce(dataMap') /\ IsFiniteSet(DOMAIN dataMap')
             /\ instancesNumber' \in 0 .. CounterSpan - 1
<1> DEFINE u    == Len(files) + 1
           data == NewData(size)
           new  == [id |-> NewId, size |-> size, written |-> 0, made |-> made]
<1>1. /\ Len(files) < MaxFiles /\ instancesNumber' = Counted(instancesNumber + 1)
      /\ dataMap' = Put(Loaded.map, NewId, data)
      /\ files' = Append(files, new)
  BY DEF Enter
<1>2. /\ Loaded.cursor \in Nat /\ IsDataMap(Loaded.map) /\ IsFiniteSet(DOMAIN Loaded.map)
      /\ EachOnce(Loaded.map) /\ NewId \in Nat
  BY LoadedType, FS_CardinalityType DEF IInv, MapsAgree, NewId
<1>3. /\ DOMAIN files = 1 .. Len(files) /\ Len(files) \in Nat /\ u \in 1 .. MaxFiles
      /\ size \in Nat /\ IsFiles(files) /\ MaxFiles \in Nat
  BY <1>1, FilesType, FileAssumption DEF IInv, TypeOK
<1>4. /\ data \in DataStruct /\ data.startPos = Loaded.cursor /\ data.filename = u
      /\ data.filesize = size /\ EndPos(data) = Loaded.cursor + size
  BY <1>2, <1>3 DEF DataStruct, EndPos, NewData
<1> HIDE DEF data, u
<1>5. /\ Len(files') = u /\ DOMAIN files' = DOMAIN files \cup {u} /\ u \notin DOMAIN files
      /\ files'[u] = new /\ \A v \in DOMAIN files : files'[v] = files[v]
      /\ IsFiles(files')
  <2>1. new \in Text
    BY <1>2 DEF Text
  <2> HIDE DEF new
  <2> QED
    BY <1>1, <1>3, <2>1 DEF IsFiles, u
<1>6. IsDataMap(dataMap') /\ EachOnce(dataMap') /\ IsFiniteSet(DOMAIN dataMap')
  <2>1. \A i \in DOMAIN Loaded.map : Loaded.map[i].filename # data.filename
    BY <1>2, <1>3, <1>4 DEF IInv, OneRegionEach, Bounded, Entries, IsDataMap, DataStruct, u
  <2> QED
    BY <1>1, <1>2, <1>4, <2>1, NewMap
<1>7. instancesNumber' \in 0 .. CounterSpan - 1
  BY <1>1, FileAssumption DEF IInv, TypeOK, Counted
<1> QED
  BY <1>2, <1>3, <1>4, <1>5, <1>6, <1>7 DEF data, u

\* It keeps what entries, maps and saves agree on, and the bytes of every text, whether
\* or not the file then opens: a text that has not taken its room writes nothing.
LEMMA EnterKeeps ==
  ASSUME IInv, NEW size \in Sizes, NEW made \in BOOLEAN, Enter(size, made),
         g_cursor' = IF made THEN EndPos(NewData(size)) ELSE Loaded.cursor,
         Entries' \subseteq Entries \cup {NewData(size)},
         \A a \in DOMAIN Written : a \in DOMAIN Written' /\ Written'[a] = Written[a]
  PROVE  /\ OneRegionEach' /\ MapsAgree' /\ NothingBeforeLoading' /\ SavesBehind' /\ Content'
         /\ StrayIds = {} => Named'
         /\ IsFiniteSet(DOMAIN disk)' /\ g_cursor' \in Nat
<1>0. PICK data : data = NewData(size)
  OBVIOUS
<1> DEFINE u == Len(files) + 1
<1>1. /\ isStorageLoaded' = TRUE /\ dataMap' = Put(Loaded.map, NewId, data)
      /\ UNCHANGED <<disk, meta, savedFiles, lost, ends>>
  BY <1>0 DEF Enter
<1>2. Loaded.cursor \in Nat /\ IsDataMap(Loaded.map)
  BY LoadedType DEF IInv
<1>3. /\ data \in DataStruct /\ data.filename = u /\ data.filesize = size
      /\ data.startPos = Loaded.cursor /\ EndPos(data) = Loaded.cursor + size
      /\ size \in Nat /\ NewId \in Nat /\ u \in 1 .. MaxFiles /\ u \notin DOMAIN files
      /\ Len(files') = u /\ DOMAIN files' = DOMAIN files \cup {u} /\ IsFiles(files')
      /\ files'[u].id = NewId /\ files'[u].size = size
      /\ files'[u].written = 0 /\ files'[u].made = made
      /\ \A v \in DOMAIN files : files'[v] = files[v]
      /\ IsDataMap(dataMap') /\ EachOnce(dataMap') /\ IsFiniteSet(DOMAIN dataMap')
  BY <1>0, EnterFacts
<1>4. g_cursor' = (IF made THEN EndPos(data) ELSE Loaded.cursor) /\ Entries' \subseteq Entries \cup {data}
  BY <1>0
<1>5. DOMAIN files = 1 .. Len(files) /\ Len(files) \in Nat
  BY FilesType DEF IInv, TypeOK
<1> HIDE DEF u
<1>6. /\ Loaded' = [cursor |-> g_cursor', map |-> dataMap'] /\ g_cursor' \in Nat
      /\ Loaded'.cursor = g_cursor' /\ Loaded'.map = dataMap' /\ Loaded.cursor <= g_cursor'
      /\ made => EndPos(data) <= g_cursor'
  BY <1>1, <1>2, <1>3, <1>4 DEF Loaded
<1>7. \A e \in Entries : /\ e \in DataStruct /\ EndPos(e) \in Nat
                         /\ e.filename \in 0 .. Len(files) /\ e.filename # u
                         /\ Bounded(e) /\ (Taken(e)' <=> Taken(e))
                         /\ e.filename # 0 => files'[e.filename] = files[e.filename]
  <2>1. \A e \in Entries : /\ e \in DataStruct /\ e.filename \in Nat
                           /\ e.startPos \in Nat /\ e.filesize \in Nat
    BY LoadedType DEF IInv, DataStruct
  <2>2. \A e \in Entries : Bounded(e) /\ e.filename <= Len(files)
    BY DEF IInv, OneRegionEach, Bounded
  <2>3. \A e \in Entries : e.filename \in 0 .. Len(files) /\ e.filename # u
    BY <1>3, <1>5, <2>1, <2>2
  <2>4. \A e \in Entries : e.filename # 0 => files'[e.filename] = files[e.filename]
    BY <1>3, <1>5, <2>3
  <2> QED
    BY <2>1, <2>2, <2>3, <2>4 DEF EndPos, Taken
<1>8. Taken(data)' <=> made
  BY <1>3 DEF Taken
<1>9. OneRegionEach'
  <2>1. \A e \in Entries : Bounded(e)'
    <3> TAKE e \in Entries
    <3>1. e.filename <= Len(files')
      BY <1>3, <1>5, <1>7 DEF u
    <3>2. Taken(e)' => EndPos(e) <= Loaded'.cursor
      BY <1>2, <1>6, <1>7 DEF Bounded
    <3> QED
      BY <1>7, <3>1, <3>2 DEF Bounded, EndPos, NoData
  <2>2. Bounded(data)'
    <3>1. data.filename # 0 /\ data.filename <= Len(files') /\ data.filesize = files'[data.filename].size
      BY <1>3
    <3>2. Taken(data)' => EndPos(data) <= Loaded'.cursor
      BY <1>6, <1>8
    <3> QED
      BY <3>1, <3>2 DEF Bounded, EndPos
  <2>3. \A e \in Entries : Distinct(e, data)' /\ Distinct(data, e)'
    <3> TAKE e \in Entries
    <3>1. Taken(e) => Apart(e, data) /\ Apart(data, e)
      BY <1>2, <1>3, <1>7 DEF Bounded, Apart
    <3> QED
      BY <1>3, <1>7, <3>1 DEF Distinct, Apart, EndPos
  <2>4. \A a, b \in Entries : a = b \/ Distinct(a, b)'
    BY <1>7 DEF IInv, OneRegionEach, Distinct, Apart, EndPos
  <2> QED
    BY <1>4, <2>1, <2>2, <2>3, <2>4 DEF OneRegionEach
<1>10. MapsAgree'
  <2>1. meta # NoMeta => meta.cursor \in Nat /\ meta.cursor <= Loaded'.cursor
    BY <1>2, <1>6 DEF IInv, MapsAgree, TypeOK
  <2>2. meta # NoMeta => \A i \in DOMAIN meta.map : Taken(meta.map[i])' <=> Taken(meta.map[i])
    <3> SUFFICES ASSUME meta # NoMeta, NEW i \in DOMAIN meta.map
                 PROVE  Taken(meta.map[i])' <=> Taken(meta.map[i])
      OBVIOUS
    <3>1. PICK e \in Entries : e = meta.map[i]
      BY DEF Entries
    <3> QED
      BY <1>1, <1>7, <3>1 DEF Taken
  <2> QED
    BY <1>1, <1>3, <1>6, <2>1, <2>2 DEF IInv, MapsAgree, EachOnce
<1>11. NothingBeforeLoading'
  BY <1>1 DEF NothingBeforeLoading
<1>12. SavesBehind'
  <2>1. \A v \in DOMAIN savedFiles : v \in DOMAIN files
    BY <1>5, FilesType DEF IInv, SavesBehind, TypeOK
  <2>2. \A v \in DOMAIN files' : /\ files'[v].written <= files'[v].size
                                /\ (~files'[v].made => files'[v].written = 0)
    BY <1>3 DEF IInv, SavesBehind
  <2>3. Len(savedFiles) <= Len(files')
    BY <1>3, <1>5, FilesType DEF IInv, SavesBehind, TypeOK, u
  <2>4. \A v \in DOMAIN savedFiles : /\ savedFiles[v].id = files'[v].id
                                    /\ savedFiles[v].size = files'[v].size
                                    /\ savedFiles[v].made = files'[v].made
                                    /\ savedFiles[v].written <= files'[v].written
    BY <1>3, <2>1 DEF IInv, SavesBehind
  <2> QED
    BY <1>1, <2>2, <2>3, <2>4 DEF IInv, SavesBehind
<1>13. Content'
  <2> SUFFICES ASSUME NEW e \in Entries \cup {data}, e.filename \in DOMAIN files' \ lost
               PROVE  Holds(Written', e.filename, e.startPos, files'[e.filename].written)
    BY <1>1, <1>4 DEF Content
  <2>1. CASE e = data
    BY <1>3, <2>1 DEF Holds
  <2>2. CASE e \in Entries
    <3>1. e.filename \in DOMAIN files \ lost /\ files'[e.filename] = files[e.filename]
      BY <1>3, <1>7, <2>2
    <3> QED
      BY <2>2, <3>1, EntryKept
  <2> QED
    BY <2>1, <2>2
<1>14. ASSUME StrayIds = {} PROVE Named'
  <2>1. PICK n \in Nat : DOMAIN Loaded.map = 1 .. n
    BY <1>14 DEF IInv, Named
  <2>2. NewId = n + 1
    <3>1. Cardinality(1 .. n) = n
      BY FS_Interval
    <3> QED
      BY <2>1, <3>1 DEF NewId
  <2>3. DOMAIN dataMap' = 1 .. n + 1
    BY <1>1, <2>1, <2>2 DEF Put
  <2>4. /\ \A v \in DOMAIN files \ lost : Leads(Loaded.map, v, files[v])
        /\ meta # NoMeta => \E k \in Nat : DOMAIN meta.map = 1 .. k
        /\ \A v \in DOMAIN savedFiles \ lost : Leads(meta.map, v, savedFiles[v])
    BY <1>14 DEF IInv, Named
  <2>5. \A v \in DOMAIN files \ lost : Leads(dataMap', v, files'[v])
    <3> TAKE v \in DOMAIN files \ lost
    <3>1. files[v].id \in 1 .. n /\ files[v].id # NewId /\ Loaded.map[files[v].id].filename = v
      BY <2>1, <2>2, <2>4 DEF Leads
    <3> QED
      BY <1>1, <1>3, <2>1, <3>1 DEF Leads, Put
  <2>6. Leads(dataMap', u, files'[u])
    BY <1>1, <1>3 DEF Leads, Put
  <2> QED
    BY <1>1, <1>3, <1>6, <2>3, <2>4, <2>5, <2>6 DEF Named, Leads
<1>15. IsFiniteSet(DOMAIN disk)'
  BY <1>1 DEF IInv
<1> QED
  BY <1>6, <1>9, <1>10, <1>11, <1>12, <1>13, <1>14, <1>15

LEMMA CreateKeeps ==
  ASSUME IInv, NEW h \in Handles, NEW size \in Sizes, Create(h, size)
  PROVE  IInv'
<1>0. PICK data : data = NewData(size)
  OBVIOUS
<1> DEFINE u == Len(files) + 1
           r == Object("write", NewId, data, data.startPos)
<1>1. /\ h \notin DOMAIN handles /\ Enter(size, TRUE) /\ g_cursor' = EndPos(NewData(size))
      /\ isStorageLoaded' = TRUE /\ dataMap' = Put(Loaded.map, NewId, data)
      /\ handles' = With(h, r)
      /\ UNCHANGED <<disk, meta, savedFiles, lost, ends>>
  BY <1>0 DEF Create, Enter, NewData
<1>2. Loaded.cursor \in Nat
  BY LoadedType DEF IInv
<1>3. /\ data \in DataStruct /\ data.filename = u /\ data.startPos = Loaded.cursor
      /\ NewId \in Nat /\ u \in 1 .. MaxFiles /\ u \notin DOMAIN files
      /\ DOMAIN files' = DOMAIN files \cup {u} /\ IsFiles(files')
      /\ files'[u].written = 0 /\ files'[u].made
      /\ \A v \in DOMAIN files : files'[v] = files[v]
      /\ IsDataMap(dataMap') /\ instancesNumber' \in 0 .. CounterSpan - 1
  BY <1>0, <1>1, EnterFacts
<1> HIDE DEF u
<1>4. /\ r.mode = "write" /\ r.data = data /\ r.tail = Empty /\ r.at = data.startPos /\ ~r.whole
      /\ IsObject(r)
  BY <1>2, <1>3, EmptyTypes DEF Object, IsObject, Fields, DataStruct
<1> HIDE DEF r
<1>5. /\ DOMAIN handles' = DOMAIN handles \cup {h} /\ handles'[h] = r
      /\ \A g \in DOMAIN handles : g # h /\ handles'[g] = handles[g]
      /\ \A a \in DOMAIN Written : a \in DOMAIN Written' /\ Written'[a] = Written[a]
  BY <1>1, <1>4, NewBuffer
<1>6. Entries' \subseteq Entries \cup {NewData(size)}
  <2>1. dataMap' = Put(Loaded.map, NewId, r.data)
    BY <1>1, <1>4
  <2>2. Entries' \subseteq Entries \cup {r.data}
    BY <1>1, <2>1, NewEntries
  <2> QED
    BY <1>0, <1>4, <2>2
<1>7. /\ OneRegionEach' /\ MapsAgree' /\ NothingBeforeLoading' /\ SavesBehind' /\ Content'
      /\ StrayIds = {} => Named'
      /\ IsFiniteSet(DOMAIN disk)' /\ g_cursor' \in Nat
  BY <1>1, <1>5, <1>6, EnterKeeps
<1>8. TypeOK'
  <2>1. \A g \in DOMAIN handles' : IsObject(handles[g])'
    BY <1>4, <1>5 DEF IInv, TypeOK, IsObject, IsFile
  <2> QED
    BY <1>1, <1>3, <1>5, <1>7, <2>1 DEF IInv, TypeOK, IsDataMap, IsFiles, IsFile
<1>9. \A g \in DOMAIN handles : \A m : Has(g, m)' <=> Has(g, m)
  BY <1>5 DEF Has
<1>10. u \notin lost /\ \A g \in DOMAIN handles : Has(g, "write") =>
         handles[g].data.filename \in DOMAIN files \ lost /\ handles[g].data.filename # u
  BY <1>3 DEF IInv, TypeOK, Writers, Buffers
<1>11. Writers'
  <2>1. ASSUME NEW g \in DOMAIN handles, Has(g, "write") PROVE Buffers(handles[g])'
    <3>1. Buffers(handles[g])
      BY <2>1 DEF IInv, Writers
    <3> QED
      BY <1>1, <1>3, <1>5, <1>10, <2>1, <3>1 DEF Buffers
  <2>2. Buffers(handles[h])'
    BY <1>1, <1>2, <1>3, <1>4, <1>5, <1>10, EmptyTypes DEF Buffers
  <2>3. ~ Has(h, "read")'
    BY <1>4, <1>5 DEF Has
  <2>4. \A g \in DOMAIN handles : handles'[g].data = handles[g].data /\ handles'[g].tail = handles[g].tail
    BY <1>5
  <2>5. handles'[h].data.filename = u
    BY <1>3, <1>4, <1>5
  <2> QED
    BY <1>5, <1>9, <1>10, <2>1, <2>2, <2>3, <2>4, <2>5 DEF IInv, Writers
<1>12. Readers'
  <2>1. ASSUME NEW v, Complete(v) PROVE Complete(v)'
    <3>1. v \in DOMAIN files \ lost /\ v # u
      BY <1>3, <2>1 DEF Complete
    <3>2. ~ \E g \in DOMAIN handles' : Has(g, "write")' /\ handles'[g].data.filename = v
      BY <1>3, <1>4, <1>5, <1>9, <2>1, <3>1 DEF Complete
    <3> QED
      BY <1>1, <1>3, <2>1, <3>1, <3>2 DEF Complete
  <2>2. ASSUME NEW g \in DOMAIN handles, handles[g].whole PROVE Reads(handles[g])'
    <3>1. Reads(handles[g])
      BY <2>2 DEF IInv, Readers
    <3>2. PICK v : v = handles[g].data.filename
      OBVIOUS
    <3>3. Complete(v)'
      BY <2>1, <3>1, <3>2 DEF Reads
    <3> QED
      BY <1>5, <3>1, <3>2, <3>3 DEF Reads
  <2> QED
    BY <1>4, <1>5, <2>2 DEF Readers
<1> QED
  BY <1>7, <1>8, <1>11, <1>12 DEF IInv

LEMMA CreateThrowsKeeps ==
  ASSUME IInv, NEW size \in Sizes, CreateThrows(size)
  PROVE  IInv'
<1>0. PICK data : data = NewData(size)
  OBVIOUS
<1> DEFINE u == Len(files) + 1
<1>1. /\ Enter(size, FALSE) /\ g_cursor' = Loaded.cursor /\ isStorageLoaded' = TRUE
      /\ dataMap' = Put(Loaded.map, NewId, data)
      /\ UNCHANGED <<handles, disk, meta, savedFiles, lost, ends>>
  BY <1>0 DEF CreateThrows, Enter
<1>2. /\ u \notin DOMAIN files
      /\ DOMAIN files' = DOMAIN files \cup {u} /\ IsFiles(files')
      /\ \A v \in DOMAIN files : files'[v] = files[v]
      /\ IsDataMap(dataMap') /\ instancesNumber' \in 0 .. CounterSpan - 1
  BY <1>1, EnterFacts
<1> HIDE DEF u
<1>3. Written' = Written
  BY <1>1 DEF Written, Tails
<1>4. Entries' \subseteq Entries \cup {NewData(size)}
  <2>1. Loaded'.map = Put(Loaded.map, NewId, data)
    BY <1>1 DEF Loaded
  <2>2. \A i \in DOMAIN Loaded'.map : \/ Loaded'.map[i] = data
                                      \/ i \in DOMAIN Loaded.map /\ Loaded'.map[i] = Loaded.map[i]
    BY <2>1 DEF Put
  <2> QED
    BY <1>0, <1>1, <2>2 DEF Entries
<1>5. /\ OneRegionEach' /\ MapsAgree' /\ NothingBeforeLoading' /\ SavesBehind' /\ Content'
      /\ StrayIds = {} => Named'
      /\ IsFiniteSet(DOMAIN disk)' /\ g_cursor' \in Nat
  BY <1>1, <1>3, <1>4, EnterKeeps
<1>6. TypeOK'
  BY <1>1, <1>2, <1>5 DEF IInv, TypeOK, IsDataMap, IsFiles, IsFile, IsObject
<1>7. Writers'
  BY <1>1, <1>2 DEF IInv, Writers, Has, Buffers
<1>8. Readers'
  <2>1. \A v : Complete(v) => Complete(v)'
    BY <1>1, <1>2 DEF Complete, Has
  <2> QED
    BY <1>1, <2>1 DEF IInv, Readers, Reads
<1> QED
  BY <1>5, <1>6, <1>7, <1>8 DEF IInv

\* The constructors that read, or throw before they read: what they may add is the entry
\* of no text.
LEMMA OpenedRegions ==
  ASSUME IInv, UNCHANGED <<files, meta>>, Entries' \subseteq Entries \cup {NoData},
         Loaded'.cursor = Loaded.cursor, Loaded'.map = dataMap',
         EachOnce(dataMap'), IsFiniteSet(DOMAIN dataMap')
  PROVE  OneRegionEach' /\ MapsAgree'
<1>1. \A e \in Entries : e \in DataStruct /\ e.startPos \in Nat /\ e.filesize \in Nat
  BY LoadedType DEF IInv, DataStruct
<1>2. /\ NoData \in DataStruct /\ EndPos(NoData) = 0 /\ NoData.filename = 0 /\ NoData.startPos = 0
      /\ Taken(NoData) /\ Len(files) \in Nat /\ Loaded.cursor \in Nat
  BY EmptyTypes, LoadedType, FilesType DEF EndPos, NoData, IInv, TypeOK, Taken
<1>3. \A e \in Entries : Bounded(e)' /\ (Taken(e)' <=> Taken(e))
  BY DEF IInv, OneRegionEach, Bounded, Taken, EndPos, NoData
<1>4. Bounded(NoData)'
  BY <1>2 DEF Bounded, EndPos, NoData
<1>5. \A e \in Entries : e = NoData \/ (Distinct(e, NoData)' /\ Distinct(NoData, e)')
  <2> TAKE e \in Entries
  <2>1. e = NoData \/ e.filename # 0
    BY DEF IInv, OneRegionEach, Bounded
  <2>2. Apart(e, NoData) /\ Apart(NoData, e)
    BY <1>1, <1>2 DEF Apart
  <2> QED
    BY <1>2, <2>1, <2>2 DEF Distinct, Apart, EndPos, NoData
<1>6. \A a, b \in Entries : a = b \/ Distinct(a, b)'
  BY <1>3 DEF IInv, OneRegionEach, Distinct, Apart, EndPos
<1>7. OneRegionEach'
  <2>1. \A a \in Entries' : Bounded(a)'
    BY <1>3, <1>4
  <2>2. \A a, b \in Entries' : a = b \/ Distinct(a, b)'
    BY <1>5, <1>6
  <2> QED
    BY <2>1, <2>2 DEF OneRegionEach
<1>8. MapsAgree'
  BY DEF IInv, MapsAgree, EachOnce, Taken, EndPos
<1> QED
  BY <1>7, <1>8

LEMMA OpenKeeps ==
  ASSUME IInv, NEW h \in Handles, NEW id \in Nat, Open(h, id)
  PROVE  IInv'
<1> DEFINE data == IF id \in DOMAIN Loaded.map THEN Loaded.map[id] ELSE NoData
           u    == data.filename
           r    == [Object("read", id, data, 0) EXCEPT !.whole = Complete(u)]
<1>1. /\ h \notin DOMAIN handles /\ id \in DOMAIN Loaded.map \cup StrayIds
      /\ isStorageLoaded' = TRUE
      /\ dataMap' = Put(Loaded.map, id, data)
      /\ g_cursor' = Loaded.cursor
      /\ handles' = With(h, r)
      /\ UNCHANGED <<instancesNumber, disk, meta, observer>>
  BY DEF Open
<1> USE DEF observer
<1>2. /\ Loaded.cursor \in Nat /\ IsDataMap(Loaded.map) /\ IsFiniteSet(DOMAIN Loaded.map)
      /\ EachOnce(Loaded.map)
  BY LoadedType DEF IInv, MapsAgree
<1>3. data \in DataStruct /\ (data \in Entries \/ data = NoData)
  BY LoadedType, EmptyTypes DEF Entries, IInv
<1>4. data.filename = 0 \/ \A i \in DOMAIN Loaded.map : i = id \/ Loaded.map[i].filename # data.filename
  BY <1>2 DEF EachOnce, NoData
<1> HIDE DEF data
<1>5. /\ r.mode = "read" /\ r.data = data /\ r.tail = Empty /\ r.at = 0 /\ r.currentPosition = 0
      /\ r.seen = 0 /\ r.own = TRUE /\ r.failed = FALSE /\ r.jumped = FALSE /\ r.threw = FALSE
      /\ r.id = id /\ DOMAIN r = Fields
  BY DEF Object, Fields
<1>5a. r.whole \in BOOLEAN /\ (r.whole => Complete(u))
  <2>1. r.whole = Complete(u)
    BY DEF Object
  <2>2. Complete(u) \in BOOLEAN
    BY DEF Complete
  <2> HIDE DEF r, u
  <2> QED
    BY <2>1, <2>2, Zenon
<1>6. IsObject(r)
  <2> HIDE DEF r, u
  <2>1. r.failed \in BOOLEAN /\ r.own \in BOOLEAN /\ r.jumped \in BOOLEAN /\ r.threw \in BOOLEAN
    BY <1>5, Zenon
  <2>2. {r.failed, r.whole, r.own, r.jumped, r.threw} \subseteq BOOLEAN
    BY <1>5a, <2>1, Zenon
  <2> QED
    BY <1>3, <1>5, <2>2, EmptyTypes DEF IsObject
<1> HIDE DEF r
<1>7. /\ DOMAIN handles' = DOMAIN handles \cup {h} /\ handles'[h] = r
      /\ \A g \in DOMAIN handles : g # h /\ handles'[g] = handles[g]
      /\ \A a \in DOMAIN Written : a \in DOMAIN Written' /\ Written'[a] = Written[a]
  BY <1>1, <1>5, NewBuffer
<1>8. /\ Loaded' = [cursor |-> g_cursor', map |-> dataMap'] /\ Loaded'.cursor = Loaded.cursor
      /\ Loaded'.map = dataMap' /\ Entries' \subseteq Entries \cup {NoData}
  <2>1. dataMap' = Put(Loaded.map, id, r.data)
    BY <1>1, <1>5
  <2>2. /\ Loaded' = [cursor |-> g_cursor', map |-> dataMap']
        /\ Entries' \subseteq Entries \cup {r.data}
    BY <1>1, <2>1, NewEntries
  <2> QED
    BY <1>1, <1>3, <1>5, <2>2
<1>9. IsDataMap(dataMap') /\ EachOnce(dataMap') /\ IsFiniteSet(DOMAIN dataMap')
  BY <1>1, <1>2, <1>3, <1>4, NewMap
<1>10. TypeOK'
  <2>1. \A g \in DOMAIN handles' : IsObject(handles[g])'
    BY <1>6, <1>7 DEF IInv, TypeOK, IsObject, IsFile
  <2> QED
    BY <1>1, <1>2, <1>7, <1>9, <2>1 DEF IInv, TypeOK, IsDataMap, IsFiles, IsFile
<1>11. OneRegionEach' /\ MapsAgree'
  BY <1>1, <1>3, <1>8, <1>9, OpenedRegions
<1>13. NothingBeforeLoading'
  BY <1>1 DEF NothingBeforeLoading
<1>14. SavesBehind'
  BY <1>1 DEF IInv, SavesBehind
<1>15. \A g \in DOMAIN handles : \A m : Has(g, m)' <=> Has(g, m)
  BY <1>7 DEF Has
<1>16. ~ Has(h, "write")'
  BY <1>5, <1>7 DEF Has
<1>17. Writers'
  <2>1. ASSUME NEW g \in DOMAIN handles, Has(g, "write") PROVE Buffers(handles[g])'
    <3>1. Buffers(handles[g])
      BY <2>1 DEF IInv, Writers
    <3> QED
      BY <1>1, <1>7, <2>1, <3>1 DEF Buffers
  <2>2. handles'[h].tail = Empty
    BY <1>5, <1>7
  <2>3. \A g \in DOMAIN handles : handles'[g].data = handles[g].data /\ handles'[g].tail = handles[g].tail
    BY <1>7
  <2> QED
    BY <1>7, <1>15, <1>16, <2>1, <2>2, <2>3 DEF IInv, Writers
<1>18. Content'
  <2> SUFFICES ASSUME NEW e \in Entries \cup {NoData}, e.filename \in DOMAIN files \ lost
               PROVE  Holds(Written', e.filename, e.startPos, files[e.filename].written)
    BY <1>1, <1>8 DEF Content
  <2>1. e # NoData
    BY FilesType DEF NoData, IInv, TypeOK
  <2> QED
    BY <1>7, <2>1, EntryKept
<1>19. \A v : Complete(v)' <=> Complete(v)
  <2>1. \A v : (\E g \in DOMAIN handles' : Has(g, "write")' /\ handles'[g].data.filename = v)
                <=> \E g \in DOMAIN handles : Has(g, "write") /\ handles[g].data.filename = v
    BY <1>7, <1>15, <1>16
  <2> QED
    BY <1>1, <2>1 DEF Complete
<1>20. Readers'
  <2>1. ASSUME NEW g \in DOMAIN handles, handles[g].whole PROVE Reads(handles[g])'
    <3>1. Reads(handles[g])
      BY <2>1 DEF IInv, Readers
    <3> QED
      BY <1>7, <1>19, <3>1 DEF Reads
  <2>2. ASSUME r.whole PROVE Reads(handles[h])'
    <3>1. PICK v : v = u
      OBVIOUS
    <3>1a. Complete(v)' /\ v = handles'[h].data.filename
      BY <1>5, <1>7, <1>19, <1>5a, <2>2, <3>1
    <3>2. Smaller(r.currentPosition, r.data.filesize) = 0
      BY <1>3, <1>5 DEF Smaller, DataStruct
    <3> QED
      BY <1>5, <1>7, <3>2, <3>1a DEF Reads
  <2> QED
    BY <1>7, <2>1, <2>2 DEF Readers
<1>21. ASSUME StrayIds = {} PROVE Named'
  <2>1. dataMap' = Loaded.map
    <3>1. id \in DOMAIN Loaded.map
      BY <1>1, <1>21
    <3> QED
      BY <1>1, <1>2, <3>1 DEF Put, data, IsDataMap
  <2> QED
    BY <1>1, <1>8, <1>21, <2>1 DEF IInv, Named, Leads
<1>22. IsFiniteSet(DOMAIN disk)'
  BY <1>1 DEF IInv
<1> QED
  BY <1>10, <1>11, <1>13, <1>14, <1>17, <1>18, <1>20, <1>21, <1>22 DEF IInv

LEMMA OpenThrowsKeeps ==
  ASSUME IInv, OpenThrows
  PROVE  IInv'
<1> USE DEF observer
<1>1. /\ isStorageLoaded' = TRUE /\ dataMap' = Loaded.map /\ g_cursor' = Loaded.cursor
      /\ UNCHANGED <<instancesNumber, handles, disk, meta, observer>>
  BY DEF OpenThrows
<1>2. /\ Loaded.cursor \in Nat /\ IsDataMap(Loaded.map) /\ IsFiniteSet(DOMAIN Loaded.map)
      /\ EachOnce(Loaded.map)
  BY LoadedType DEF IInv, MapsAgree
<1>3. Loaded'.map = dataMap' /\ Loaded'.cursor = Loaded.cursor
  BY <1>1 DEF Loaded
<1>4. Entries' = Entries
  BY <1>1, <1>3 DEF Entries
<1>5. Written' = Written
  BY <1>1 DEF Written, Tails
<1>6. OneRegionEach' /\ MapsAgree'
  BY <1>1, <1>2, <1>3, <1>4, OpenedRegions
<1>7. TypeOK' /\ IsFiniteSet(DOMAIN disk)'
  BY <1>1, <1>2 DEF IInv, TypeOK, IsDataMap, IsFiles, IsFile, IsObject
<1>8. NothingBeforeLoading' /\ SavesBehind'
  BY <1>1 DEF IInv, NothingBeforeLoading, SavesBehind
<1>9. Writers' /\ Readers' /\ Content'
  BY <1>1, <1>4, <1>5 DEF IInv, Writers, Readers, Reads, Content, Buffers, Has, Complete
<1>10. StrayIds = {} => Named'
  BY <1>1, <1>3 DEF IInv, Named, Leads
<1> QED
  BY <1>6, <1>7, <1>8, <1>9, <1>10 DEF IInv

-----------------------------------------------------------------------------
LEMMA SaveStorageMetaKeeps ==
  ASSUME IInv, SaveStorageMeta
  PROVE  IInv'
<1> USE DEF statics
<1>1. /\ meta' = [cursor |-> g_cursor, map |-> dataMap] /\ savedFiles' = files
      /\ lost' = (IF isStorageLoaded THEN lost ELSE DOMAIN files)
      /\ UNCHANGED <<statics, handles, disk, files, ends>>
  BY DEF SaveStorageMeta
<1>2. g_cursor \in Nat /\ IsDataMap(dataMap) /\ meta'.cursor = g_cursor /\ meta'.map = dataMap
  BY <1>1 DEF IInv, TypeOK
<1>3. meta' # NoMeta
  BY <1>2 DEF NoMeta
<1>4. Written' = Written
  BY <1>1 DEF Written, Tails
<1>5. TypeOK'
  BY <1>1, <1>2 DEF IInv, TypeOK, IsDataMap, IsFiles, IsFile, IsObject
<1>6. IsFiniteSet(DOMAIN disk)'
  BY <1>1 DEF IInv
<1>7. SavesBehind'
  BY <1>1, <1>3, FilesType DEF IInv, SavesBehind, TypeOK
<1>8. CASE isStorageLoaded
  <2>1. /\ Loaded = [cursor |-> g_cursor, map |-> dataMap]
        /\ Loaded' = [cursor |-> g_cursor, map |-> dataMap] /\ lost' = lost
    BY <1>1, <1>8 DEF Loaded
  <2>2. Entries' \subseteq Entries
    BY <1>1, <1>2, <2>1 DEF Entries
  <2>3. OneRegionEach'
    BY <1>1, <2>1, <2>2, RegionsStay
  <2>4. \A i \in DOMAIN dataMap : Taken(dataMap[i]) => EndPos(dataMap[i]) <= g_cursor
    BY <2>1 DEF IInv, OneRegionEach, Bounded, Entries
  <2>5. MapsAgree'
    BY <1>1, <1>2, <2>1, <2>4 DEF IInv, MapsAgree, EachOnce, Taken, EndPos
  <2>6. NothingBeforeLoading'
    BY <1>1, <1>8 DEF NothingBeforeLoading
  <2>7. Writers'
    BY <1>1, <2>1 DEF IInv, Writers, Has, Buffers
  <2>8. Content'
    BY <1>1, <1>4, <2>1, <2>2 DEF IInv, Content
  <2>9. Readers'
    BY <1>1, <2>1 DEF IInv, Readers, Reads, Complete, Has
  <2>10. StrayIds = {} => Named'
    BY <1>1, <1>2, <2>1 DEF IInv, Named, Leads
  <2> QED
    BY <1>5, <1>6, <1>7, <2>3, <2>5, <2>6, <2>7, <2>8, <2>9, <2>10 DEF IInv
<1>9. CASE ~isStorageLoaded
  <2>1. /\ g_cursor = 0 /\ dataMap = Empty /\ handles = Empty /\ lost' = DOMAIN files
        /\ DOMAIN dataMap = {} /\ DOMAIN handles = {}
    BY <1>1, <1>9, EmptyTypes DEF IInv, NothingBeforeLoading
  <2>2. Loaded' = [cursor |-> 0, map |-> Empty] /\ Entries' = {}
    <3>1. Loaded' = [cursor |-> 0, map |-> Empty]
      BY <1>1, <1>3, <1>9, <2>1 DEF Loaded
    <3> QED
      BY <1>1, <1>2, <2>1, <3>1, EmptyTypes DEF Entries
  <2>3. OneRegionEach' /\ Content'
    BY <2>2 DEF OneRegionEach, Content
  <2>4. MapsAgree'
    BY <1>1, <1>2, <2>1, <2>2, EmptyTypes, FS_EmptySet DEF MapsAgree, EachOnce
  <2>5. NothingBeforeLoading'
    BY <1>1, <1>9 DEF IInv, NothingBeforeLoading
  <2>6. Writers' /\ Readers'
    BY <1>1, <2>1 DEF Writers, Readers
  <2>7. Named'
    <3>1. DOMAIN Empty = 1 .. 0
      BY EmptyTypes
    <3> QED
      BY <1>1, <1>2, <2>1, <2>2, <3>1 DEF Named
  <2> QED
    BY <1>5, <1>6, <1>7, <2>3, <2>4, <2>5, <2>6, <2>7 DEF IInv
<1> QED
  BY <1>8, <1>9

LEMMA ProcessEndsKeeps ==
  ASSUME IInv, ProcessEnds
  PROVE  IInv'
<1> DEFINE Missed(cut) == {p \in Tails : p[2] >= cut[p[1]]}
           Gone(cut)   == {p[2] : p \in Missed(cut)}
<1>1. PICK cut \in Cuts :
        /\ ends < MaxEnds /\ ends' = ends + 1
        /\ instancesNumber' = 0 /\ g_cursor' = 0 /\ dataMap' = Empty /\ isStorageLoaded' = FALSE
        /\ handles' = Empty
        /\ disk' = [a \in DOMAIN Written \ (Gone(cut) \ DOMAIN disk) |->
                      IF a \in Gone(cut) THEN disk[a] ELSE Written[a]]
        /\ lost' = lost \cup SavedIn(Gone(cut)) \cup (DOMAIN files \ DOMAIN savedFiles)
        /\ files' = [u \in DOMAIN files |-> IF u \in DOMAIN savedFiles THEN savedFiles[u] ELSE files[u]]
        /\ UNCHANGED <<meta, savedFiles>>
  BY DEF ProcessEnds
<1> DEFINE gone == Gone(cut)
<1>2. /\ \A p \in Tails : p[1] \in DOMAIN handles /\ p[2] \in DOMAIN handles[p[1]].tail
      /\ \A a \in gone : \E p \in Tails : p[2] = a
  BY DEF Tails
<1> HIDE DEF gone
<1>3. /\ DOMAIN handles' = {} /\ DOMAIN Empty = {}
      /\ Loaded' = (IF meta = NoMeta THEN [cursor |-> 0, map |-> Empty] ELSE meta)
  BY <1>1, EmptyTypes DEF Loaded
<1>4. /\ DOMAIN Loaded'.map = IF meta = NoMeta THEN {} ELSE DOMAIN meta.map
      /\ meta # NoMeta => Loaded'.map = meta.map /\ Loaded'.cursor = meta.cursor
      /\ meta = NoMeta => Loaded'.map = Empty /\ Loaded'.cursor = 0
  BY <1>3
<1>5. Entries' = IF meta = NoMeta THEN {} ELSE {meta.map[i] : i \in DOMAIN meta.map}
  BY <1>1, <1>3, <1>4 DEF Entries
<1>6. Entries' \subseteq Entries
  BY <1>5 DEF Entries
<1>7. /\ DOMAIN files = 1 .. Len(files) /\ Len(files) \in 0 .. MaxFiles /\ IsFiles(files)
      /\ DOMAIN savedFiles = 1 .. Len(savedFiles) /\ IsFiles(savedFiles)
      /\ DOMAIN savedFiles \subseteq DOMAIN files
  <2>1. IsFiles(files) /\ IsFiles(savedFiles)
    BY DEF IInv, TypeOK
  <2>2. /\ DOMAIN files = 1 .. Len(files) /\ Len(files) \in 0 .. MaxFiles
        /\ DOMAIN savedFiles = 1 .. Len(savedFiles) /\ Len(savedFiles) \in 0 .. MaxFiles
    BY <2>1, FilesType
  <2> QED
    BY <2>1, <2>2 DEF IInv, SavesBehind
<1>8. /\ DOMAIN files' = DOMAIN files /\ Len(files') = Len(files) /\ IsFiles(files')
      /\ \A u \in DOMAIN savedFiles : files'[u] = savedFiles[u]
      /\ \A u \in DOMAIN files \ DOMAIN savedFiles : files'[u] = files[u]
  <2>1. \A u \in DOMAIN files : files'[u] \in Text
    BY <1>1, <1>7, FilesType
  <2>2. files' \in [1 .. Len(files) -> Text]
    BY <1>1, <1>7, <2>1
  <2>3. files' \in Seq(Text) /\ Len(files') = Len(files)
    BY <1>7, <2>2
  <2> QED
    BY <1>1, <1>7, <2>3 DEF IsFiles
<1>9. \A u \in DOMAIN files : files'[u].size = files[u].size /\ files'[u].made = files[u].made
  BY <1>7, <1>8 DEF IInv, SavesBehind
<1>10. /\ DOMAIN disk' = DOMAIN Written \ (gone \ DOMAIN disk)
       /\ \A a \in DOMAIN disk' : disk'[a] = IF a \in gone THEN disk[a] ELSE Written[a]
  BY <1>1 DEF gone
<1>11. IsFile(disk') /\ IsFiniteSet(DOMAIN disk')
  <2> DEFINE B == Byte \cup {Hole}
  <2>1. \A a \in DOMAIN disk : disk[a] \in B
    BY DEF IInv, TypeOK, IsFile
  <2>2. \A h \in DOMAIN handles : \A a \in DOMAIN handles[h].tail : handles[h].tail[a] \in B
    BY DEF IInv, TypeOK, IsObject, IsFile
  <2> HIDE DEF B
  <2>3. \A a \in DOMAIN Written : Written[a] \in B
    BY <2>1, <2>2, WrittenCells
  <2>4. \A a \in DOMAIN disk' : disk'[a] \in B
    BY <1>10, <2>1, <2>3
  <2>5. disk' = [a \in DOMAIN disk' |-> disk'[a]]
    BY <1>1
  <2>6. DOMAIN disk' \subseteq DOMAIN Written /\ DOMAIN Written \subseteq Nat
    BY <1>10, WrittenCells
  <2>7. PICK m \in Nat : \A a \in DOMAIN disk : a < m
    BY FiniteIsBounded DEF IInv, TypeOK, IsFile
  <2>8. ASSUME NEW a \in DOMAIN Written PROVE a < m + Loaded.cursor
    <3>1. Loaded.cursor \in Nat /\ a \in Nat
      BY <2>6, LoadedType DEF IInv
    <3>2. CASE a \in DOMAIN disk
      BY <2>7, <3>1, <3>2
    <3>3. CASE \E h \in DOMAIN handles : a \in DOMAIN handles[h].tail
      <4>1. PICK h \in DOMAIN handles : a \in DOMAIN handles[h].tail
        BY <3>3
      <4>2. handles[h].data \in Entries /\ a < EndPos(handles[h].data) /\ handles[h].data \in DataStruct
            /\ Taken(handles[h].data)
        BY <4>1, BufferedByte
      <4>3. EndPos(handles[h].data) <= Loaded.cursor /\ EndPos(handles[h].data) \in Nat
        BY <4>2 DEF IInv, OneRegionEach, Bounded, EndPos, DataStruct
      <4> QED
        BY <3>1, <4>2, <4>3
    <3> QED
      BY <3>2, <3>3, WrittenCells
  <2>9. m + Loaded.cursor \in Nat
    BY LoadedType DEF IInv
  <2>10. IsFiniteSet(DOMAIN disk')
    BY <2>6, <2>8, <2>9, FiniteIsBounded
  <2>11. IsFile(disk')
    BY <2>4, <2>5, <2>6 DEF IsFile, B
  <2> QED
    BY <2>10, <2>11
<1>12. lost' = lost \cup SavedIn(gone) \cup (DOMAIN files \ DOMAIN savedFiles)
  BY <1>1 DEF gone
<1>13. TypeOK'
  <2>1. lost' \subseteq DOMAIN files'
    BY <1>7, <1>8, <1>12 DEF SavedIn, IInv, TypeOK
  <2>2. instancesNumber' \in 0 .. CounterSpan - 1 /\ ends' \in 0 .. MaxEnds
    BY <1>1, FileAssumption DEF IInv, TypeOK
  <2>3. IsDataMap(dataMap')
    BY <1>1, EmptyTypes
  <2> QED
    BY <1>1, <1>3, <1>7, <1>8, <1>11, <2>1, <2>2, <2>3
       DEF IInv, TypeOK, IsDataMap, IsFiles, IsFile
<1>14. \A a \in Entries : Taken(a)' <=> Taken(a)
  BY <1>9, TakenStays DEF Taken
<1>15. OneRegionEach' /\ MapsAgree'
  <2>1. \A a \in Entries : a.filename \in Nat /\ a.filename <= Len(files)
    BY LoadedType DEF IInv, OneRegionEach, Bounded, DataStruct
  <2>2. \A a \in Entries : a.filename # 0 => a.filename \in DOMAIN files
    BY <1>7, <2>1
  <2>3. \A a \in Entries' : Taken(a) => EndPos(a) <= Loaded'.cursor
    BY <1>4, <1>5 DEF IInv, MapsAgree
  <2>4. \A a \in Entries' : Bounded(a)'
    BY <1>6, <1>8, <1>9, <1>14, <2>2, <2>3 DEF IInv, OneRegionEach, Bounded, EndPos, NoData
  <2>5. \A a, b \in Entries : a = b \/ Distinct(a, b)'
    BY <1>14 DEF IInv, OneRegionEach, Distinct, Apart, EndPos
  <2>6. meta # NoMeta => meta.cursor \in Nat
    BY DEF IInv, TypeOK
  <2>7. meta # NoMeta => \A i \in DOMAIN meta.map : Taken(meta.map[i])' <=> Taken(meta.map[i])
    <3> SUFFICES ASSUME meta # NoMeta, NEW i \in DOMAIN meta.map
                 PROVE  Taken(meta.map[i])' <=> Taken(meta.map[i])
      OBVIOUS
    <3>1. PICK e \in Entries : e = meta.map[i]
      BY DEF Entries
    <3> QED
      BY <1>1, <1>14, <3>1 DEF Taken
  <2>8. OneRegionEach'
    BY <1>6, <2>4, <2>5 DEF OneRegionEach
  <2>9. MapsAgree'
    BY <1>1, <1>3, <1>4, <2>6, <2>7, FS_EmptySet DEF IInv, MapsAgree, EachOnce
  <2> QED
    BY <2>8, <2>9
<1>16. NothingBeforeLoading'
  BY <1>1 DEF NothingBeforeLoading
<1>17. SavesBehind'
  <2>1. \A u \in DOMAIN files : /\ files[u].written \in Nat /\ files[u].size \in Nat
                               /\ files[u].written <= files[u].size
                               /\ (~files[u].made => files[u].written = 0)
    BY <1>7, FilesType DEF IInv, SavesBehind
  <2>2. \A u \in DOMAIN savedFiles :
          /\ savedFiles[u].written \in Nat /\ savedFiles[u].size = files[u].size
          /\ savedFiles[u].written <= files[u].written /\ u \in DOMAIN files
          /\ savedFiles[u].made = files[u].made
    BY <1>7, FilesType DEF IInv, SavesBehind
  <2>3. \A u \in DOMAIN files' : /\ files'[u].written <= files'[u].size
                                /\ (~files'[u].made => files'[u].written = 0)
    BY <1>8, <2>1, <2>2
  <2> QED
    BY <1>1, <1>8, <2>2, <2>3 DEF IInv, SavesBehind
<1>18. Writers' /\ Readers'
  BY <1>3 DEF Writers, Readers
<1>19. Written' = disk'
  <2>1. OneBuffer(handles')
    BY <1>3 DEF OneBuffer
  <2>2. Tails' = {}
    BY <1>3 DEF Tails
  <2>3. disk' = [a \in DOMAIN disk' |-> disk'[a]]
    BY <1>1
  <2> QED
    BY <2>2, <2>3 DEF Written
<1>20. Content'
  <2> SUFFICES ASSUME NEW e \in Entries', e.filename \in DOMAIN files' \ lost'
               PROVE  Holds(disk', e.filename, e.startPos, files'[e.filename].written)
    BY <1>19 DEF Content
  <2> DEFINE u == e.filename
             n == savedFiles[u].written
  <2>1. /\ e \in Entries /\ u \in DOMAIN savedFiles /\ u \in DOMAIN files \ lost /\ u # 0
        /\ files'[u] = savedFiles[u] /\ u \notin SavedIn(gone) /\ e \in DataStruct
    BY <1>6, <1>7, <1>8, <1>12, LoadedType DEF IInv
  <2>2. e.startPos \in Nat /\ e.filesize \in Nat /\ n \in Nat /\ files[u].written \in Nat
        /\ n <= files[u].written /\ files[u].written <= e.filesize
        /\ (~Taken(e) => n = 0)
    BY <1>7, <2>1, FilesType DEF IInv, SavesBehind, OneRegionEach, Bounded, Taken, DataStruct
  <2>3. Holds(Written, u, e.startPos, files[u].written)
    BY <2>1 DEF IInv, Content
  <2>4. Holds(Written, u, e.startPos, n)
    BY <2>2, <2>3 DEF Holds
  <2>5. ASSUME NEW a \in Nat, e.startPos <= a, a < e.startPos + n, a \in DOMAIN Written
        PROVE  a \in DOMAIN disk' /\ disk'[a] = Written[a]
    <3>1. ASSUME a \in gone PROVE FALSE
      <4>1. PICK p \in Tails : p[2] = a
        BY <1>2, <3>1
      <4>2. p[1] \in DOMAIN handles /\ a \in DOMAIN handles[p[1]].tail
        BY <1>2, <4>1
      <4>3. /\ handles[p[1]].data \in Entries /\ handles[p[1]].data.startPos <= a
            /\ a < EndPos(handles[p[1]].data) /\ Taken(handles[p[1]].data)
        BY <4>2, BufferedByte
      <4>4. a < EndPos(e)
        BY <2>2, <2>5 DEF EndPos
      <4>5. handles[p[1]].data = e
        BY <2>1, <2>2, <2>5, <4>3, <4>4, OwnAddress
      <4> QED
        BY <2>1, <2>5, <3>1, <4>1, <4>5 DEF SavedIn
    <3> QED
      BY <1>10, <2>5, <3>1
  <2>6. Holds(disk', u, e.startPos, n)
    BY <2>2, <2>4, <2>5, HoldsStay
  <2> QED
    BY <2>1, <2>6
<1>21. ASSUME StrayIds = {} PROVE Named'
  <2>1. \E n \in Nat : DOMAIN Loaded'.map = 1 .. n
    <3>1. CASE meta = NoMeta
      <4>1. DOMAIN Loaded'.map = 1 .. 0
        BY <1>4, <3>1
      <4> QED
        BY <4>1
    <3>2. CASE meta # NoMeta
      BY <1>4, <1>21, <3>2 DEF IInv, Named
    <3> QED
      BY <3>1, <3>2
  <2>2. \A u \in DOMAIN files' \ lost' : /\ u \in DOMAIN savedFiles \ lost /\ meta # NoMeta
                                        /\ files'[u] = savedFiles[u]
    BY <1>7, <1>8, <1>12 DEF IInv, SavesBehind
  <2>3. \A u \in DOMAIN savedFiles \ lost' : u \notin lost
    BY <1>12
  <2> QED
    BY <1>1, <1>4, <1>21, <2>1, <2>2, <2>3 DEF IInv, Named, Leads
<1> QED
  BY <1>11, <1>13, <1>14, <1>15, <1>16, <1>17, <1>18, <1>20, <1>21 DEF IInv

-----------------------------------------------------------------------------
LEMMA PositionsAreNat == Positions \subseteq Nat
BY FileAssumption DEF Positions

LEMMA NextIInv == IInv /\ [Next]_vars => IInv'
<1> SUFFICES ASSUME IInv, [Next]_vars PROVE IInv'
  OBVIOUS
<1>1. ASSUME NEW h \in Handles, NEW size \in Sizes, Create(h, size) PROVE IInv'
  BY <1>1, CreateKeeps
<1>2. ASSUME NEW h \in Handles, NEW id \in 0 .. MaxFiles, Open(h, id) PROVE IInv'
  BY <1>2, OpenKeeps
<1>3. ASSUME NEW h \in Handles, Destroy(h) PROVE IInv'
  BY <1>3, DestroyKeeps
<1>4. ASSUME NEW h \in Handles, Write(h) PROVE IInv'
  BY <1>4, WriteKeeps
<1>5. ASSUME NEW h \in Handles, NEW pos \in Positions, ReadPart(h, pos) PROVE IInv'
  <2>1. pos \in Nat
    BY PositionsAreNat
  <2> QED
    BY <1>5, <2>1, ReadPartKeeps
<1>6. ASSUME NEW h \in Handles, ReadNext(h) PROVE IInv'
  BY <1>6, ReadNextKeeps
<1>7. CASE SaveStorageMeta
  BY <1>7, SaveStorageMetaKeeps
<1>8. CASE ProcessEnds
  BY <1>8, ProcessEndsKeeps
<1>9. ASSUME NEW size \in Sizes, CreateThrows(size) PROVE IInv'
  BY <1>9, CreateThrowsKeeps
<1>10. CASE OpenThrows
  BY <1>10, OpenThrowsKeeps
<1>11. CASE UNCHANGED vars
  <2> USE <1>11 DEF vars, statics, observer
  <2>1. Loaded' = Loaded /\ Written' = Written /\ Entries' = Entries
    BY DEF Loaded, Written, Tails, Entries
  <2>2. TypeOK' /\ IsFiniteSet(DOMAIN disk)'
    BY DEF IInv, TypeOK, IsDataMap, IsFile, IsFiles, IsObject
  <2>3. OneRegionEach' /\ MapsAgree' /\ NothingBeforeLoading' /\ SavesBehind'
    BY <2>1 DEF IInv, OneRegionEach, Bounded, Distinct, Taken, MapsAgree, EachOnce,
                 NothingBeforeLoading, SavesBehind, Apart, EndPos
  <2>4. Writers' /\ Readers' /\ Content'
    BY <2>1 DEF IInv, Writers, Readers, Reads, Content, Buffers, Has, Complete
  <2>5. StrayIds = {} => Named'
    BY <2>1 DEF IInv, Named, Leads
  <2> QED
    BY <2>2, <2>3, <2>4, <2>5 DEF IInv
<1> QED
  BY <1>1, <1>2, <1>3, <1>4, <1>5, <1>6, <1>7, <1>8, <1>9, <1>10, <1>11 DEF Next

\* The inductive invariant, for every set of objects, sizes, chunk and bounds.
THEOREM Invariance == Spec => []IInv
<1>1. Init => IInv
  BY InitIInv
<1>2. IInv /\ [Next]_vars => IInv'
  BY NextIInv
<1> QED
  BY <1>1, <1>2, PTL DEF Spec

\* The static members, the objects, the files and the observer keep their types.
THEOREM TypeCorrect == Spec => []TypeOK
<1>1. IInv => TypeOK
  BY DEF IInv
<1> QED
  BY <1>1, Invariance, PTL

\* The regions of dataMap are disjoint and lie below g_cursor, for every text whose
\* constructor did not throw, whatever ids callers ask for, however many objects write and
\* whenever a file does not open or the process ends (cpp:17-38, 94-98, 141-177).
THEOREM RegionsStayOwned == Spec => []RegionsOwned
<1>1. IInv => RegionsOwned
  <2> SUFFICES ASSUME IInv, NEW i \in DOMAIN Loaded.map, Taken(Loaded.map[i])
               PROVE  /\ EndPos(Loaded.map[i]) <= Loaded.cursor
                      /\ \A j \in DOMAIN Loaded.map : Taken(Loaded.map[j]) /\ i # j =>
                           \/ EndPos(Loaded.map[i]) <= Loaded.map[j].startPos
                           \/ EndPos(Loaded.map[j]) <= Loaded.map[i].startPos
    BY DEF RegionsOwned
  <2>1. \A j \in DOMAIN Loaded.map : Loaded.map[j] \in Entries
    BY DEF Entries
  <2>2. ASSUME NEW j \in DOMAIN Loaded.map, i # j, Loaded.map[i] = Loaded.map[j]
        PROVE  EndPos(Loaded.map[i]) <= Loaded.map[j].startPos
    <3>1. Loaded.map[i].filename = 0
      BY <2>2 DEF IInv, MapsAgree, EachOnce
    <3>2. Loaded.map[i] = NoData
      BY <2>1, <3>1 DEF IInv, OneRegionEach, Bounded
    <3> QED
      BY <2>2, <3>2 DEF NoData, EndPos
  <2> QED
    BY <2>1, <2>2 DEF IInv, OneRegionEach, Bounded, Distinct, Apart
<1> QED
  BY <1>1, Invariance, PTL

\* An object opened on a complete text reads that text and nothing else, and its
\* reading loop ends with the whole of it (cpp:61-103).
THEOREM ReadsStayOwn == Spec => []ReadsOwnBytes
<1>1. IInv => ReadsOwnBytes
  <2> SUFFICES ASSUME IInv, NEW h \in DOMAIN handles, handles[h].whole
               PROVE  LET r == handles[h]
                          n == r.data.filesize
                      IN  /\ r.own /\ ~r.failed
                          /\ r.seen = Smaller(r.currentPosition, n)
                          /\ ~r.jumped /\ IsEnd(r) => r.seen = n
                          /\ ~r.jumped /\ n > 0 => ~r.threw
    BY DEF ReadsOwnBytes
  <2> DEFINE r == handles[h]
             n == r.data.filesize
  <2>1. Reads(r)
    BY DEF IInv, Readers
  <2>2. /\ r.data.startPos \in Nat /\ n \in Nat /\ r.currentPosition \in Nat
        /\ r.seen \in Nat /\ r.at \in Nat
    BY DEF IInv, TypeOK, IsObject, DataStruct
  <2>3. ASSUME ~r.jumped, IsEnd(r) PROVE r.seen = n
    BY <2>1, <2>2, <2>3 DEF Reads, IsEnd, EndPos, Smaller
  <2> QED
    BY <2>1, <2>3 DEF Reads
<1> QED
  BY <1>1, Invariance, PTL

\* Callers that ask only for ids they were given find every text under its id, with its
\* name, its size and all bytes written to it, unless it is among those a restart or a
\* save is known to damage (cpp:17-32, 105-177).
THEOREM TextsKept ==
  ASSUME StrayIds = {}
  PROVE  Spec => []FilesKept
<1>1. IInv => FilesKept
  <2> SUFFICES ASSUME IInv, NEW u \in DOMAIN files \ lost
               PROVE  LET f == files[u]
                      IN  /\ f.id \in DOMAIN Loaded.map
                          /\ Loaded.map[f.id].filename = u /\ Loaded.map[f.id].filesize = f.size
                          /\ Slice(Written, Loaded.map[f.id].startPos, f.written) = Bytes(u, 0, f.written)
    BY DEF FilesKept
  <2> DEFINE f == files[u]
             d == Loaded.map[f.id]
  <2>1. f.id \in DOMAIN Loaded.map /\ d.filename = u
    BY DEF IInv, Named, Leads
  <2>2. /\ d \in Entries /\ u # 0 /\ f.written \in Nat /\ d.startPos \in Nat
    <3>1. u # 0 /\ f.written \in Nat
      BY FilesType DEF IInv, TypeOK
    <3>2. d \in Entries /\ d \in DataStruct
      BY <2>1, LoadedType DEF IInv, Entries
    <3> QED
      BY <3>1, <3>2 DEF DataStruct
  <2>3. d.filesize = f.size
    BY <2>1, <2>2 DEF IInv, OneRegionEach, Bounded
  <2>4. Holds(Written, u, d.startPos, f.written)
    BY <2>1, <2>2 DEF IInv, Content
  <2>5. ASSUME NEW i \in 1 .. f.written PROVE Cell(Written, d.startPos + i - 1) = <<u, 0 + i - 1>>
    <3>1. i - 1 \in 0 .. f.written - 1 /\ d.startPos + (i - 1) = d.startPos + i - 1 /\ 0 + i - 1 = i - 1
      BY <2>2
    <3> QED
      BY <2>4, <3>1 DEF Holds, Cell
  <2>6. Slice(Written, d.startPos, f.written) = Bytes(u, 0, f.written)
    BY <2>5 DEF Slice, Bytes
  <2> QED
    BY <2>1, <2>3, <2>6
<1> QED
  BY <1>1, Invariance, PTL

-----------------------------------------------------------------------------
LEMMA ReadNextMovesOn ==
  ASSUME IInv, NEW h, ReadNext(h)
  PROVE  LoopMovesOn(h)
<1> DEFINE r    == handles[h]
           cp   == r.currentPosition
           next == AfterRead(r, cp)
           read == next.at - (r.data.startPos + cp)
           size == r.data.filesize
<1>1. Has(h, "read") /\ h \in DOMAIN handles /\ ~r.threw
  BY DEF ReadNext, Has
<1>2. handles' = With(h, IF cp >= size
                         THEN [r EXCEPT !.threw = TRUE]
                         ELSE [next EXCEPT !.currentPosition = Advance(next), !.seen = @ + read])
  BY DEF ReadNext
<1>3. IsObject(r) /\ cp \in Nat /\ size \in Nat
  BY <1>1, ReaderFacts
<1>4. cp < size => SameButRead(next, r)
  BY <1>1, <1>3, AfterReadFacts
<1> HIDE DEF next
<1>5. CASE cp >= size
  <2> DEFINE new == [r EXCEPT !.threw = TRUE]
  <2>1. handles'[h] = new
    BY <1>1, <1>2, <1>5 DEF With, Put
  <2>2. new.threw = TRUE /\ new.data = r.data /\ new.currentPosition = cp
    BY <1>3 DEF IsObject, Fields
  <2> QED
    BY <1>3, <2>1, <2>2 DEF LoopMovesOn
<1>6. CASE cp < size
  <2> DEFINE new == [next EXCEPT !.currentPosition = Advance(next), !.seen = @ + read]
  <2>1. handles' = With(h, new)
    BY <1>2, <1>3, <1>6
  <2>2. handles'[h] = new
    BY <1>1, <2>1 DEF With, Put
  <2>3. DOMAIN next = Fields /\ next.currentPosition = cp /\ next.data = r.data /\ next.threw = r.threw
    BY <1>4, <1>6 DEF SameButRead, Fields
  <2>4. new.currentPosition = cp + Chunk /\ new.data = r.data /\ new.threw = r.threw
    BY <2>3 DEF Advance, Fields
  <2>5. cp + Chunk > cp
    BY <1>3, FileAssumption
  <2> HIDE DEF new
  <2>6. /\ handles'[h].currentPosition > cp /\ handles'[h].currentPosition >= cp
        /\ handles'[h].data = r.data
    BY <1>3, <2>2, <2>4, <2>5, FileAssumption
  <2> QED
    BY <1>1, <1>6, <2>6 DEF LoopMovesOn
<1> QED
  BY <1>3, <1>5, <1>6

\* An object that another one's step, or a step of no object, leaves as it is.
LEMMA LeftAlone ==
  ASSUME IInv, NEW h, Has(h, "read"), ~ReadNext(h), handles'[h] = handles[h]
  PROVE  LoopMovesOn(h)
<1>1. handles[h].currentPosition \in Nat
  BY ReaderFacts
<1> QED
  BY <1>1 DEF LoopMovesOn

\* A write changes its own object only.
LEMMA WriteIsOwn ==
  ASSUME NEW h, Write(h)
  PROVE  Has(h, "write") /\ \E r : handles' = With(h, r)
<1> DEFINE r == handles[h]
           w == files[r.data.filename].written
           n == Smaller(Chunk, r.data.filesize - w)
           tail == Over(Place(Bytes(r.data.filename, w, n), r.at), r.tail)
           After(cut) == [r EXCEPT !.at = @ + n, !.tail = From(tail, cut)]
<1>1. Has(h, "write")
  BY Zenon DEF Write
<1>2. PICK cut \in {r.data.startPos, r.at + n} :
        /\ disk' = Over(Before(tail, cut), disk)
        /\ handles' = With(h, After(cut))
  BY Zenon DEF Write
<1> HIDE DEF After
<1> QED
  BY <1>1, <1>2

LEMMA StepMovesOn ==
  ASSUME IInv, [Next]_vars, NEW h \in DOMAIN handles \cap DOMAIN handles', Has(h, "read")
  PROVE  LoopMovesOn(h)
<1> SUFFICES ASSUME ~ReadNext(h) PROVE LoopMovesOn(h)
  BY ReadNextMovesOn
<1>1. ASSUME NEW g, NEW r, g # h, handles' = With(g, r) PROVE handles'[h] = handles[h]
  BY <1>1 DEF With, Put
<1>2. ASSUME NEW g \in Handles, NEW size \in Sizes, Create(g, size) PROVE handles'[h] = handles[h]
  <2>1. g \notin DOMAIN handles /\ \E r : handles' = With(g, r)
    BY <1>2 DEF Create
  <2> QED
    BY <1>1, <2>1
<1>3. ASSUME NEW g \in Handles, NEW id \in 0 .. MaxFiles, Open(g, id) PROVE handles'[h] = handles[h]
  <2>1. g \notin DOMAIN handles /\ \E r : handles' = With(g, r)
    BY <1>3 DEF Open
  <2> QED
    BY <1>1, <2>1
<1>4. ASSUME NEW g \in Handles, Destroy(g) PROVE handles'[h] = handles[h]
  <2>1. handles' = [f \in DOMAIN handles \ {g} |-> handles[f]]
    BY <1>4 DEF Destroy
  <2> QED
    BY <2>1
<1>5. ASSUME NEW g \in Handles, Write(g) PROVE handles'[h] = handles[h]
  BY <1>1, <1>5, WriteIsOwn DEF Has
<1>6. ASSUME NEW g \in Handles, NEW pos \in Positions, ReadPart(g, pos), g # h
      PROVE  handles'[h] = handles[h]
  BY <1>1, <1>6 DEF ReadPart
<1>7. ASSUME NEW pos \in Positions, ReadPart(h, pos) PROVE LoopMovesOn(h)
  <2> DEFINE r    == handles[h]
             next == AfterRead(r, pos)
  <2>1. pos \in Nat /\ pos < r.data.filesize /\ handles' = With(h, [next EXCEPT !.jumped = TRUE])
    BY <1>7, PositionsAreNat DEF ReadPart
  <2>2. SameButRead(next, r) /\ r.currentPosition \in Nat
    BY <2>1, AfterReadFacts, ReaderFacts
  <2> HIDE DEF next
  <2>3. handles'[h] = [next EXCEPT !.jumped = TRUE]
    BY <2>1 DEF With, Put
  <2>4. /\ handles'[h].data = r.data /\ handles'[h].currentPosition = r.currentPosition
        /\ handles'[h].threw = r.threw
    BY <2>2, <2>3 DEF SameButRead, Fields
  <2> QED
    BY <2>2, <2>4 DEF LoopMovesOn
<1>8. ASSUME NEW g \in Handles, ReadNext(g) PROVE handles'[h] = handles[h]
  <2>1. g # h /\ \E r : handles' = With(g, r)
    BY <1>8 DEF ReadNext
  <2> QED
    BY <1>1, <2>1
<1>9. CASE SaveStorageMeta \/ UNCHANGED vars
  <2>1. handles' = handles
    BY <1>9 DEF SaveStorageMeta, vars
  <2> QED
    BY <2>1, LeftAlone
<1>10. CASE ProcessEnds
  <2>1. handles' = Empty
    BY <1>10 DEF ProcessEnds
  <2> QED
    BY <2>1, EmptyTypes
<1>11. ASSUME NEW size \in Sizes, CreateThrows(size) PROVE LoopMovesOn(h)
  <2>1. handles' = handles
    BY <1>11 DEF CreateThrows
  <2> QED
    BY <2>1, LeftAlone
<1>12. CASE OpenThrows
  <2>1. handles' = handles
    BY <1>12 DEF OpenThrows
  <2> QED
    BY <2>1, LeftAlone
<1> QED
  BY <1>2, <1>3, <1>4, <1>5, <1>6, <1>7, <1>8, <1>9, <1>10, <1>11, <1>12, LeftAlone DEF Next

\* Whatever the file holds, whether or not the stream has failed, and whoever else reads,
\* writes or is destroyed, each turn of the loop moves on or throws, and nothing moves it
\* back; with a caller that goes on reading, this is why the loop ends (cpp:61-103).
THEOREM LoopsAdvance == Spec => LoopAdvances
<1>1. IInv /\ [Next]_vars
      => [\A h \in DOMAIN handles \cap DOMAIN handles' : Has(h, "read") => LoopMovesOn(h)]_vars
  BY StepMovesOn
<1> QED
  BY <1>1, Invariance, PTL DEF Spec, LoopAdvances

=============================================================================
