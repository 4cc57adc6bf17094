----------------------- MODULE MultiFileIndexStorage -----------------------
(***************************************************************************)
(* The inverted index in many files: class MultiFileIndexStorage.  Every   *)
(* call of createIndex writes a batch to a file of its own, numbered by a  *)
(* counter; the object keeps, for each token, the list of (file, offset)   *)
(* where its lines are.  saveStorageMeta cuts the counter off the metadata *)
(* file and appends all lists and the counter once more; of the lists of a *)
(* token the last in the file counts.  Map and counter belong to the       *)
(* object, the flag that they have been loaded to the process.             *)
(*                                                                         *)
(* A line of an index file is one cell and its offset its place: what an   *)
(* offset finds in a file that was overwritten is not told apart further.  *)
(***************************************************************************)
EXTENDS StreamFile, FiniteSets, Functions
F == INSTANCE FiniteSetsExt

CONSTANTS
  Tokens,
  ColonTokens,  \* tokens whose line begins like the line of the counter
  BlankTokens,  \* tokens with white space in them, which loading cannot read back
  NoMeta,
  MaxBatch,     \* bound: tokens of a batch
  MaxRows,      \* bound: batches with one token
  MaxFiles,     \* bound: the counter
  MaxLines,     \* bound: lines of the metadata file
  MaxEnds       \* bound: times the process ends and is started again

ASSUME MultiAssumption ==
  /\ ColonTokens \subseteq Tokens /\ BlankTokens \subseteq Tokens
  /\ ColonTokens \cap BlankTokens = {}
  /\ MaxBatch \in Nat /\ MaxRows \in Nat /\ MaxFiles \in Nat /\ MaxLines \in Nat /\ MaxEnds \in Nat

VARIABLES
  isMetadataLoaded,       \* static
  proc,                   \* "down" no process, "none" a process without an object
  metadata, fileCounter,  \* members of the object
  work,                   \* createIndex: the tokens of the batch still to be written
  saving,                 \* saveStorageMeta has truncated and not yet appended
  \* the directory index_files
  index,                  \* index_N.json: number -> lines
  meta,                   \* metadata.idx: its lines
  \* observer, as in SingleIndexStorage
  expected, savedExpected, lost, ends

object   == <<metadata, fileCounter, work, saving>>
observer == <<expected, savedExpected, lost, ends>>
vars     == <<isMetadataLoaded, proc, object, index, meta, observer>>

Entry == [file : Nat, offset : Nat]

\* Every line ever written is distinct: its token, its place, the process run.
Line == Tokens \X (1 .. MaxRows) \X (0 .. MaxEnds)

\* A line of the metadata file: a token with its entries, or the counter.
MetaLine == [kind : {"token"}, token : Tokens, entries : Seq(Entry)]
              \cup [kind : {"counter"}, count : Nat]
TokenLine(t, entries) == [kind |-> "token", token |-> t, entries |-> entries]
CounterLine(n)        == [kind |-> "counter", count |-> n]

ASSUME NoMetaAssumption == NoMeta \notin Seq(MetaLine) /\ NoMeta \notin Seq(Line)

-----------------------------------------------------------------------------
\* Lines that begin with metaChar; the last of them is where the file is cut.
BeginsWithMetaChar(line) == line.kind = "counter" \/ line.token \in ColonTokens
Marks(lines) == {i \in DOMAIN lines : BeginsWithMetaChar(lines[i])}

\* atoi reads nothing, zero, in the line of a token.
MarkedCount(line) == IF line.kind = "counter" THEN line.count ELSE 0

\* loadStorageMeta: the last line of a token counts, and the last counter.  (Variants:
\* the first ones, and a counter that names the last file instead of the next.)
LinesOf(lines, t) == {i \in DOMAIN lines \ Marks(lines) : lines[i].token = t}
LoadedMapFirst(lines) ==
  [t \in {u \in Tokens \ BlankTokens : LinesOf(lines, u) # {}} |->
     lines[F!Min(LinesOf(lines, t))].entries]
LoadedMap(lines) ==
  [t \in {u \in Tokens \ BlankTokens : LinesOf(lines, u) # {}} |->
     lines[F!Max(LinesOf(lines, t))].entries]
LoadedCounterFirst(lines) ==
  IF Marks(lines) = {} THEN 0 ELSE MarkedCount(lines[F!Min(Marks(lines))])
LoadedCounterLast(lines) ==
  IF Marks(lines) = {} THEN 0 ELSE MarkedCount(lines[F!Max(Marks(lines))]) - 1
LoadedCounter(lines) ==
  IF Marks(lines) = {} THEN 0 ELSE MarkedCount(lines[F!Max(Marks(lines))])

\* The file as a loader finds it: a file that is not there has no lines.
Saved == IF meta = NoMeta THEN << >> ELSE meta

\* The map in force: the object's, or what a process that starts now would load.
Map == IF proc = "open" THEN metadata ELSE LoadedMap(Saved)

\* getRawIndex: the lines of a token, batch after batch; a missing one is skipped.
HasLine(entry) == entry.file \in DOMAIN index /\ entry.offset \in DOMAIN index[entry.file]
LineAt(entry)  == index[entry.file][entry.offset]
Found(entries) == {i \in DOMAIN entries : HasLine(entries[i])}
Nth(places, n) == CHOOSE i \in places : Cardinality({j \in places : j <= i}) = n
View(t) ==
  IF t \notin DOMAIN Map THEN << >>
  ELSE LET found == Found(Map[t])
       IN  [n \in 1 .. Cardinality(found) |-> LineAt(Map[t][Nth(found, n)])]

-----------------------------------------------------------------------------
Init ==
  /\ isMetadataLoaded = FALSE /\ proc = "down"
  /\ metadata = Empty /\ fileCounter = 0 /\ work = {} /\ saving = FALSE
  /\ index = Empty /\ meta = NoMeta
  /\ expected = [t \in Tokens |-> << >>]
  /\ savedExpected = expected
  /\ lost = {} /\ ends = 0

Idle == proc = "open" /\ work = {} /\ ~saving

\* Tokens of which something is saved.
SavedTokens == {t \in Tokens : savedExpected[t] # << >>}

\* Constructor: only the first object of a process loads what was saved; a later one
\* starts from nothing and will write over the files of the others.
Construct ==
  /\ proc \in {"down", "none"}
  /\ proc' = "open" /\ isMetadataLoaded' = TRUE
  /\ IF isMetadataLoaded
     THEN UNCHANGED <<metadata, fileCounter>>
     ELSE metadata' = LoadedMap(Saved) /\ fileCounter' = LoadedCounter(Saved)
  /\ lost' = IF isMetadataLoaded THEN lost \cup SavedTokens ELSE lost
  /\ UNCHANGED <<work, saving, index, meta, expected, savedExpected, ends>>

\* createIndex opens the next file, which empties it.  (Bound: a token that is lost
\* is not indexed again.)
CreateIndex(batch) ==
  /\ Idle /\ fileCounter < MaxFiles /\ batch \cap lost = {}
  /\ \A t \in batch : Len(expected[t]) < MaxRows
  /\ fileCounter' = fileCounter + 1
  /\ index' = [f \in DOMAIN index \cup {fileCounter} |->
                 IF f = fileCounter THEN << >> ELSE index[f]]
  /\ work' = batch
  /\ UNCHANGED <<isMetadataLoaded, proc, metadata, saving, meta, observer>>

\* The file cannot be opened: its number is used up, the batch is dropped.
CreateIndexFails ==
  /\ Idle /\ fileCounter < MaxFiles
  /\ fileCounter' = fileCounter + 1
  /\ UNCHANGED <<isMetadataLoaded, proc, metadata, work, saving, index, meta, observer>>

\* The entry of a line about to be written, and one whose offset is taken after it.
NextEntryLate == [file |-> fileCounter - 1, offset |-> Len(index[fileCounter - 1]) + 2]
NextEntry     == [file |-> fileCounter - 1, offset |-> Len(index[fileCounter - 1]) + 1]

EntriesOf(t) == IF t \in DOMAIN metadata THEN metadata[t] ELSE << >>

\* One token of the batch, in the order of an unordered_map: any.
WriteToken(t) ==
  LET line == <<t, Len(expected[t]) + 1, ends>>
  IN  /\ t \in work
      /\ work' = work \ {t}
      /\ index' = [index EXCEPT ![fileCounter - 1] = Append(@, line)]
      /\ metadata' = [u \in DOMAIN metadata \cup {t} |->
                        IF u = t THEN Append(EntriesOf(t), NextEntry) ELSE metadata[u]]
      /\ expected' = [expected EXCEPT ![t] = Append(@, line)]
      /\ UNCHANGED <<isMetadataLoaded, proc, fileCounter, saving, meta, savedExpected, lost, ends>>

\* saveStorageMeta finds the counter, or no file at all.
CanSave == meta = NoMeta \/ Marks(Saved) # {}

\* What is kept of the file: all before the last mark.
Kept    == IF meta = NoMeta THEN NoMeta ELSE SubSeq(Saved, 1, F!Max(Marks(Saved)) - 1)

\* saveStorageMeta, up to resize_file.
TruncateMeta ==
  /\ Idle /\ CanSave
  /\ Len(Saved) + Cardinality(DOMAIN metadata) + 1 <= MaxLines
  /\ meta' = Kept
  /\ saving' = TRUE
  /\ UNCHANGED <<isMetadataLoaded, proc, metadata, fileCounter, work, index, observer>>

\* The lines of all tokens, in the order of an unordered_map: any.
TokenLines(order) == [i \in DOMAIN order |-> TokenLine(order[i], metadata[order[i]])]
Orders == Bijection(1 .. Cardinality(DOMAIN metadata), DOMAIN metadata)

AppendMeta ==
  /\ saving
  /\ \E order \in Orders :
       meta' = Saved \o TokenLines(order) \o <<CounterLine(fileCounter)>>
  /\ saving' = FALSE
  /\ savedExpected' = expected
  /\ UNCHANGED <<isMetadataLoaded, proc, metadata, fileCounter, work, index, expected, lost, ends>>

\* There is a file without a mark: the stream stays open on it, opening it again
\* fails, and everything written to it goes nowhere.
SaveNothing ==
  /\ Idle /\ ~CanSave
  /\ savedExpected' = expected
  /\ UNCHANGED <<isMetadataLoaded, proc, object, index, meta, expected, lost, ends>>

\* What is left to the observer when the object is gone: what was saved.  Lines of
\* tokens with a colon or white space are not read back.
Forget ==
  /\ metadata' = Empty /\ fileCounter' = 0 /\ work' = {} /\ saving' = FALSE
  /\ expected' = savedExpected
  /\ UNCHANGED savedExpected
Unreadable == SavedTokens \cap (ColonTokens \cup BlankTokens)

\* The object is destroyed; nothing is saved by that.
Destroy ==
  /\ Idle
  /\ proc' = "none"
  /\ Forget
  /\ lost' = lost \cup Unreadable
  /\ UNCHANGED <<isMetadataLoaded, index, meta, ends>>

-----------------------------------------------------------------------------
\* The process ends, at any point: the file being written is cut short anywhere, and
\* of the lines being appended to the metadata file the first ones are there, without
\* the counter.
CutIndex == IF work = {} THEN {index}
            ELSE {[index EXCEPT ![fileCounter - 1] = SubSeq(@, 1, n)] :
                    n \in 0 .. Len(index[fileCounter - 1])}
CutMeta  == IF ~saving THEN {meta}
            ELSE {Saved \o SubSeq(TokenLines(order), 1, n) :
                    order \in Orders, n \in 0 .. Cardinality(DOMAIN metadata)}
ProcessEnds ==
  /\ proc # "down" /\ ends < MaxEnds
  /\ ends' = ends + 1
  /\ proc' = "down" /\ isMetadataLoaded' = FALSE
  /\ index' \in CutIndex
  /\ meta' \in CutMeta
  /\ Forget
  /\ lost' = IF saving THEN Tokens ELSE lost \cup Unreadable

Next ==
  \/ Construct
  \/ \E batch \in {b \in SUBSET Tokens : Cardinality(b) \in 1 .. MaxBatch} : CreateIndex(batch)
  \/ CreateIndexFails
  \/ \E t \in Tokens : WriteToken(t)
  \/ TruncateMeta
  \/ AppendMeta
  \/ SaveNothing
  \/ Destroy
  \/ ProcessEnds

Spec == Init /\ [][Next]_vars

-----------------------------------------------------------------------------
\* The variables have the types the code gives them.
IsEntryMap(map) == DOMAIN map \subseteq Tokens /\ map \in [DOMAIN map -> Seq(Entry)]
TypeOK ==
  /\ isMetadataLoaded \in BOOLEAN /\ proc \in {"down", "none", "open"}
  /\ IsEntryMap(metadata) /\ fileCounter \in 0 .. MaxFiles
  /\ work \subseteq Tokens /\ saving \in BOOLEAN
  /\ DOMAIN index \subseteq Nat /\ index \in [DOMAIN index -> Seq(Line)]
  /\ meta # NoMeta => meta \in Seq(MetaLine)
  /\ expected \in [Tokens -> Seq(Line)] /\ savedExpected \in [Tokens -> Seq(Line)]
  /\ lost \subseteq Tokens /\ ends \in 0 .. MaxEnds

\* No file that a token outside `lost` has entries in is written again: the counter is
\* past them all, in memory and in what the next process loads, also after batches that
\* were never saved and numbers that were used up for nothing.  While a save is under
\* way the file has no counter.  (createIndex, saveStorageMeta, cpp:18-34, 55-114.)
Ahead(map, counter) ==
  \A t \in DOMAIN map \ lost : \A i \in DOMAIN map[t] : map[t][i].file < counter
FilesNotReused ==
  /\ Ahead(metadata, fileCounter)
  /\ ~saving => Ahead(LoadedMap(Saved), LoadedCounter(Saved))

\* A token outside `lost` reads back exactly the batches indexed for it, in order, from
\* files shared with other tokens, through saves, reloads and the end of the process at
\* any point.  Lost are: tokens whose line cannot be read back, after a restart; saved
\* tokens, once a process makes a second object; all tokens, when the process ends
\* inside a save.
ListsKept == \A t \in Tokens \ lost : View(t) = expected[t]

\* Every behaviour of the multi-file storage is one the promise of IndexStorage
\* allows, reading each list from the lines of the files.
Undamaged(lists) == [t \in Tokens |-> IF t \in lost THEN NoMeta ELSE lists[t]]
Fragile == ColonTokens \cup BlankTokens
AtRisk ==
  CASE saving         -> Tokens
    [] proc = "none"  -> SavedTokens
    [] OTHER          -> {t \in Fragile : expected[t] # << >> \/ savedExpected[t] # << >>}
Promise ==
  INSTANCE IndexStorage
    WITH Row <- Line, MaxBatch <- 1, Damaged <- NoMeta, Frail <- Fragile, Exposed <- Tokens,
         postings <- Undamaged([t \in Tokens |-> View(t)]),
         answers  <- Undamaged([t \in Tokens |-> View(t)]),
         saved    <- Undamaged(savedExpected),
         atRisk   <- AtRisk \ lost
KeepsPromise == Promise!Spec

=============================================================================
