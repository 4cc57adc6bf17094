------------------------------ MODULE Engine -------------------------------
(***************************************************************************)
(* Class Engine and what it composes: DataHandler with its Indexer, the    *)
(* index storage, the text storage.  proceed, flush and the destructor are *)
(* sequences of steps between any two of which the process may end or, in  *)
(* processText, a filter may throw.  The index is saved before the texts.  *)
(*                                                                         *)
(* The index storage is taken at its word (IndexStorage, nothing at risk), *)
(* the text storage by its map from ids to texts and the id it gives out:  *)
(* what they do wrong by themselves is the subject of their own modules.   *)
(***************************************************************************)
EXTENDS Indexer

CONSTANTS
  Words,
  Contents,   \* bound: the texts a caller may pass, as sequences of words
  NoText,     \* the entry that a lookup leaves for an id that was not there
  MaxTexts,   \* bound: texts proceeded
  MaxId,      \* bound: ids given out or asked for
  MaxEnds     \* bound: times the process ends and is started again

ASSUME EngineAssumption ==
  /\ Contents \subseteq Seq(Words)
  /\ NoText \notin Nat
  /\ MaxTexts \in Nat /\ MaxId \in Nat /\ MaxEnds \in Nat

VARIABLES
  instancesNumber,            \* static, of Engine
  engine,                     \* there is an engine
  buffer, currentSizeInBytes, \* the indexer of its data handler
  index, savedIndex,          \* index storage: what it returns, and what was saved of it
  dataMap, isStorageLoaded,   \* text storage, static: id -> text
  savedMap,                   \* file_storage_metadata.bin
  job,                        \* the call in progress
  \* observer: texts proceeded so far; positions that should be found, now and after a
  \* restart; a text was proceeded without a flush; texts whose index entries were saved
  \* and their id was not; texts whose id does not name them any more; an id was asked for
  \* that the text storage did not have; ends
  texts, expected, savedExpected, dirty, exposed, orphans, strayed, ends

process  == <<instancesNumber, engine, buffer, currentSizeInBytes, job>>
indexes  == <<index, savedIndex>>
storage  == <<dataMap, isStorageLoaded, savedMap>>
observer == <<texts, expected, savedExpected, dirty, exposed, orphans, strayed, ends>>
vars     == <<process, indexes, storage, observer>>

\* A call: the text at hand and the tokens of it still to come, and the steps after them.
Idle == [id |-> 0, text |-> 0, rest |-> << >>, todo |-> << >>]
IsIdle == job.rest = << >> /\ job.todo = << >>

\* Engine::flush and Engine::~Engine, each with DataHandler::flush; and a flush in the
\* other order.
EngineFlushLazy == <<"saveIndex", "saveTo", "saveTexts">>
EngineFlush     == <<"saveTo", "saveIndex", "saveTexts">>
EngineEnd       == <<"saveTo", "saveIndex", "destroyed">>

\* FileStorage's map after it was loaded, which happens once per process; or never.
LoadedNever == dataMap
LoadedMap == IF isStorageLoaded THEN dataMap ELSE savedMap

\* The id of a new text, and ids that begin at zero.
NextIdFromZero == Cardinality(DOMAIN LoadedMap)
NextId == Cardinality(DOMAIN LoadedMap) + 1

-----------------------------------------------------------------------------
Init ==
  /\ instancesNumber = 0 /\ engine = FALSE
  /\ buffer = NoTokens /\ currentSizeInBytes = 0 /\ job = Idle
  /\ index = NoTokens /\ savedIndex = NoTokens
  /\ dataMap = NoTokens /\ isStorageLoaded = FALSE /\ savedMap = NoTokens
  /\ texts = 0 /\ expected = [w \in Words |-> [id \in 1 .. MaxId |-> << >>]]
  /\ savedExpected = expected
  /\ dirty = FALSE /\ exposed = {} /\ orphans = {} /\ strayed = FALSE /\ ends = 0

\* The constructor.  It counts the engine before it makes its parts, so when one of
\* them throws, no engine can be made any more.
Construct ==
  /\ instancesNumber = 0
  /\ instancesNumber' = 1
  /\ engine' \in BOOLEAN
  /\ UNCHANGED <<buffer, currentSizeInBytes, job, indexes, storage, observer>>

\* "Engine instance is already created": also after a constructor that has thrown.
ConstructThrows == instancesNumber > 0 /\ UNCHANGED vars

\* proceed: room for the text in the text storage, then its words; flush belongs to the
\* overloads that take a name or a path, not to the one that takes a FileStorage.
Proceed(content, flushes) ==
  LET u  == texts + 1
      id == NextId
      overwritten == IF id \in DOMAIN LoadedMap THEN {LoadedMap[id]} \ {NoText} ELSE {}
  IN  /\ engine /\ IsIdle /\ u <= MaxTexts /\ id <= MaxId
      /\ isStorageLoaded' = TRUE
      /\ dataMap' = [i \in DOMAIN LoadedMap \cup {id} |-> IF i = id THEN u ELSE LoadedMap[i]]
      /\ job' = [id |-> id, text |-> u, rest |-> content,
                 todo |-> IF flushes THEN EngineFlush ELSE << >>]
      /\ texts' = u
      /\ dirty' = (dirty \/ ~flushes)
      /\ orphans' = orphans \cup overwritten
      /\ UNCHANGED <<instancesNumber, engine, buffer, currentSizeInBytes, indexes, savedMap,
                     expected, savedExpected, exposed, strayed, ends>>

\* The next token of processText goes to Indexer::addToken.
AddToken ==
  LET w    == Head(job.rest)
      id   == job.id
      info == <<job.text, Len(job.rest)>>
      full == Overflows(buffer, currentSizeInBytes, w, id)
      kept == IF full THEN NoTokens ELSE buffer
      size == IF full THEN 0 ELSE currentSizeInBytes
  IN  /\ job.rest # << >>
      /\ index' = IF full THEN Indexed(index, buffer) ELSE index
      /\ buffer' = Buffered(kept, w, id, info)
      /\ currentSizeInBytes' = size + Growth(kept, w, id)
      /\ job' = [job EXCEPT !.rest = Tail(@)]
      /\ expected' = [expected EXCEPT ![w][id] = Append(@, info)]
      /\ UNCHANGED <<instancesNumber, engine, savedIndex, storage,
                     texts, savedExpected, dirty, exposed, orphans, strayed, ends>>

\* The text storage cannot open its file, or a filter throws in the middle of a text: the
\* call is over, nothing is flushed, the id stays given out.
ProceedThrows ==
  /\ job.rest # << >>
  /\ job' = Idle
  /\ dirty' = TRUE
  /\ UNCHANGED <<instancesNumber, engine, buffer, currentSizeInBytes, indexes, storage,
                 texts, expected, savedExpected, exposed, orphans, strayed, ends>>

\* Engine::flush is called; the engine is destroyed.
Flush ==
  /\ engine /\ IsIdle
  /\ job' = [Idle EXCEPT !.todo = EngineFlush]
  /\ UNCHANGED <<instancesNumber, engine, buffer, currentSizeInBytes, indexes, storage, observer>>
Destroy ==
  /\ engine /\ IsIdle
  /\ job' = [Idle EXCEPT !.todo = EngineEnd]
  /\ UNCHANGED <<instancesNumber, engine, buffer, currentSizeInBytes, indexes, storage, observer>>

\* The next step of a call that has worked off its tokens.
Does(step) == job.rest = << >> /\ job.todo # << >> /\ Head(job.todo) = step
Done       == job' = [job EXCEPT !.todo = Tail(@)]

SaveTo ==
  /\ Does("saveTo") /\ Done
  /\ index' = Indexed(index, buffer)
  /\ buffer' = NoTokens /\ currentSizeInBytes' = 0
  /\ UNCHANGED <<instancesNumber, engine, savedIndex, storage, observer>>

\* Texts that the text storage has not saved under the id that the index has for them.
Unsaved(map) == {u \in 1 .. texts : \A id \in DOMAIN map : map[id] # u}

SaveIndex ==
  /\ Does("saveIndex") /\ Done
  /\ savedIndex' = index
  /\ savedExpected' = expected
  /\ exposed' = Unsaved(savedMap)
  /\ UNCHANGED <<instancesNumber, engine, buffer, currentSizeInBytes, index, storage,
                 texts, expected, dirty, orphans, strayed, ends>>

\* FileStorage::saveStorageMeta does not load first: in a process that has not made a
\* FileStorage yet it erases what was saved.
SaveTexts ==
  /\ Does("saveTexts") /\ Done
  /\ savedMap' = dataMap
  /\ exposed' = {}
  /\ orphans' = IF isStorageLoaded THEN orphans ELSE 1 .. texts
  /\ dirty' = FALSE
  /\ UNCHANGED <<instancesNumber, engine, buffer, currentSizeInBytes, indexes,
                 dataMap, isStorageLoaded, texts, expected, savedExpected, strayed, ends>>

Destroyed ==
  /\ Does("destroyed") /\ Done
  /\ engine' = FALSE /\ instancesNumber' = 0
  /\ UNCHANGED <<buffer, currentSizeInBytes, indexes, storage, observer>>

\* openFS, getFilename, getFilesize, returnResultInContext: with any id, whether or not a
\* search has returned it and there is an engine; an unknown one gets an entry.
LookUp(id) ==
  /\ IsIdle
  /\ isStorageLoaded' = TRUE
  /\ dataMap' = [i \in DOMAIN LoadedMap \cup {id} |->
                   IF i \in DOMAIN LoadedMap THEN LoadedMap[i] ELSE NoText]
  /\ strayed' = (strayed \/ id \notin DOMAIN LoadedMap)
  /\ UNCHANGED <<process, indexes, savedMap,
                 texts, expected, savedExpected, dirty, exposed, orphans, ends>>

-----------------------------------------------------------------------------
\* The process ends, at any point.  Texts that were not saved are gone and their ids
\* will be given out again; of some of them the index has been saved.
ProcessEnds ==
  /\ ends < MaxEnds
  /\ ends' = ends + 1
  /\ instancesNumber' = 0 /\ engine' = FALSE
  /\ buffer' = NoTokens /\ currentSizeInBytes' = 0 /\ job' = Idle
  /\ index' = savedIndex
  /\ dataMap' = NoTokens /\ isStorageLoaded' = FALSE
  /\ expected' = savedExpected
  /\ orphans' = orphans \cup exposed
  /\ dirty' = FALSE
  /\ UNCHANGED <<savedIndex, savedMap, texts, savedExpected, exposed, strayed>>

Next ==
  \/ Construct
  \/ ConstructThrows
  \/ \E content \in Contents, flushes \in BOOLEAN : Proceed(content, flushes)
  \/ AddToken
  \/ SaveTo
  \/ SaveIndex
  \/ SaveTexts
  \/ Destroyed
  \/ ProceedThrows
  \/ Flush
  \/ Destroy
  \/ \E id \in 0 .. MaxId : LookUp(id)
  \/ ProcessEnds

Spec == Init /\ [][Next]_vars

-----------------------------------------------------------------------------
\* The variables have the types the code gives them.
Info == (1 .. MaxTexts) \X Nat
IsPosMap(m) == DOMAIN m \subseteq 1 .. MaxId /\ m \in [DOMAIN m -> Seq(Info)]
IsBuffer(b) ==
  /\ DOMAIN b \subseteq Words
  /\ \A w \in DOMAIN b : IsPosMap(b[w].filePositions) /\ b[w].posMapSize \in Nat
IsIndex(i)  == DOMAIN i \subseteq Words /\ \A w \in DOMAIN i : IsPosMap(i[w])
IsTextMap(m) == DOMAIN m \subseteq 0 .. MaxId /\ m \in [DOMAIN m -> (1 .. MaxTexts) \cup {NoText}]
TypeOK ==
  /\ instancesNumber \in {0, 1} /\ engine \in BOOLEAN /\ (engine => instancesNumber = 1)
  /\ IsBuffer(buffer) /\ currentSizeInBytes \in Nat
  /\ IsIndex(index) /\ IsIndex(savedIndex)
  /\ IsTextMap(dataMap) /\ IsTextMap(savedMap) /\ isStorageLoaded \in BOOLEAN
  /\ job.rest \in Seq(Words) /\ job.id \in 0 .. MaxId /\ job.text \in 0 .. MaxTexts
  /\ texts \in 0 .. MaxTexts /\ {expected, savedExpected} \subseteq [Words -> [1 .. MaxId -> Seq(Info)]]
  /\ dirty \in BOOLEAN /\ strayed \in BOOLEAN /\ exposed \subseteq 1 .. texts /\ orphans \subseteq 1 .. texts
  /\ ends \in 0 .. MaxEnds

\* Every position of every token is exactly once in the index or in the buffer, in the
\* order of its text, however small the buffer and wherever it overflows, a filter
\* throws, an engine is destroyed or the process ends; what a restart goes back to is
\* what the last save of the index was called for.  (Indexer::addToken, saveTo,
\* DataHandler::flush, indexer.cpp:21-58, dataHandler.cpp:26-29.)
NothingLostOrDoubled ==
  \A w \in Words, id \in 1 .. MaxId :
    Positions(index, w, id) \o Waiting(buffer, w, id) = expected[w][id]

\* The running size is the size of what is in the buffer - each position, and each text a
\* word has positions in - through every way a position gets in, and stays within the limit
\* unless one position alone exceeds it; every word counts its positions.
\* (addToken, BigToken::addPosition, getPosesSize, indexer.cpp:27-58.)
Groups(b) == UNION {{w} \X DOMAIN b[w].filePositions : w \in DOMAIN b}
Slots(b)  == UNION {{g} \X DOMAIN b[g[1]].filePositions[g[2]] : g \in Groups(b)}
SlotsOf(b, w) == {s \in Slots(b) : s[1][1] = w}
SizeExact ==
  /\ currentSizeInBytes = Cardinality(Slots(buffer)) * InfoSize + Cardinality(Groups(buffer)) * IdSize
  /\ \A w \in DOMAIN buffer : buffer[w].posMapSize = Cardinality(SlotsOf(buffer, w))
  /\ currentSizeInBytes <= MaxBuffer \/ currentSizeInBytes = IdSize + InfoSize

\* A position found in the index names the text it was indexed from: its id leads to
\* that text and to no other.  Excepted are texts whose index entries were saved and
\* whose own entry was not when the process ended, all texts when a flush wiped the map,
\* and texts whose id was given out again after somebody asked for an id that nobody had.
\* In one process, as long as no such id was asked for, there are no such texts, whatever
\* is looked up, thrown or left unsaved.
\* (Engine::flush, FileStorage's constructors, engine.cpp:81-91, 150-153.)
NamesText ==
  /\ ends = 0 /\ ~strayed => orphans = {}
  /\ \A w \in DOMAIN index : \A id \in DOMAIN index[w] : \A i \in DOMAIN index[w][id] :
       LET u == index[w][id][i][1]
       IN  u \in orphans \/ (id \in DOMAIN LoadedMap /\ LoadedMap[id] = u)

\* When proceed returns, or flush, everything is found and saved: the buffer, which
\* getTokenInfo does not look into, is empty, and what a restart would load is what is in
\* memory.  Not so after a text for which nobody flushed.
Settled ==
  engine /\ IsIdle /\ ~dirty =>
    /\ buffer = NoTokens
    /\ savedIndex = index
    /\ \A id \in DOMAIN LoadedMap : LoadedMap[id] # NoText => id \in DOMAIN savedMap
                                                           /\ savedMap[id] = LoadedMap[id]

=============================================================================
