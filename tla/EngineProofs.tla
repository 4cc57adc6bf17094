---------------------------- MODULE EngineProofs ----------------------------
(***************************************************************************)
(* Three properties of Engine for every set of words and texts, every size *)
(* of the buffer and every bound: no position is lost or doubled, a        *)
(* position names the text it was indexed from, and after a flush          *)
(* everything is found and saved.  All three come from one inductive       *)
(* invariant, which says how far a call in progress has come and relates   *)
(* the index, the saved index and the buffer to the map of texts.          *)
(***************************************************************************)
EXTENDS Engine, FiniteSetTheorems, SequenceTheorems, TLAPS

\* What is left of a flush, and of the end of an engine.
FlushTails == {EngineFlush, <<"saveIndex", "saveTexts">>, <<"saveTexts">>}
EndTails   == {EngineEnd, <<"saveIndex", "destroyed">>, <<"destroyed">>}
Todos      == {<< >>} \cup FlushTails \cup EndTails
Calls      == [id : Nat, text : Nat, rest : Seq(Words), todo : Todos]

IsIndexOf(i, ids) ==
  DOMAIN i \subseteq Words /\ \A w \in DOMAIN i : DOMAIN i[w] \subseteq ids
IsBufferOf(b, ids) ==
  DOMAIN b \subseteq Words /\ \A w \in DOMAIN b : DOMAIN b[w].filePositions \subseteq ids
IsMapOf(m) ==
  /\ IsFiniteSet(DOMAIN m) /\ DOMAIN m \subseteq Nat
  /\ \A i \in DOMAIN m : m[i] \in (1 .. texts) \cup {NoText}
Lists == [Words -> [1 .. MaxId -> Seq(Nat \X Nat)]]

\* Ids in use: as long as no process has ended and nobody has asked for an id that was not
\* there, those of the texts proceeded.
Undisturbed == ends = 0 /\ ~strayed
Ids == IF Undisturbed THEN 1 .. texts ELSE Nat

Typed ==
  /\ texts \in Nat /\ ends \in Nat
  /\ orphans \subseteq 1 .. texts /\ exposed \subseteq 1 .. texts
  /\ isStorageLoaded \in BOOLEAN /\ dirty \in BOOLEAN /\ strayed \in BOOLEAN
  /\ IsIndexOf(index, Ids) /\ IsIndexOf(savedIndex, Nat) /\ IsBufferOf(buffer, Ids)
  /\ IsMapOf(dataMap) /\ IsMapOf(savedMap)
  /\ expected \in Lists /\ savedExpected \in Lists
  /\ job \in Calls

\* How far a call has come: with tokens left it has not begun to flush; the buffer is
\* empty once it was handed over, the index saved once that was done.
Staged ==
  /\ job.rest # << >> => /\ job.todo \in {<< >>, EngineFlush}
                         /\ job.todo = << >> => dirty
  /\ job.todo \in {<<"saveIndex", "saveTexts">>, <<"saveIndex", "destroyed">>} =>
       buffer = NoTokens
  /\ job.todo \in {<<"saveTexts">>, <<"destroyed">>} =>
       buffer = NoTokens /\ savedIndex = index

\* Positions in the index and the buffer, and in what a restart goes back to.
KeptInMemory ==
  \A w \in Words, id \in 1 .. MaxId :
    Positions(index, w, id) \o Waiting(buffer, w, id) = expected[w][id]
KeptOnDisk ==
  \A w \in Words, id \in 1 .. MaxId : Positions(savedIndex, w, id) = savedExpected[w][id]

\* The texts an id may lead to, now and after a restart.
Named(map, id) == {u \in 1 .. texts : u \in orphans \/ (id \in DOMAIN map /\ map[id] = u)}
NamedSaved(id) ==
  {u \in 1 .. texts : u \in orphans \cup exposed \/ (id \in DOMAIN savedMap /\ savedMap[id] = u)}
Injective(map) ==
  \A i, j \in DOMAIN map : map[i] = map[j] /\ map[i] # NoText => i = j

ListsNamed ==
  \A w \in Words, id \in Nat :
    /\ Positions(index, w, id) \in Seq(Named(LoadedMap, id) \X Nat)
    /\ Waiting(buffer, w, id) \in Seq(Named(LoadedMap, id) \X Nat)
    /\ Positions(savedIndex, w, id) \in Seq(Named(LoadedMap, id) \X Nat)
    /\ Positions(savedIndex, w, id) \in Seq(NamedSaved(id) \X Nat)
JobNamed == job.rest # << >> => job.text \in Named(LoadedMap, job.id) /\ job.id \in Ids

\* The map of texts: what is saved of it is still in it, and no two ids lead to one text.
MapsAgree ==
  /\ Injective(LoadedMap) /\ Injective(savedMap)
  /\ ~isStorageLoaded => dataMap = NoTokens
  /\ \A i \in DOMAIN savedMap :
       \/ savedMap[i] \in orphans \cup {NoText}
       \/ i \in DOMAIN LoadedMap /\ LoadedMap[i] = savedMap[i]

\* In the first process, unless an unknown id was asked for, the ids are the numbers of the
\* texts.
FirstProcess ==
  Undisturbed => /\ orphans = {}
                 /\ DOMAIN LoadedMap = 1 .. texts
                 /\ ~isStorageLoaded => texts = 0

\* Nothing is left to save, of the index and of the map.
TextsSaved ==
  \A id \in DOMAIN LoadedMap :
    LoadedMap[id] # NoText => id \in DOMAIN savedMap /\ savedMap[id] = LoadedMap[id]
Quiet ==
  ~dirty /\ job.rest = << >> =>
    /\ job.todo = << >> => buffer = NoTokens /\ savedIndex = index
    /\ job.todo \in {<< >>} \cup EndTails => TextsSaved

IInv ==
  /\ Typed /\ Staged
  /\ KeptInMemory /\ KeptOnDisk
  /\ ListsNamed /\ JobNamed /\ MapsAgree /\ FirstProcess
  /\ Quiet

-----------------------------------------------------------------------------
\* What was indexed is found behind what was found before.
LEMMA IndexedPositions ==
  ASSUME NEW i, NEW b, NEW w, NEW id, NEW T,
         Positions(i, w, id) \in Seq(T), Waiting(b, w, id) \in Seq(T)
  PROVE  Positions(Indexed(i, b), w, id) = Positions(i, w, id) \o Waiting(b, w, id)
<1> DEFINE old == IF w \in DOMAIN i THEN i[w] ELSE NoPositions
<1>1. Positions(i, w, id) = At(old, id)
  BY DEF Positions, At, NoPositions
<1>2. CASE w \in DOMAIN b
  <2> DEFINE new == b[w].filePositions
  <2>1. Indexed(i, b)[w] = MergeFilePositions(old, new) /\ w \in DOMAIN Indexed(i, b)
    BY <1>2 DEF Indexed
  <2>2. Positions(Indexed(i, b), w, id) = At(MergeFilePositions(old, new), id)
    BY <2>1 DEF Positions
  <2>3. Waiting(b, w, id) = At(new, id)
    BY <1>2 DEF Waiting
  <2>4. CASE id \in DOMAIN old \cup DOMAIN new
    BY <1>1, <2>2, <2>3, <2>4 DEF MergeFilePositions, At
  <2>5. CASE id \notin DOMAIN old \cup DOMAIN new
    BY <1>1, <2>2, <2>3, <2>5, ConcatEmptySeq, EmptySeq DEF MergeFilePositions, At
  <2> QED
    BY <2>4, <2>5
<1>3. CASE w \notin DOMAIN b
  <2>1. Waiting(b, w, id) = << >>
    BY <1>3 DEF Waiting
  <2>2. Positions(Indexed(i, b), w, id) = Positions(i, w, id)
    BY <1>3 DEF Positions, Indexed
  <2> QED
    BY <2>1, <2>2, ConcatEmptySeq
<1> QED
  BY <1>2, <1>3

\* A token added is found last among its own, and changes nothing for others.
LEMMA BufferedWaiting ==
  ASSUME NEW b, NEW v, NEW file, NEW info, NEW w, NEW id
  PROVE  Waiting(Buffered(b, v, file, info), w, id) =
           IF w = v /\ id = file THEN Append(Waiting(b, w, id), info) ELSE Waiting(b, w, id)
<1> DEFINE new == Buffered(b, v, file, info)
<1>1. CASE w # v
  BY <1>1 DEF Waiting, Buffered
<1>2. CASE w = v /\ w \in DOMAIN b
  <2>1. w \in DOMAIN new /\ new[w] = AddPosition(b[w], file, info)
    BY <1>2 DEF Buffered
  <2>2. Waiting(new, w, id) = At(AddPosition(b[w], file, info).filePositions, id)
    BY <2>1 DEF Waiting
  <2> QED
    BY <1>2, <2>2 DEF AddPosition, At, Waiting
<1>3. CASE w = v /\ w \notin DOMAIN b
  <2>1. w \in DOMAIN new /\ new[w] = BigToken(file, info)
    BY <1>3 DEF Buffered
  <2>2. Waiting(new, w, id) = At(BigToken(file, info).filePositions, id)
    BY <2>1 DEF Waiting
  <2>3. Waiting(b, w, id) = << >> /\ Append(<< >>, info) = <<info>>
    BY <1>3 DEF Waiting
  <2> QED
    BY <1>3, <2>2, <2>3 DEF BigToken, At
<1> QED
  BY <1>1, <1>2, <1>3

-----------------------------------------------------------------------------
\* Keys and types of what the indexer's operations return.
LEMMA IndexedKeys ==
  ASSUME NEW ids, NEW i, IsIndexOf(i, ids), NEW b, IsBufferOf(b, ids)
  PROVE  IsIndexOf(Indexed(i, b), ids)
<1> DEFINE new == Indexed(i, b)
<1>1. DOMAIN new = DOMAIN i \cup DOMAIN b
  BY DEF Indexed
<1>2. ASSUME NEW w \in DOMAIN new PROVE DOMAIN new[w] \subseteq ids
  <2> DEFINE old == IF w \in DOMAIN i THEN i[w] ELSE NoPositions
  <2>1. DOMAIN old \subseteq ids
    BY DEF IsIndexOf, NoPositions
  <2>2. CASE w \in DOMAIN b
    <3>1. new[w] = MergeFilePositions(old, b[w].filePositions)
      BY <1>2, <2>2 DEF Indexed
    <3> QED
      BY <2>1, <2>2, <3>1 DEF MergeFilePositions, IsBufferOf
  <2>3. CASE w \notin DOMAIN b
    BY <1>1, <1>2, <2>3 DEF Indexed, IsIndexOf
  <2> QED
    BY <2>2, <2>3
<1> QED
  BY <1>1, <1>2 DEF IsIndexOf, IsBufferOf

LEMMA BufferedKeys ==
  ASSUME NEW ids, NEW b, IsBufferOf(b, ids), NEW w \in Words, NEW id \in ids, NEW info
  PROVE  IsBufferOf(Buffered(b, w, id, info), ids)
<1> DEFINE new == Buffered(b, w, id, info)
<1>1. DOMAIN new = DOMAIN b \cup {w}
  BY DEF Buffered
<1>2. ASSUME NEW v \in DOMAIN new PROVE DOMAIN new[v].filePositions \subseteq ids
  <2>1. CASE v # w
    BY <1>1, <1>2, <2>1 DEF Buffered, IsBufferOf
  <2>2. CASE v = w /\ w \in DOMAIN b
    <3>1. new[v] = AddPosition(b[w], id, info)
      BY <2>2 DEF Buffered
    <3> QED
      BY <2>2, <3>1 DEF AddPosition, IsBufferOf
  <2>3. CASE v = w /\ w \notin DOMAIN b
    <3>1. new[v] = BigToken(id, info)
      BY <2>3 DEF Buffered
    <3> QED
      BY <3>1 DEF BigToken
  <2> QED
    BY <2>1, <2>2, <2>3
<1> QED
  BY <1>1, <1>2 DEF IsBufferOf

\* An empty buffer holds nothing.
LEMMA EmptyBuffer ==
  /\ \A ids : IsBufferOf(NoTokens, ids) /\ IsIndexOf(NoTokens, ids)
  /\ \A w, id : Waiting(NoTokens, w, id) = << >> /\ Positions(NoTokens, w, id) = << >>
BY DEF IsBufferOf, IsIndexOf, NoTokens, Waiting, Positions

\* A list of positions that names texts of one set names texts of a larger one.
LEMMA Widen ==
  ASSUME NEW S, NEW T, S \subseteq T, NEW s \in Seq(S \X Nat)
  PROVE  s \in Seq(T \X Nat)
<1>1. S \X Nat \subseteq T \X Nat
  OBVIOUS
<1> QED
  BY <1>1, SeqMonotonic

\* A step that leaves the lists alone keeps them named if ids go on leading to texts.
LEMMA ListsStayNamed ==
  ASSUME ListsNamed, index' = index, buffer' = buffer, savedIndex' = savedIndex,
         \A id \in Nat : /\ Named(LoadedMap, id) \subseteq Named(LoadedMap, id)'
                         /\ NamedSaved(id) \subseteq NamedSaved(id)'
  PROVE  ListsNamed'
<1> SUFFICES ASSUME NEW w \in Words, NEW id \in Nat
             PROVE  /\ Positions(index, w, id) \in Seq(Named(LoadedMap, id)' \X Nat)
                    /\ Waiting(buffer, w, id) \in Seq(Named(LoadedMap, id)' \X Nat)
                    /\ Positions(savedIndex, w, id) \in Seq(Named(LoadedMap, id)' \X Nat)
                    /\ Positions(savedIndex, w, id) \in Seq(NamedSaved(id)' \X Nat)
  BY DEF ListsNamed
<1>1. /\ Positions(index, w, id) \in Seq(Named(LoadedMap, id) \X Nat)
      /\ Waiting(buffer, w, id) \in Seq(Named(LoadedMap, id) \X Nat)
      /\ Positions(savedIndex, w, id) \in Seq(Named(LoadedMap, id) \X Nat)
      /\ Positions(savedIndex, w, id) \in Seq(NamedSaved(id) \X Nat)
  BY DEF ListsNamed
<1>2. /\ Named(LoadedMap, id) \subseteq Named(LoadedMap, id)'
      /\ NamedSaved(id) \subseteq NamedSaved(id)'
  OBVIOUS
<1> QED
  BY <1>1, <1>2, Widen

\* The steps of a call, one after the other.
LEMMA TodoSteps ==
  ASSUME NEW todo \in Todos, todo # << >>
  PROVE  /\ Tail(todo) \in Todos
         /\ Head(todo) = "saveTo" =>
              \/ todo = EngineFlush /\ Tail(todo) = <<"saveIndex", "saveTexts">>
              \/ todo = EngineEnd /\ Tail(todo) = <<"saveIndex", "destroyed">>
         /\ Head(todo) = "saveIndex" =>
              \/ todo = <<"saveIndex", "saveTexts">> /\ Tail(todo) = <<"saveTexts">>
              \/ todo = <<"saveIndex", "destroyed">> /\ Tail(todo) = <<"destroyed">>
         /\ Head(todo) = "saveTexts" => todo = <<"saveTexts">> /\ Tail(todo) = << >>
         /\ Head(todo) = "destroyed" => todo = <<"destroyed">> /\ Tail(todo) = << >>
<1>1. /\ Tail(EngineFlush) = <<"saveIndex", "saveTexts">> /\ Head(EngineFlush) = "saveTo"
      /\ Tail(EngineEnd) = <<"saveIndex", "destroyed">> /\ Head(EngineEnd) = "saveTo"
  BY DEF EngineFlush, EngineEnd
<1>2. /\ Tail(<<"saveIndex", "saveTexts">>) = <<"saveTexts">>
      /\ Tail(<<"saveIndex", "destroyed">>) = <<"destroyed">>
      /\ Head(<<"saveIndex", "saveTexts">>) = "saveIndex"
      /\ Head(<<"saveIndex", "destroyed">>) = "saveIndex"
  OBVIOUS
<1>3. /\ Tail(<<"saveTexts">>) = << >> /\ Head(<<"saveTexts">>) = "saveTexts"
      /\ Tail(<<"destroyed">>) = << >> /\ Head(<<"destroyed">>) = "destroyed"
  OBVIOUS
<1> QED
  BY <1>1, <1>2, <1>3 DEF Todos, FlushTails, EndTails

LEMMA TodosDiffer ==
  /\ << >> \notin FlushTails \cup EndTails
  /\ FlushTails \cap EndTails = {}
  /\ EngineFlush \notin {<<"saveIndex", "saveTexts">>, <<"saveIndex", "destroyed">>,
                        <<"saveTexts">>, <<"destroyed">>}
  /\ EngineEnd \notin {<<"saveIndex", "saveTexts">>, <<"saveIndex", "destroyed">>,
                      <<"saveTexts">>, <<"destroyed">>}
  /\ {<<"saveIndex", "saveTexts">>, <<"saveIndex", "destroyed">>}
       \cap {<<"saveTexts">>, <<"destroyed">>} = {}
  /\ << >> \notin {<<"saveIndex", "saveTexts">>, <<"saveIndex", "destroyed">>,
                  <<"saveTexts">>, <<"destroyed">>}
BY DEF FlushTails, EndTails, EngineFlush, EngineEnd

-----------------------------------------------------------------------------
LEMMA InitIInv == Init => IInv
<1> SUFFICES ASSUME Init PROVE IInv
  OBVIOUS
<1> USE EngineAssumption
<1>1. /\ texts = 0 /\ ends = 0 /\ orphans = {} /\ exposed = {} /\ dirty = FALSE
      /\ strayed = FALSE
      /\ index = NoTokens /\ savedIndex = NoTokens /\ buffer = NoTokens
      /\ dataMap = NoTokens /\ savedMap = NoTokens /\ isStorageLoaded = FALSE
      /\ job = Idle /\ LoadedMap = NoTokens /\ DOMAIN NoTokens = {} /\ 1 .. 0 = {}
      /\ job.rest = << >> /\ job.todo = << >> /\ job \in Calls
  BY DEF Init, LoadedMap, NoTokens, Idle, Calls, Todos
<1>2. /\ expected = [w \in Words |-> [id \in 1 .. MaxId |-> << >>]]
      /\ savedExpected = expected /\ expected \in Lists
  BY DEF Init, Lists
<1>3. Typed
  BY <1>1, <1>2, EmptyBuffer, FS_EmptySet DEF Typed, IsMapOf
<1>4. Staged
  BY <1>1, TodosDiffer DEF Staged
<1>5. KeptInMemory /\ KeptOnDisk
  BY <1>1, <1>2, EmptyBuffer DEF KeptInMemory, KeptOnDisk
<1>6. ListsNamed
  <2>1. \A S : << >> \in Seq(S)
    BY EmptySeq
  <2> QED
    BY ONLY <1>1, <2>1, EmptyBuffer DEF ListsNamed
<1>7. JobNamed /\ MapsAgree /\ FirstProcess
  BY <1>1 DEF JobNamed, MapsAgree, FirstProcess, Undisturbed, Injective
<1>8. Quiet
  BY <1>1 DEF Quiet, TextsSaved
<1> QED
  BY <1>3, <1>4, <1>5, <1>6, <1>7, <1>8 DEF IInv

-----------------------------------------------------------------------------
\* What a step keeps that does not touch what it is about.
LEMMA Untouched ==
  ASSUME IInv
  PROVE  /\ UNCHANGED <<index, buffer, expected>> => KeptInMemory'
         /\ UNCHANGED <<savedIndex, savedExpected>> => KeptOnDisk'
         /\ UNCHANGED <<index, buffer, savedIndex, storage, texts, orphans, exposed>> => ListsNamed'
         /\ UNCHANGED <<storage, texts, orphans>> => MapsAgree'
         /\ UNCHANGED <<storage, texts, orphans, strayed, ends>> => FirstProcess'
         /\ UNCHANGED storage => LoadedMap' = LoadedMap /\ (TextsSaved <=> TextsSaved')
         /\ UNCHANGED <<storage, texts, orphans, strayed, ends>> /\ job'.rest = << >> => JobNamed'
<1>1. UNCHANGED storage => LoadedMap' = LoadedMap /\ dataMap' = dataMap /\ savedMap' = savedMap
                           /\ isStorageLoaded' = isStorageLoaded
  BY DEF storage, LoadedMap
<1>2. UNCHANGED <<index, buffer, expected>> => KeptInMemory'
  BY DEF IInv, KeptInMemory
<1>3. UNCHANGED <<savedIndex, savedExpected>> => KeptOnDisk'
  BY DEF IInv, KeptOnDisk
<1>4. ASSUME UNCHANGED <<index, buffer, savedIndex, storage, texts, orphans, exposed>>
      PROVE  ListsNamed'
  BY <1>1, <1>4, ListsStayNamed DEF IInv, Named, NamedSaved
<1>5. UNCHANGED <<storage, texts, orphans>> => MapsAgree'
  BY <1>1 DEF IInv, MapsAgree, Injective
<1>6. UNCHANGED <<storage, texts, orphans, strayed, ends>> => FirstProcess'
  BY <1>1 DEF IInv, FirstProcess, Undisturbed
<1>7. UNCHANGED storage => (TextsSaved <=> TextsSaved')
  BY <1>1 DEF TextsSaved
<1>8. job'.rest = << >> => JobNamed'
  BY DEF JobNamed
<1> QED
  BY <1>1, <1>2, <1>3, <1>4, <1>5, <1>6, <1>7, <1>8

\* An engine is made, flush is called, or the engine is destroyed: there is no call in
\* progress, and nothing but the job changes.
LEMMA CallBegins ==
  ASSUME IInv, IsIdle, NEW todo \in {<< >>, EngineFlush, EngineEnd},
         job' = job \/ job' = [Idle EXCEPT !.todo = todo],
         UNCHANGED <<buffer, indexes, storage, observer>>
  PROVE  IInv'
<1>1. /\ job.rest = << >> /\ job.todo = << >> /\ job'.rest = << >>
      /\ job'.todo \in {<< >>, EngineFlush, EngineEnd} /\ job' \in Calls
  BY DEF IsIdle, Idle, Calls, IInv, Typed, Todos, FlushTails, EndTails
<1>2. /\ UNCHANGED <<buffer, index, savedIndex, storage, dataMap, savedMap, isStorageLoaded>>
      /\ UNCHANGED <<texts, expected, savedExpected, dirty, exposed, orphans, strayed, ends>>
  BY DEF indexes, storage, observer
<1>3. Typed'
  BY <1>1, <1>2 DEF IInv, Typed, IsMapOf, Ids, Undisturbed
<1>4. Staged'
  BY <1>1, <1>2, TodosDiffer DEF Staged
<1>5. Quiet'
  BY <1>1, <1>2, Untouched DEF IInv, Quiet
<1> QED
  BY <1>1, <1>2, <1>3, <1>4, <1>5, Untouched DEF IInv

LEMMA ConstructKeeps == ASSUME IInv, Construct PROVE IInv'
<1>1. UNCHANGED <<job, buffer, index, savedIndex, storage, dataMap, savedMap, isStorageLoaded>>
      /\ UNCHANGED <<texts, expected, savedExpected, dirty, exposed, orphans, strayed, ends>>
  BY DEF Construct, indexes, storage, observer
<1>2. Typed' /\ Staged'
  BY <1>1 DEF IInv, Typed, IsMapOf, Ids, Undisturbed, Staged
<1>3. Quiet'
  BY <1>1, Untouched DEF IInv, Quiet
<1>4. JobNamed'
  BY <1>1, Untouched DEF IInv, JobNamed, Named, Ids, Undisturbed
<1> QED
  BY <1>1, <1>2, <1>3, <1>4, Untouched DEF IInv

LEMMA FlushKeeps == ASSUME IInv, Flush PROVE IInv'
BY CallBegins DEF Flush

LEMMA DestroyKeeps == ASSUME IInv, Destroy PROVE IInv'
BY CallBegins DEF Destroy

LEMMA ProceedThrowsKeeps == ASSUME IInv, ProceedThrows PROVE IInv'
<1>1. /\ job'.rest = << >> /\ job'.todo = << >> /\ job' \in Calls /\ dirty' = TRUE
      /\ UNCHANGED <<buffer, index, savedIndex, storage, dataMap, savedMap, isStorageLoaded>>
      /\ UNCHANGED <<texts, expected, savedExpected, exposed, orphans, strayed, ends>>
  BY DEF ProceedThrows, indexes, storage, Idle, Calls, Todos
<1>2. Typed'
  BY <1>1 DEF IInv, Typed, IsMapOf, Ids, Undisturbed
<1>3. Staged' /\ Quiet'
  BY <1>1, TodosDiffer DEF Staged, Quiet
<1> QED
  BY <1>1, <1>2, <1>3, Untouched DEF IInv

\* The last steps of a call: the buffer is handed over, the engine is gone.
LEMMA SaveToKeeps == ASSUME IInv, SaveTo PROVE IInv'
<1>1. /\ job.rest = << >> /\ job.todo # << >> /\ Head(job.todo) = "saveTo"
      /\ job' = [job EXCEPT !.todo = Tail(@)]
      /\ index' = Indexed(index, buffer) /\ buffer' = NoTokens
      /\ UNCHANGED <<savedIndex, storage, dataMap, savedMap, isStorageLoaded>>
      /\ UNCHANGED <<texts, expected, savedExpected, dirty, exposed, orphans, strayed, ends>>
  BY DEF SaveTo, Does, Done, storage, observer
<1>2. job \in Calls /\ job.todo \in Todos
  BY DEF IInv, Typed, Calls
<1>3. /\ job' \in Calls /\ job'.rest = << >>
      /\ job'.todo \in {<<"saveIndex", "saveTexts">>, <<"saveIndex", "destroyed">>}
      /\ job'.todo \in EndTails => job.todo \in EndTails
  <2>1. /\ Tail(job.todo) \in Todos
        /\ \/ job.todo = EngineFlush /\ Tail(job.todo) = <<"saveIndex", "saveTexts">>
           \/ job.todo = EngineEnd /\ Tail(job.todo) = <<"saveIndex", "destroyed">>
    BY <1>1, <1>2, TodoSteps
  <2>2. job'.todo = Tail(job.todo) /\ job'.rest = << >> /\ job' \in Calls
    BY <1>1, <1>2, <2>1 DEF Calls
  <2>3. EngineEnd \in EndTails /\ <<"saveIndex", "saveTexts">> \in FlushTails
    BY DEF EndTails, FlushTails
  <2> QED
    BY <2>1, <2>2, <2>3, TodosDiffer
<1>4. Typed'
  <2>1. IsIndexOf(index', Ids) /\ IsBufferOf(buffer', Ids) /\ Ids' = Ids
    BY <1>1, IndexedKeys, EmptyBuffer DEF IInv, Typed, Ids, Undisturbed
  <2> QED
    BY <1>1, <1>3, <2>1 DEF IInv, Typed, IsMapOf
<1>5. Staged'
  BY <1>1, <1>3, TodosDiffer DEF Staged
<1>6. ASSUME NEW w \in Words, NEW id \in Nat
      PROVE  /\ Positions(index', w, id) = Positions(index, w, id) \o Waiting(buffer, w, id)
             /\ Positions(index', w, id) \in Seq(Named(LoadedMap, id) \X Nat)
             /\ Waiting(buffer', w, id) = << >>
  <2> DEFINE T == Named(LoadedMap, id) \X Nat
  <2>1. Positions(index, w, id) \in Seq(T) /\ Waiting(buffer, w, id) \in Seq(T)
    BY DEF IInv, ListsNamed
  <2> HIDE DEF T
  <2>2. Positions(index', w, id) = Positions(index, w, id) \o Waiting(buffer, w, id)
    <3>1. Positions(Indexed(index, buffer), w, id)
            = Positions(index, w, id) \o Waiting(buffer, w, id)
      BY <2>1, IndexedPositions
    <3> QED
      BY <1>1, <3>1
  <2>3. Positions(index', w, id) \in Seq(T)
    BY <2>1, <2>2, ConcatProperties
  <2> QED
    BY <1>1, <2>2, <2>3, EmptyBuffer DEF T
<1>7. KeptInMemory'
  <2> SUFFICES ASSUME NEW w \in Words, NEW id \in 1 .. MaxId
               PROVE  Positions(index', w, id) \o Waiting(buffer', w, id) = expected[w][id]
    BY <1>1 DEF KeptInMemory
  <2> DEFINE T == Named(LoadedMap, id) \X Nat
  <2>1. id \in Nat
    BY EngineAssumption
  <2>2. Positions(index', w, id) \in Seq(T) /\ Waiting(buffer', w, id) = << >>
    BY <1>6, <2>1
  <2> HIDE DEF T
  <2>3. Positions(index', w, id) \o Waiting(buffer', w, id) = Positions(index', w, id)
    BY <2>2, ConcatEmptySeq
  <2> QED
    BY <1>6, <2>1, <2>3 DEF IInv, KeptInMemory
<1>8. ListsNamed'
  <2>1. \A id : Named(LoadedMap, id)' = Named(LoadedMap, id) /\ NamedSaved(id)' = NamedSaved(id)
    BY <1>1, Untouched DEF Named, NamedSaved
  <2>2. \A S : << >> \in Seq(S)
    BY EmptySeq
  <2> SUFFICES ASSUME NEW w \in Words, NEW id \in Nat
               PROVE  /\ Positions(index', w, id) \in Seq(Named(LoadedMap, id) \X Nat)
                      /\ Waiting(buffer', w, id) \in Seq(Named(LoadedMap, id) \X Nat)
                      /\ Positions(savedIndex, w, id) \in Seq(Named(LoadedMap, id) \X Nat)
                      /\ Positions(savedIndex, w, id) \in Seq(NamedSaved(id) \X Nat)
    BY <1>1, <2>1 DEF ListsNamed
  <2> QED
    BY <1>6, <2>2 DEF IInv, ListsNamed
<1>9. Quiet'
  <2>1. job'.todo \notin {<< >>} /\ (job'.todo \in EndTails => job.todo \in EndTails)
    BY <1>3, TodosDiffer
  <2>2. ~dirty /\ job.todo \in EndTails => TextsSaved
    BY <1>1 DEF IInv, Quiet
  <2>3. TextsSaved <=> TextsSaved'
    BY <1>1, Untouched
  <2> QED
    BY <1>1, <2>1, <2>2, <2>3 DEF Quiet
<1> QED
  BY <1>1, <1>3, <1>4, <1>5, <1>7, <1>8, <1>9, Untouched DEF IInv

LEMMA DestroyedKeeps == ASSUME IInv, Destroyed PROVE IInv'
<1>1. /\ job.rest = << >> /\ job.todo # << >> /\ Head(job.todo) = "destroyed"
      /\ job' = [job EXCEPT !.todo = Tail(@)]
      /\ UNCHANGED <<buffer, index, savedIndex, storage, dataMap, savedMap, isStorageLoaded>>
      /\ UNCHANGED <<texts, expected, savedExpected, dirty, exposed, orphans, strayed, ends>>
  BY DEF Destroyed, Does, Done, indexes, storage, observer
<1>2. job \in Calls /\ job.todo \in Todos
  BY DEF IInv, Typed, Calls
<1>3. job' \in Calls /\ job'.rest = << >> /\ job'.todo = << >> /\ job.todo = <<"destroyed">>
  <2>1. Tail(job.todo) \in Todos /\ job.todo = <<"destroyed">> /\ Tail(job.todo) = << >>
    BY <1>1, <1>2, TodoSteps
  <2> QED
    BY <1>1, <1>2, <2>1 DEF Calls
<1>4. Typed'
  BY <1>1, <1>3 DEF IInv, Typed, IsMapOf, Ids, Undisturbed
<1>5. Staged'
  BY <1>3, TodosDiffer DEF Staged
<1>6. Quiet'
  <2>1. buffer = NoTokens /\ savedIndex = index
    BY <1>3 DEF IInv, Staged
  <2>2. ~dirty => TextsSaved
    BY <1>1, <1>3 DEF IInv, Quiet, EndTails
  <2>3. TextsSaved <=> TextsSaved'
    BY <1>1, Untouched
  <2> QED
    BY <1>1, <2>1, <2>2, <2>3 DEF Quiet
<1> QED
  BY <1>1, <1>3, <1>4, <1>5, <1>6, Untouched DEF IInv

-----------------------------------------------------------------------------
\* The index is saved: a position that is saved with it names a text that is saved
\* already, or one that is exposed from now on.
LEMMA SaveIndexKeeps == ASSUME IInv, SaveIndex PROVE IInv'
<1>1. /\ job.rest = << >> /\ job.todo # << >> /\ Head(job.todo) = "saveIndex"
      /\ job' = [job EXCEPT !.todo = Tail(@)]
      /\ savedIndex' = index /\ savedExpected' = expected /\ exposed' = Unsaved(savedMap)
      /\ UNCHANGED <<buffer, index, storage, dataMap, savedMap, isStorageLoaded>>
      /\ UNCHANGED <<texts, expected, dirty, orphans, strayed, ends>>
  BY DEF SaveIndex, Does, Done, storage
<1>2. job \in Calls /\ job.todo \in Todos
  BY DEF IInv, Typed, Calls
<1>3. /\ job' \in Calls /\ job'.rest = << >>
      /\ job.todo \in {<<"saveIndex", "saveTexts">>, <<"saveIndex", "destroyed">>}
      /\ job'.todo \in {<<"saveTexts">>, <<"destroyed">>}
      /\ job'.todo \in EndTails => job.todo \in EndTails
  <2>1. /\ Tail(job.todo) \in Todos
        /\ \/ job.todo = <<"saveIndex", "saveTexts">> /\ Tail(job.todo) = <<"saveTexts">>
           \/ job.todo = <<"saveIndex", "destroyed">> /\ Tail(job.todo) = <<"destroyed">>
    BY <1>1, <1>2, TodoSteps
  <2>2. job'.todo = Tail(job.todo) /\ job'.rest = << >> /\ job' \in Calls
    BY <1>1, <1>2, <2>1 DEF Calls
  <2>3. <<"saveIndex", "destroyed">> \in EndTails /\ <<"saveTexts">> \in FlushTails
    BY DEF EndTails, FlushTails
  <2> QED
    BY <2>1, <2>2, <2>3, TodosDiffer
<1>4. buffer = NoTokens
  BY <1>3 DEF IInv, Staged
<1>5. LoadedMap' = LoadedMap /\ (TextsSaved <=> TextsSaved')
  BY <1>1, Untouched
<1>6. Typed'
  <2>1. exposed' \subseteq 1 .. texts
    BY <1>1 DEF Unsaved
  <2>2. IsIndexOf(savedIndex', Nat)
    BY <1>1 DEF IInv, Typed, Ids, Undisturbed, IsIndexOf
  <2> QED
    BY <1>1, <1>3, <2>1, <2>2 DEF IInv, Typed, IsMapOf, Ids, Undisturbed
<1>7. Staged'
  BY <1>1, <1>3, <1>4, TodosDiffer DEF Staged
<1>8. KeptOnDisk'
  <2> SUFFICES ASSUME NEW w \in Words, NEW id \in 1 .. MaxId
               PROVE  Positions(index, w, id) = expected[w][id]
    BY <1>1 DEF KeptOnDisk
  <2> DEFINE T == Named(LoadedMap, id) \X Nat
  <2>1. id \in Nat
    BY EngineAssumption
  <2>2. Positions(index, w, id) \in Seq(T)
    BY <2>1 DEF IInv, ListsNamed
  <2> HIDE DEF T
  <2>3. Positions(index, w, id) \o << >> = Positions(index, w, id)
    BY <2>2, ConcatEmptySeq
  <2>4. Waiting(buffer, w, id) = << >>
    BY <1>4, EmptyBuffer
  <2>5. Positions(index, w, id) \o Waiting(buffer, w, id) = expected[w][id]
    BY DEF IInv, KeptInMemory
  <2> QED
    BY <2>3, <2>4, <2>5
<1>9. ASSUME NEW id \in Nat PROVE Named(LoadedMap, id) \subseteq NamedSaved(id)'
  <2> SUFFICES ASSUME NEW u \in 1 .. texts, id \in DOMAIN LoadedMap, LoadedMap[id] = u,
                      u \notin orphans, u \notin Unsaved(savedMap)
               PROVE  id \in DOMAIN savedMap /\ savedMap[id] = u
    BY <1>1 DEF Named, NamedSaved
  <2>1. PICK j \in DOMAIN savedMap : savedMap[j] = u
    BY DEF Unsaved
  <2>2. u # NoText
    BY EngineAssumption DEF IInv, Typed
  <2>3. j \in DOMAIN LoadedMap /\ LoadedMap[j] = u
    BY <2>1, <2>2 DEF IInv, MapsAgree
  <2> QED
    BY <2>1, <2>2, <2>3 DEF IInv, MapsAgree, Injective
<1>10. ListsNamed'
  <2>1. \A id : Named(LoadedMap, id)' = Named(LoadedMap, id)
    BY <1>1, <1>5 DEF Named
  <2> SUFFICES ASSUME NEW w \in Words, NEW id \in Nat
               PROVE  /\ Positions(index, w, id) \in Seq(Named(LoadedMap, id) \X Nat)
                      /\ Waiting(buffer, w, id) \in Seq(Named(LoadedMap, id) \X Nat)
                      /\ Positions(index, w, id) \in Seq(NamedSaved(id)' \X Nat)
    BY <1>1, <2>1 DEF ListsNamed
  <2>2. /\ Positions(index, w, id) \in Seq(Named(LoadedMap, id) \X Nat)
        /\ Waiting(buffer, w, id) \in Seq(Named(LoadedMap, id) \X Nat)
    BY DEF IInv, ListsNamed
  <2> QED
    BY <1>9, <2>2, Widen
<1>11. Quiet'
  <2>1. job'.todo \notin {<< >>} /\ (job'.todo \in EndTails => job.todo \in EndTails)
    BY <1>3, TodosDiffer
  <2>2. ~dirty /\ job.todo \in EndTails => TextsSaved
    BY <1>1 DEF IInv, Quiet
  <2> QED
    BY <1>1, <1>5, <2>1, <2>2 DEF Quiet
<1> QED
  BY <1>1, <1>3, <1>6, <1>7, <1>8, <1>10, <1>11, Untouched DEF IInv

\* The texts are saved: what is in memory is now what a restart would load, unless no
\* FileStorage has loaded it.
LEMMA SaveTextsKeeps == ASSUME IInv, SaveTexts PROVE IInv'
<1>1. /\ job.rest = << >> /\ job.todo # << >> /\ Head(job.todo) = "saveTexts"
      /\ job' = [job EXCEPT !.todo = Tail(@)]
      /\ savedMap' = dataMap /\ exposed' = {} /\ dirty' = FALSE
      /\ orphans' = IF isStorageLoaded THEN orphans ELSE 1 .. texts
      /\ UNCHANGED <<buffer, index, savedIndex, dataMap, isStorageLoaded>>
      /\ UNCHANGED <<texts, expected, savedExpected, strayed, ends>>
  BY DEF SaveTexts, Does, Done, indexes
<1>2. job \in Calls /\ job.todo \in Todos
  BY DEF IInv, Typed, Calls
<1>3. job' \in Calls /\ job'.rest = << >> /\ job'.todo = << >> /\ job.todo = <<"saveTexts">>
  <2>1. Tail(job.todo) \in Todos /\ job.todo = <<"saveTexts">> /\ Tail(job.todo) = << >>
    BY <1>1, <1>2, TodoSteps
  <2> QED
    BY <1>1, <1>2, <2>1 DEF Calls
<1>4. LoadedMap' = dataMap /\ (isStorageLoaded => LoadedMap = dataMap)
      /\ (~isStorageLoaded => dataMap = NoTokens /\ DOMAIN dataMap = {})
  BY <1>1 DEF LoadedMap, IInv, MapsAgree, NoTokens
<1>5. Typed'
  BY <1>1, <1>3 DEF IInv, Typed, IsMapOf, Ids, Undisturbed
<1>6. Staged'
  BY <1>3, TodosDiffer DEF Staged
<1>7. ASSUME NEW id \in Nat
      PROVE  /\ Named(LoadedMap, id) \subseteq Named(LoadedMap, id)'
             /\ Named(LoadedMap, id) \subseteq NamedSaved(id)'
  BY <1>1, <1>4 DEF Named, NamedSaved
<1>8. ListsNamed'
  <2> SUFFICES ASSUME NEW w \in Words, NEW id \in Nat
               PROVE  /\ Positions(index, w, id) \in Seq(Named(LoadedMap, id)' \X Nat)
                      /\ Waiting(buffer, w, id) \in Seq(Named(LoadedMap, id)' \X Nat)
                      /\ Positions(savedIndex, w, id) \in Seq(Named(LoadedMap, id)' \X Nat)
                      /\ Positions(savedIndex, w, id) \in Seq(NamedSaved(id)' \X Nat)
    BY <1>1 DEF ListsNamed
  <2>1. /\ Positions(index, w, id) \in Seq(Named(LoadedMap, id) \X Nat)
        /\ Waiting(buffer, w, id) \in Seq(Named(LoadedMap, id) \X Nat)
        /\ Positions(savedIndex, w, id) \in Seq(Named(LoadedMap, id) \X Nat)
    BY DEF IInv, ListsNamed
  <2> QED
    BY <1>7, <2>1, Widen
<1>9. MapsAgree'
  BY <1>1, <1>4 DEF IInv, MapsAgree, Injective
<1>10. FirstProcess'
  <2> SUFFICES ASSUME Undisturbed
               PROVE  orphans' = {} /\ DOMAIN dataMap = 1 .. texts
                      /\ (~isStorageLoaded => texts = 0)
    BY <1>1, <1>4 DEF FirstProcess, Undisturbed
  <2>1. orphans = {} /\ DOMAIN LoadedMap = 1 .. texts /\ (~isStorageLoaded => texts = 0)
    BY DEF IInv, FirstProcess, Undisturbed
  <2> QED
    BY <1>1, <1>4, <2>1
<1>11. Quiet'
  <2>1. buffer = NoTokens /\ savedIndex = index
    BY <1>3 DEF IInv, Staged
  <2>2. TextsSaved'
    BY <1>1, <1>4 DEF TextsSaved
  <2> QED
    BY <1>1, <2>1, <2>2 DEF Quiet
<1>12. JobNamed'
  BY <1>3 DEF JobNamed
<1> QED
  BY <1>1, <1>5, <1>6, <1>8, <1>9, <1>10, <1>11, <1>12, Untouched DEF IInv

-----------------------------------------------------------------------------
\* A token more at the end of two lists, one behind the other.
LEMMA LastOfTwo ==
  ASSUME NEW T, NEW s \in Seq(T), NEW t \in Seq(T), NEW x \in T
  PROVE  s \o Append(t, x) = Append(s \o t, x) /\ Append(t, x) \in Seq(T)
<1>1. Append(t, x) = t \o <<x>> /\ Append(t, x) \in Seq(T)
  BY AppendIsConcat, AppendProperties
<1>2. s \o t \in Seq(T)
  BY ConcatProperties
<1>3. Append(s \o t, x) = (s \o t) \o <<x>>
  BY <1>2, AppendIsConcat
<1>4. <<x>> \in Seq(T)
  OBVIOUS
<1>5. (s \o t) \o <<x>> = s \o (t \o <<x>>)
  BY <1>4, ConcatAssociative
<1> QED
  BY <1>1, <1>3, <1>5

\* A token is added, after the buffer was handed over if it would not fit.
LEMMA AddTokenKeeps == ASSUME IInv, AddToken PROVE IInv'
<1> DEFINE v    == Head(job.rest)
           file == job.id
           info == <<job.text, Len(job.rest)>>
           full == Overflows(buffer, currentSizeInBytes, v, file)
           kept == IF full THEN NoTokens ELSE buffer
<1>1. /\ job.rest # << >>
      /\ index' = IF full THEN Indexed(index, buffer) ELSE index
      /\ buffer' = Buffered(kept, v, file, info)
      /\ job' = [job EXCEPT !.rest = Tail(@)]
      /\ expected' = [expected EXCEPT ![v][file] = Append(@, info)]
      /\ UNCHANGED <<savedIndex, storage, dataMap, savedMap, isStorageLoaded>>
      /\ UNCHANGED <<texts, savedExpected, dirty, exposed, orphans, strayed, ends>>
  BY DEF AddToken, storage
<1>2. /\ job \in Calls /\ job.rest \in Seq(Words) /\ job.id \in Nat
      /\ job.todo \in {<< >>, EngineFlush} /\ (job.todo = << >> => dirty)
      /\ job.text \in Named(LoadedMap, job.id) /\ job.id \in Ids
  BY <1>1 DEF IInv, Typed, Calls, Staged, JobNamed
<1>3. v \in Words /\ Tail(job.rest) \in Seq(Words) /\ Len(job.rest) \in Nat
  BY <1>1, <1>2, HeadTailProperties, LenProperties
<1>4. /\ job' \in Calls /\ job'.todo = job.todo /\ job'.id = job.id /\ job'.text = job.text
  BY <1>1, <1>2, <1>3 DEF Calls
<1>5. info \in Named(LoadedMap, file) \X Nat
  BY <1>2, <1>3
<1>6. LoadedMap' = LoadedMap /\ Ids' = Ids
      /\ \A id : Named(LoadedMap, id)' = Named(LoadedMap, id) /\ NamedSaved(id)' = NamedSaved(id)
  BY <1>1, Untouched DEF Ids, Undisturbed, Named, NamedSaved
<1> HIDE DEF v, file, info, full
<1>7. ASSUME NEW w \in Words, NEW id \in Nat
      PROVE  /\ Positions(index', w, id) \in Seq(Named(LoadedMap, id) \X Nat)
             /\ Waiting(kept, w, id) \in Seq(Named(LoadedMap, id) \X Nat)
             /\ Positions(index', w, id) \o Waiting(kept, w, id)
                  = Positions(index, w, id) \o Waiting(buffer, w, id)
  <2> DEFINE T == Named(LoadedMap, id) \X Nat
  <2>1. Positions(index, w, id) \in Seq(T) /\ Waiting(buffer, w, id) \in Seq(T)
    BY DEF IInv, ListsNamed
  <2> HIDE DEF T
  <2>2. CASE full
    <3>1. Positions(Indexed(index, buffer), w, id)
            = Positions(index, w, id) \o Waiting(buffer, w, id)
      BY <2>1, IndexedPositions
    <3>2. Positions(index', w, id) = Positions(index, w, id) \o Waiting(buffer, w, id)
      BY <1>1, <2>2, <3>1
    <3>3. Positions(index', w, id) \in Seq(T)
      BY <2>1, <3>2, ConcatProperties
    <3>4. Waiting(kept, w, id) = << >>
      BY <2>2, EmptyBuffer
    <3>5. << >> \in Seq(T) /\ Positions(index', w, id) \o << >> = Positions(index', w, id)
      BY <3>3, ConcatEmptySeq, EmptySeq
    <3> QED
      BY <3>2, <3>3, <3>4, <3>5 DEF T
  <2>3. CASE ~full
    BY <1>1, <2>1, <2>3 DEF T
  <2> QED
    BY <2>2, <2>3
<1>8. ASSUME NEW w \in Words, NEW id \in Nat
      PROVE  /\ Waiting(buffer', w, id) \in Seq(Named(LoadedMap, id) \X Nat)
             /\ w = v /\ id = file =>
                  Positions(index', w, id) \o Waiting(buffer', w, id)
                    = Append(Positions(index, w, id) \o Waiting(buffer, w, id), info)
             /\ ~(w = v /\ id = file) =>
                  Positions(index', w, id) \o Waiting(buffer', w, id)
                    = Positions(index, w, id) \o Waiting(buffer, w, id)
  <2> DEFINE T == Named(LoadedMap, id) \X Nat
             P == Positions(index', w, id)
             W == Waiting(kept, w, id)
  <2>1. Waiting(Buffered(kept, v, file, info), w, id) =
          IF w = v /\ id = file THEN Append(Waiting(kept, w, id), info) ELSE Waiting(kept, w, id)
    <3> HIDE DEF kept
    <3> QED
      BY BufferedWaiting
  <2>2. Waiting(buffer', w, id) =
          IF w = v /\ id = file THEN Append(Waiting(kept, w, id), info) ELSE Waiting(kept, w, id)
    BY <1>1, <2>1
  <2>3. /\ Positions(index', w, id) \in Seq(T) /\ Waiting(kept, w, id) \in Seq(T)
        /\ Positions(index', w, id) \o Waiting(kept, w, id)
             = Positions(index, w, id) \o Waiting(buffer, w, id)
    BY <1>7
  <2>4. id = file => info \in T
    BY <1>5
  <2>5. ASSUME w = v, id = file
        PROVE  P \o Append(W, info) = Append(P \o W, info) /\ Append(W, info) \in Seq(T)
    <3>1. P \in Seq(T) /\ W \in Seq(T) /\ info \in T
      BY <2>3, <2>4, <2>5
    <3> HIDE DEF P, W, T
    <3> QED
      BY <3>1, LastOfTwo
  <2> HIDE DEF kept
  <2>6. CASE w = v /\ id = file
    BY <2>2, <2>3, <2>5, <2>6 DEF T
  <2>7. CASE ~(w = v /\ id = file)
    BY <2>2, <2>3, <2>7 DEF T
  <2> QED
    BY <2>6, <2>7
<1>9. Typed'
  <2>1. IsBufferOf(kept, Ids)
    BY EmptyBuffer DEF IInv, Typed
  <2>2. IsBufferOf(buffer', Ids)
    <3>1. file \in Ids
      BY <1>2 DEF file
    <3> HIDE DEF kept
    <3>2. IsBufferOf(Buffered(kept, v, file, info), Ids)
      BY <1>3, <2>1, <3>1, BufferedKeys
    <3> QED
      BY <1>1, <3>2
  <2>3. IsIndexOf(index', Ids)
    BY <1>1, IndexedKeys DEF IInv, Typed
  <2>4. expected' \in Lists
    <3>1. info \in Nat \X Nat
      BY <1>5 DEF IInv, Typed, Named
    <3>2. expected \in Lists
      BY DEF IInv, Typed
    <3>3. ASSUME NEW s \in Seq(Nat \X Nat) PROVE Append(s, info) \in Seq(Nat \X Nat)
      BY <3>1, AppendProperties
    <3> QED
      BY <1>1, <3>2, <3>3 DEF Lists
  <2> QED
    BY <1>1, <1>4, <1>6, <2>2, <2>3, <2>4 DEF IInv, Typed, IsMapOf
<1>10. Staged'
  BY <1>1, <1>2, <1>4, TodosDiffer DEF Staged
<1>11. KeptInMemory'
  <2> SUFFICES ASSUME NEW w \in Words, NEW id \in 1 .. MaxId
               PROVE  Positions(index', w, id) \o Waiting(buffer', w, id) = expected'[w][id]
    BY DEF KeptInMemory
  <2>1. id \in Nat
    BY EngineAssumption
  <2>2. Positions(index, w, id) \o Waiting(buffer, w, id) = expected[w][id]
    BY DEF IInv, KeptInMemory
  <2>3. expected \in Lists
    BY DEF IInv, Typed
  <2>4. expected'[w][id] = IF w = v /\ id = file THEN Append(expected[w][id], info)
                           ELSE expected[w][id]
    BY <1>1, <2>3 DEF Lists
  <2> QED
    BY <1>8, <2>1, <2>2, <2>4
<1>12. ListsNamed'
  <2> SUFFICES ASSUME NEW w \in Words, NEW id \in Nat
               PROVE  /\ Positions(index', w, id) \in Seq(Named(LoadedMap, id) \X Nat)
                      /\ Waiting(buffer', w, id) \in Seq(Named(LoadedMap, id) \X Nat)
                      /\ Positions(savedIndex, w, id) \in Seq(Named(LoadedMap, id) \X Nat)
                      /\ Positions(savedIndex, w, id) \in Seq(NamedSaved(id) \X Nat)
    BY <1>1, <1>6 DEF ListsNamed
  <2> QED
    BY <1>7, <1>8 DEF IInv, ListsNamed
<1>13. JobNamed'
  BY <1>2, <1>4, <1>6 DEF JobNamed
<1>14. Quiet'
  <2>1. EngineFlush \notin {<< >>} \cup EndTails
    BY TodosDiffer DEF FlushTails
  <2> QED
    BY <1>1, <1>2, <1>4, <2>1 DEF Quiet
<1> QED
  BY <1>1, <1>9, <1>10, <1>11, <1>12, <1>13, <1>14, Untouched DEF IInv

-----------------------------------------------------------------------------
\* A text that is proceeded gets an id that leads to no other text in the first process;
\* in a later one the text whose id it gets becomes an orphan.
LEMMA ProceedKeeps ==
  ASSUME IInv, NEW content \in Contents, NEW flushes \in BOOLEAN, Proceed(content, flushes)
  PROVE  IInv'
<1> DEFINE u  == texts + 1
           id == NextId
           overwritten == IF id \in DOMAIN LoadedMap THEN {LoadedMap[id]} \ {NoText} ELSE {}
<1>1. /\ job.rest = << >> /\ job.todo = << >>
      /\ isStorageLoaded' = TRUE
      /\ dataMap' = [i \in DOMAIN LoadedMap \cup {id} |-> IF i = id THEN u ELSE LoadedMap[i]]
      /\ job' = [id |-> id, text |-> u, rest |-> content,
                 todo |-> IF flushes THEN EngineFlush ELSE << >>]
      /\ texts' = u /\ dirty' = (dirty \/ ~flushes) /\ orphans' = orphans \cup overwritten
      /\ UNCHANGED <<buffer, index, savedIndex, savedMap, expected, savedExpected, exposed, strayed, ends>>
  BY DEF Proceed, IsIdle, indexes
<1>2. /\ texts \in Nat /\ u \in Nat /\ 1 .. texts \subseteq 1 .. u /\ u \in 1 .. u
      /\ u \notin 1 .. texts /\ 1 .. u = 1 .. texts \cup {u} /\ NoText # u
      /\ NoText \notin 1 .. u
  BY EngineAssumption DEF IInv, Typed
<1>3. /\ IsFiniteSet(DOMAIN LoadedMap) /\ DOMAIN LoadedMap \subseteq Nat
      /\ \A i \in DOMAIN LoadedMap : LoadedMap[i] \in (1 .. texts) \cup {NoText}
  BY DEF IInv, Typed, IsMapOf, LoadedMap
<1>4. id \in Nat
  BY <1>3, FS_CardinalityType DEF NextId
<1>5. Undisturbed => id = u /\ id \notin DOMAIN LoadedMap
  <2> SUFFICES ASSUME Undisturbed PROVE id = u /\ id \notin DOMAIN LoadedMap
    OBVIOUS
  <2>1. DOMAIN LoadedMap = 1 .. texts
    BY DEF IInv, FirstProcess, Undisturbed
  <2>2. Cardinality(1 .. texts) = texts
    BY <1>2, FS_Interval
  <2> QED
    BY <1>2, <2>1, <2>2 DEF NextId
<1> HIDE DEF id
<1>6. /\ LoadedMap' = dataMap' /\ DOMAIN dataMap' = DOMAIN LoadedMap \cup {id}
      /\ dataMap'[id] = u /\ \A i \in DOMAIN LoadedMap : i # id => dataMap'[i] = LoadedMap[i]
  BY <1>1 DEF LoadedMap
<1>7. overwritten \subseteq 1 .. texts
  BY <1>3
<1>8. Ids \subseteq Ids' /\ id \in Ids'
  BY <1>1, <1>2, <1>4, <1>5 DEF Ids, Undisturbed
<1>9. ASSUME NEW i \in Nat
      PROVE  /\ Named(LoadedMap, i) \subseteq Named(LoadedMap, i)'
             /\ NamedSaved(i) \subseteq NamedSaved(i)'
  <2>1. NamedSaved(i) \subseteq NamedSaved(i)'
    BY <1>1, <1>2 DEF NamedSaved
  <2>2. ASSUME NEW t \in Named(LoadedMap, i) PROVE t \in Named(LoadedMap, i)'
    <3>1. t \in 1 .. texts /\ t \in 1 .. u /\ t # NoText
      BY <1>2 DEF Named
    <3>2. CASE t \in orphans
      BY <1>1, <3>1, <3>2 DEF Named
    <3>3. CASE i \in DOMAIN LoadedMap /\ LoadedMap[i] = t /\ i # id
      BY <1>1, <1>6, <3>1, <3>3 DEF Named
    <3>4. CASE i \in DOMAIN LoadedMap /\ LoadedMap[i] = t /\ i = id
      BY <1>1, <3>1, <3>4 DEF Named
    <3> QED
      BY <3>2, <3>3, <3>4 DEF Named
  <2> QED
    BY <2>1, <2>2
<1>10. Typed'
  <2>1. IsFiniteSet(DOMAIN dataMap')
    BY <1>3, <1>6, FS_AddElement
  <2>2. IsMapOf(dataMap)' /\ IsMapOf(savedMap)'
    BY <1>1, <1>2, <1>3, <1>4, <1>6, <2>1 DEF IInv, Typed, IsMapOf
  <2>3. job' \in Calls
    BY <1>1, <1>2, <1>4, EngineAssumption DEF Calls, Todos, FlushTails
  <2>4. IsIndexOf(index', Ids') /\ IsIndexOf(savedIndex', Nat) /\ IsBufferOf(buffer', Ids')
    BY <1>1, <1>8 DEF IInv, Typed, IsIndexOf, IsBufferOf
  <2> QED
    BY <1>1, <1>2, <1>7, <2>2, <2>3, <2>4 DEF IInv, Typed
<1>11. job'.todo = (IF flushes THEN EngineFlush ELSE << >>) /\ job'.text = u /\ job'.id = id
  BY <1>1
<1>12. Staged' /\ Quiet'
  BY <1>1, <1>11, TodosDiffer DEF Staged, Quiet, FlushTails
<1>13. ListsNamed'
  BY <1>1, <1>9, ListsStayNamed DEF IInv
<1>14. JobNamed'
  BY <1>1, <1>2, <1>6, <1>8, <1>11 DEF JobNamed, Named
<1>15. MapsAgree'
  <2>1. Injective(LoadedMap)'
    BY <1>2, <1>3, <1>6 DEF IInv, MapsAgree, Injective
  <2>2. ASSUME NEW i \in DOMAIN savedMap
        PROVE  \/ savedMap[i] \in orphans' \cup {NoText}
               \/ i \in DOMAIN dataMap' /\ dataMap'[i] = savedMap[i]
    BY <1>1, <1>6 DEF IInv, MapsAgree
  <2> QED
    BY <1>1, <1>6, <2>1, <2>2 DEF IInv, MapsAgree, Injective
<1>16. FirstProcess'
  BY <1>1, <1>2, <1>5, <1>6 DEF IInv, FirstProcess, Undisturbed
<1> QED
  BY <1>1, <1>10, <1>12, <1>13, <1>14, <1>15, <1>16, Untouched DEF IInv

\* A lookup loads the map and may leave an entry for an id that was not there.
LEMMA LookUpKeeps ==
  ASSUME IInv, NEW id \in 0 .. MaxId, LookUp(id)
  PROVE  IInv'
<1>1. /\ job.rest = << >> /\ job.todo = << >> /\ isStorageLoaded' = TRUE
      /\ dataMap' = [i \in DOMAIN LoadedMap \cup {id} |->
                       IF i \in DOMAIN LoadedMap THEN LoadedMap[i] ELSE NoText]
      /\ UNCHANGED <<job, buffer, index, savedIndex, savedMap>>
      /\ strayed' = (strayed \/ id \notin DOMAIN LoadedMap)
      /\ UNCHANGED <<texts, expected, savedExpected, dirty, exposed, orphans, ends>>
  BY DEF LookUp, IsIdle, process, indexes
<1>2. /\ strayed' \in BOOLEAN /\ Undisturbed' => Undisturbed /\ id \in DOMAIN LoadedMap
  BY <1>1 DEF Undisturbed, IInv, Typed
<1>3. /\ id \in Nat
      /\ IsIndexOf(index, Ids') /\ IsBufferOf(buffer, Ids')
  BY <1>1, <1>2, EngineAssumption DEF IInv, Typed, IsIndexOf, IsBufferOf, Ids
<1>4. /\ IsFiniteSet(DOMAIN LoadedMap) /\ DOMAIN LoadedMap \subseteq Nat
      /\ \A i \in DOMAIN LoadedMap : LoadedMap[i] \in (1 .. texts) \cup {NoText}
      /\ NoText \notin 1 .. texts
  BY EngineAssumption DEF IInv, Typed, IsMapOf, LoadedMap
<1>5. /\ LoadedMap' = dataMap' /\ DOMAIN dataMap' = DOMAIN LoadedMap \cup {id}
      /\ \A i \in DOMAIN LoadedMap : dataMap'[i] = LoadedMap[i]
      /\ \A i \in DOMAIN dataMap' : dataMap'[i] # NoText => i \in DOMAIN LoadedMap
  BY <1>1 DEF LoadedMap
<1>6. Typed'
  <2>1. IsFiniteSet(DOMAIN dataMap')
    BY <1>4, <1>5, FS_AddElement
  <2>2. IsMapOf(dataMap)'
    BY <1>1, <1>3, <1>4, <1>5, <2>1 DEF IsMapOf
  <2> QED
    BY <1>1, <1>2, <1>3, <2>2 DEF IInv, Typed, IsMapOf
<1>7. Staged' /\ JobNamed'
  BY <1>1 DEF IInv, Staged, JobNamed
<1>8. ListsNamed'
  <2>1. ASSUME NEW i \in Nat
        PROVE  /\ Named(LoadedMap, i) \subseteq Named(LoadedMap, i)'
               /\ NamedSaved(i) \subseteq NamedSaved(i)'
    BY <1>1, <1>5 DEF Named, NamedSaved
  <2> QED
    BY <1>1, <2>1, ListsStayNamed DEF IInv
<1>9. MapsAgree'
  BY <1>1, <1>5 DEF IInv, MapsAgree, Injective
<1>10. FirstProcess'
  BY <1>1, <1>2, <1>5 DEF IInv, FirstProcess
<1>11. Quiet'
  <2>1. TextsSaved => TextsSaved'
    BY <1>1, <1>5 DEF TextsSaved
  <2> QED
    BY <1>1, <2>1 DEF IInv, Quiet
<1> QED
  BY <1>1, <1>6, <1>7, <1>8, <1>9, <1>10, <1>11, Untouched DEF IInv

\* The process ends: everything goes back to what was saved.
LEMMA ProcessEndsKeeps == ASSUME IInv, ProcessEnds PROVE IInv'
<1>1. /\ job'.rest = << >> /\ job'.todo = << >> /\ job' \in Calls
      /\ ends' = ends + 1 /\ buffer' = NoTokens /\ index' = savedIndex
      /\ dataMap' = NoTokens /\ isStorageLoaded' = FALSE /\ expected' = savedExpected
      /\ orphans' = orphans \cup exposed /\ dirty' = FALSE
      /\ UNCHANGED <<savedIndex, savedMap, texts, savedExpected, exposed, strayed>>
      /\ LoadedMap' = savedMap
  BY DEF ProcessEnds, Idle, Calls, Todos, LoadedMap
<1>2. ends' # 0 /\ ends' \in Nat /\ Ids' = Nat
  BY <1>1 DEF IInv, Typed, Ids, Undisturbed
<1>3. Typed'
  <2>1. IsMapOf(NoTokens)'
    <3>1. DOMAIN NoTokens = {}
      BY DEF NoTokens
    <3> QED
      BY <3>1, FS_EmptySet DEF IsMapOf
  <2>2. IsMapOf(savedMap)'
    BY <1>1 DEF IInv, Typed, IsMapOf
  <2>3. IsMapOf(dataMap)'
    BY <1>1, <2>1 DEF IsMapOf
  <2> QED
    BY <1>1, <1>2, <2>2, <2>3, EmptyBuffer DEF IInv, Typed
<1>4. Staged'
  BY <1>1, TodosDiffer DEF Staged
<1>5. ASSUME NEW id \in Nat
      PROVE  /\ NamedSaved(id) \subseteq Named(LoadedMap, id)'
             /\ NamedSaved(id) \subseteq NamedSaved(id)'
  BY <1>1 DEF Named, NamedSaved
<1>6. ListsNamed'
  <2>1. \A S : << >> \in Seq(S)
    BY EmptySeq
  <2> SUFFICES ASSUME NEW w \in Words, NEW id \in Nat
               PROVE  /\ Positions(savedIndex, w, id) \in Seq(Named(LoadedMap, id)' \X Nat)
                      /\ Waiting(NoTokens, w, id) \in Seq(Named(LoadedMap, id)' \X Nat)
                      /\ Positions(savedIndex, w, id) \in Seq(NamedSaved(id)' \X Nat)
    BY <1>1 DEF ListsNamed
  <2>2. Positions(savedIndex, w, id) \in Seq(NamedSaved(id) \X Nat)
    BY DEF IInv, ListsNamed
  <2>3. Waiting(NoTokens, w, id) \in Seq(Named(LoadedMap, id)' \X Nat)
    BY <2>1, EmptyBuffer
  <2> QED
    BY <1>5, <2>2, <2>3, Widen
<1>7. KeptInMemory'
  <2> SUFFICES ASSUME NEW w \in Words, NEW id \in 1 .. MaxId
               PROVE  Positions(savedIndex, w, id) \o Waiting(NoTokens, w, id)
                        = savedExpected[w][id]
    BY <1>1 DEF KeptInMemory
  <2> DEFINE T == NamedSaved(id) \X Nat
  <2>1. id \in Nat
    BY EngineAssumption
  <2>2. Positions(savedIndex, w, id) \in Seq(T)
    BY <2>1 DEF IInv, ListsNamed
  <2> HIDE DEF T
  <2>3. Positions(savedIndex, w, id) \o << >> = Positions(savedIndex, w, id)
    BY <2>2, ConcatEmptySeq
  <2>4. Positions(savedIndex, w, id) = savedExpected[w][id]
    BY DEF IInv, KeptOnDisk
  <2> QED
    BY <2>3, <2>4, EmptyBuffer
<1>8. JobNamed' /\ FirstProcess'
  BY <1>1, <1>2 DEF JobNamed, FirstProcess, Undisturbed
<1>9. MapsAgree'
  BY <1>1 DEF IInv, MapsAgree, Injective
<1>10. Quiet'
  BY <1>1 DEF Quiet, TextsSaved
<1> QED
  BY <1>1, <1>3, <1>4, <1>6, <1>7, <1>8, <1>9, <1>10, Untouched DEF IInv

-----------------------------------------------------------------------------
LEMMA NextIInv == IInv /\ [Next]_vars => IInv'
<1> SUFFICES ASSUME IInv, [Next]_vars PROVE IInv'
  OBVIOUS
<1>1. CASE UNCHANGED vars
  <2>1. UNCHANGED <<job, buffer, index, savedIndex, storage, dataMap, savedMap, isStorageLoaded>>
        /\ UNCHANGED <<texts, expected, savedExpected, dirty, exposed, orphans, strayed, ends>>
    BY <1>1 DEF vars, process, indexes, storage, observer
  <2>2. LoadedMap' = LoadedMap /\ Ids' = Ids
    BY <2>1 DEF LoadedMap, Ids, Undisturbed
  <2>3. Typed' /\ Staged'
    BY <2>1, <2>2 DEF IInv, Typed, IsMapOf, Staged
  <2>4. JobNamed' /\ Quiet'
    BY <2>1, <2>2, Untouched DEF IInv, JobNamed, Named, Quiet
  <2> QED
    BY <2>1, <2>3, <2>4, Untouched DEF IInv
<1>2. CASE Construct
  BY <1>2, ConstructKeeps
<1>3. CASE ConstructThrows
  BY <1>1, <1>3 DEF ConstructThrows
<1>4. CASE \E content \in Contents, flushes \in BOOLEAN : Proceed(content, flushes)
  BY <1>4, ProceedKeeps
<1>5. CASE AddToken
  BY <1>5, AddTokenKeeps
<1>6. CASE SaveTo
  BY <1>6, SaveToKeeps
<1>7. CASE SaveIndex
  BY <1>7, SaveIndexKeeps
<1>8. CASE SaveTexts
  BY <1>8, SaveTextsKeeps
<1>9. CASE Destroyed
  BY <1>9, DestroyedKeeps
<1>10. CASE ProceedThrows
  BY <1>10, ProceedThrowsKeeps
<1>11. CASE Flush
  BY <1>11, FlushKeeps
<1>12. CASE Destroy
  BY <1>12, DestroyKeeps
<1>13. CASE \E id \in 0 .. MaxId : LookUp(id)
  BY <1>13, LookUpKeeps
<1>14. CASE ProcessEnds
  BY <1>14, ProcessEndsKeeps
<1> QED
  BY <1>1, <1>2, <1>3, <1>4, <1>5, <1>6, <1>7, <1>8, <1>9, <1>10, <1>11, <1>12, <1>13, <1>14
     DEF Next

\* The inductive invariant holds in every state.
THEOREM Invariance == Spec => []IInv
<1>1. Init => IInv
  BY InitIInv
<1>2. IInv /\ [Next]_vars => IInv'
  BY NextIInv
<1> QED
  BY <1>1, <1>2, PTL DEF Spec

\* Every position of every token is exactly once in the index or in the buffer, in the
\* order of its text, for every buffer size, through overflows, throws, destroyed engines
\* and ends of the process.  (Indexer::addToken, saveTo, indexer.cpp:21-58.)
THEOREM TokensKept == Spec => []NothingLostOrDoubled
<1>1. IInv => NothingLostOrDoubled
  BY DEF IInv, KeptInMemory, NothingLostOrDoubled
<1> QED
  BY <1>1, Invariance, PTL

\* A position in the index leads, by its id, to the text it was indexed from, or that
\* text is an orphan; in the first process there are no orphans as long as nobody asks for
\* an id that nobody has.  (Engine::flush,
\* FileStorage's constructors, engine.cpp:81-91, 150-153.)
THEOREM PositionsNameTexts == Spec => []NamesText
<1>1. IInv => NamesText
  <2> SUFFICES ASSUME IInv PROVE NamesText
    OBVIOUS
  <2>1. ends = 0 /\ ~strayed => orphans = {}
    BY DEF IInv, FirstProcess, Undisturbed
  <2>2. ASSUME NEW w \in DOMAIN index, NEW id \in DOMAIN index[w],
               NEW i \in DOMAIN index[w][id]
        PROVE  LET t == index[w][id][i][1]
               IN  t \in orphans \/ (id \in DOMAIN LoadedMap /\ LoadedMap[id] = t)
    <3>1. w \in Words /\ id \in Nat
      BY DEF IInv, Typed, IsIndexOf, Ids, Undisturbed
    <3>2. Positions(index, w, id) = index[w][id]
      BY DEF Positions, At
    <3> DEFINE T == Named(LoadedMap, id) \X Nat
               s == index[w][id]
    <3>3. s \in Seq(T)
      BY <3>1, <3>2 DEF IInv, ListsNamed
    <3>4. s[i] \in T
      <4> HIDE DEF s, T
      <4>1. i \in DOMAIN s
        BY DEF s
      <4> QED
        BY <3>3, <4>1, LenProperties, ElementOfSeq
    <3>5. s[i][1] \in Named(LoadedMap, id)
      BY <3>4
    <3> QED
      BY <3>5 DEF Named
  <2> QED
    BY <2>1, <2>2 DEF NamesText
<1> QED
  BY <1>1, Invariance, PTL

\* When proceed or flush has returned and nobody has skipped a flush, the buffer is empty
\* and what a restart would load is what is in memory, the index and the map of texts.
\* (DataHandler::flush, Engine::flush, dataHandler.cpp:26-29, engine.cpp:150-153.)
THEOREM FlushSettles == Spec => []Settled
<1>1. IInv => Settled
  BY DEF IInv, Quiet, TextsSaved, Settled, IsIdle
<1> QED
  BY <1>1, Invariance, PTL

-----------------------------------------------------------------------------
\* Type correctness: while a call has tokens left, its id is one that was given out.
Numbered == job.rest # << >> => job.id \in 1 .. MaxId /\ job.text \in 1 .. texts

TInv == TypeOK /\ Numbered

LEMMA IndexedType ==
  ASSUME NEW i, IsIndex(i), NEW b, IsBuffer(b)
  PROVE  IsIndex(Indexed(i, b))
<1> DEFINE new == Indexed(i, b)
<1>1. DOMAIN new = DOMAIN i \cup DOMAIN b
  BY DEF Indexed
<1>2. ASSUME NEW w \in DOMAIN new PROVE IsPosMap(new[w])
  <2> DEFINE old == IF w \in DOMAIN i THEN i[w] ELSE NoPositions
  <2>1. IsPosMap(old)
    BY DEF IsIndex, NoPositions, IsPosMap
  <2>2. CASE w \in DOMAIN b
    <3> DEFINE add == b[w].filePositions
    <3>1. new[w] = MergeFilePositions(old, add)
      BY <1>2, <2>2 DEF Indexed
    <3>2. IsPosMap(add)
      BY <2>2 DEF IsBuffer
    <3> HIDE DEF old, add, new
    <3>3. \A id : At(old, id) \in Seq(Info) /\ At(add, id) \in Seq(Info)
      BY <2>1, <3>2 DEF IsPosMap, At
    <3>4. \A id : At(old, id) \o At(add, id) \in Seq(Info)
      BY <3>3
    <3> QED
      BY <2>1, <3>1, <3>2, <3>4 DEF MergeFilePositions, IsPosMap
  <2>3. CASE w \notin DOMAIN b
    BY <1>1, <1>2, <2>1, <2>3 DEF Indexed
  <2> QED
    BY <2>2, <2>3
<1> QED
  BY <1>1, <1>2 DEF IsIndex, IsBuffer

LEMMA BufferedType ==
  ASSUME NEW b, IsBuffer(b), NEW w \in Words, NEW id \in 1 .. MaxId, NEW info \in Info
  PROVE  IsBuffer(Buffered(b, w, id, info))
<1> DEFINE new == Buffered(b, w, id, info)
<1>1. DOMAIN new = DOMAIN b \cup {w}
  BY DEF Buffered
<1>2. ASSUME NEW v \in DOMAIN new
      PROVE  IsPosMap(new[v].filePositions) /\ new[v].posMapSize \in Nat
  <2>1. CASE v # w
    BY <1>1, <1>2, <2>1 DEF Buffered, IsBuffer
  <2>2. CASE v = w /\ w \in DOMAIN b
    <3> DEFINE old == b[w].filePositions
    <3>1. new[v] = AddPosition(b[w], id, info)
      BY <2>2 DEF Buffered
    <3>2. IsPosMap(old) /\ b[w].posMapSize \in Nat
      BY <2>2 DEF IsBuffer
    <3>3. At(old, id) \in Seq(Info)
      BY <3>2 DEF IsPosMap, At
    <3>4. /\ new[v].filePositions = [j \in DOMAIN old \cup {id} |->
                                       IF j = id THEN Append(At(old, id), info) ELSE old[j]]
          /\ new[v].posMapSize = b[w].posMapSize + 1
      BY <3>1 DEF AddPosition
    <3> HIDE DEF old, new
    <3>5. Append(At(old, id), info) \in Seq(Info)
      BY <3>3
    <3> QED
      BY <3>2, <3>4, <3>5 DEF IsPosMap
  <2>3. CASE v = w /\ w \notin DOMAIN b
    <3>1. new[v] = BigToken(id, info)
      BY <2>3 DEF Buffered
    <3>2. <<info>> \in Seq(Info)
      OBVIOUS
    <3> QED
      BY <3>1, <3>2 DEF BigToken, IsPosMap
  <2> QED
    BY <2>1, <2>2, <2>3
<1> QED
  BY <1>1, <1>2 DEF IsBuffer

LEMMA NoTokensTypes ==
  IsBuffer(NoTokens) /\ IsIndex(NoTokens) /\ IsTextMap(NoTokens)
BY DEF IsBuffer, IsIndex, IsTextMap, NoTokens

LEMMA InitTInv == Init => TInv
<1> SUFFICES ASSUME Init PROVE TInv
  OBVIOUS
<1> USE DEF Init
<1>1. << >> \in Seq(Info) /\ << >> \in Seq(Words) /\ 0 \in 0 .. MaxTexts /\ 0 \in 0 .. MaxId /\ 0 \in 0 .. MaxEnds
  BY EngineAssumption
<1>2. expected \in [Words -> [1 .. MaxId -> Seq(Info)]]
  BY <1>1
<1>3. TypeOK
  BY <1>1, <1>2, NoTokensTypes DEF TypeOK, Idle
<1>4. Numbered
  BY DEF Numbered, Idle
<1> QED
  BY <1>3, <1>4 DEF TInv

\* A text gets the number of the ids there are plus one.
LEMMA ProceedTypes ==
  ASSUME IInv, TInv, NEW content \in Contents, NEW flushes \in BOOLEAN,
         Proceed(content, flushes)
  PROVE  TInv'
<1> DEFINE u == texts + 1
           id == NextId
<1>1. /\ texts \in Nat /\ u \in 1 .. MaxTexts /\ texts' = u /\ texts <= u
      /\ isStorageLoaded' = TRUE /\ dirty' = (dirty \/ ~flushes)
      /\ dataMap' = [i \in DOMAIN LoadedMap \cup {id} |-> IF i = id THEN u ELSE LoadedMap[i]]
      /\ job'.id = id /\ job'.text = u /\ job'.rest = content
      /\ orphans' = orphans \cup
                      (IF id \in DOMAIN LoadedMap THEN {LoadedMap[id]} \ {NoText} ELSE {})
      /\ UNCHANGED <<instancesNumber, engine, buffer, currentSizeInBytes, index, savedIndex,
                     savedMap, expected, savedExpected, exposed, strayed, ends>>
  BY EngineAssumption DEF Proceed, TInv, TypeOK, indexes
<1>2. IsTextMap(LoadedMap)
  BY DEF LoadedMap, TInv, TypeOK
<1>3. id \in 1 .. MaxId
  <2>1. Cardinality(DOMAIN LoadedMap) \in Nat
    BY FS_CardinalityType DEF LoadedMap, IInv, Typed, IsMapOf
  <2>2. id <= MaxId
    BY DEF Proceed
  <2> QED
    BY <2>1, <2>2, EngineAssumption DEF NextId
<1> HIDE DEF u, id
<1>4. 1 .. texts \subseteq 1 .. u /\ 1 .. u \subseteq 1 .. MaxTexts
  BY <1>1, EngineAssumption
<1>5. IsTextMap(dataMap')
  BY <1>1, <1>2, <1>3 DEF IsTextMap
<1>6. exposed' \subseteq 1 .. texts' /\ orphans' \subseteq 1 .. texts'
  <2>1. IsMapOf(LoadedMap)
    BY DEF LoadedMap, IInv, Typed
  <2>2. id \in DOMAIN LoadedMap => LoadedMap[id] \in (1 .. texts) \cup {NoText}
    BY <2>1 DEF IsMapOf
  <2> QED
    BY <1>1, <1>4, <2>2 DEF TInv, TypeOK
<1>7. content \in Seq(Words) /\ dirty' \in BOOLEAN
  BY <1>1, EngineAssumption
<1>8. TypeOK'
  <2>1. texts' \in 0 .. MaxTexts /\ id \in 0 .. MaxId /\ u \in 0 .. MaxTexts
    BY <1>1, <1>3, EngineAssumption
  <2> QED
    BY <1>1, <1>5, <1>6, <1>7, <2>1 DEF TInv, TypeOK, IsBuffer, IsIndex, IsTextMap
<1>9. Numbered'
  BY <1>1, <1>3 DEF Numbered
<1> QED
  BY <1>8, <1>9 DEF TInv

LEMMA AddTokenTypes ==
  ASSUME IInv, TInv, AddToken
  PROVE  TInv'
<1> DEFINE w    == Head(job.rest)
           id   == job.id
           info == <<job.text, Len(job.rest)>>
           full == Overflows(buffer, currentSizeInBytes, w, id)
           kept == IF full THEN NoTokens ELSE buffer
           size == IF full THEN 0 ELSE currentSizeInBytes
<1>1. /\ job.rest # << >>
      /\ index' = IF full THEN Indexed(index, buffer) ELSE index
      /\ buffer' = Buffered(kept, w, id, info)
      /\ currentSizeInBytes' = size + Growth(kept, w, id)
      /\ job' = [job EXCEPT !.rest = Tail(@)]
      /\ expected' = [expected EXCEPT ![w][id] = Append(@, info)]
      /\ UNCHANGED <<instancesNumber, engine, savedIndex, dataMap, isStorageLoaded, savedMap,
                     texts, savedExpected, dirty, exposed, orphans, strayed, ends>>
  BY DEF AddToken, storage
<1>2. /\ job.rest \in Seq(Words) /\ w \in Words /\ Tail(job.rest) \in Seq(Words)
      /\ Len(job.rest) \in Nat
  BY <1>1 DEF TInv, TypeOK
<1>3. texts \in Nat /\ id \in 1 .. MaxId /\ job.text \in 1 .. texts /\ 1 .. texts \subseteq 1 .. MaxTexts
  BY <1>1, EngineAssumption DEF TInv, TypeOK, Numbered
<1>4. info \in Info
  BY <1>2, <1>3 DEF Info
<1>5. job \in Calls
  BY DEF IInv, Typed
<1>6. /\ job'.rest \in Seq(Words) /\ job'.id = job.id /\ job'.text = job.text
  BY <1>1, <1>2, <1>5 DEF Calls
<1> HIDE DEF w, id, info
<1>7. IsBuffer(kept) /\ size \in Nat
  BY NoTokensTypes DEF TInv, TypeOK
<1>8. IsIndex(index')
  <2>1. IsIndex(index) /\ IsBuffer(buffer)
    BY DEF TInv, TypeOK
  <2> QED
    BY <1>1, <2>1, IndexedType
<1> HIDE DEF kept, size, full
<1>9. IsBuffer(buffer')
  BY <1>1, <1>2, <1>3, <1>4, <1>7, BufferedType
<1>10. currentSizeInBytes' \in Nat
  BY <1>1, <1>7 DEF Growth, InfoSize, IdSize
<1>11. expected' \in [Words -> [1 .. MaxId -> Seq(Info)]]
  <2>1. expected \in [Words -> [1 .. MaxId -> Seq(Info)]] /\ id \in 1 .. MaxId
    BY <1>3 DEF TInv, TypeOK, id
  <2>2. expected[w][id] \in Seq(Info)
    BY <1>2, <2>1
  <2>3. Append(expected[w][id], info) \in Seq(Info)
    BY <1>4, <2>2
  <2>4. expected' = [expected EXCEPT ![w][id] = Append(expected[w][id], info)]
    BY <1>1, <1>2, <2>1
  <2> QED
    BY <1>2, <2>1, <2>3, <2>4
<1>12. TypeOK'
  BY <1>1, <1>6, <1>8, <1>9, <1>10, <1>11 DEF TInv, TypeOK, IsIndex, IsTextMap
<1>13. Numbered'
  BY <1>1, <1>3, <1>6 DEF TInv, Numbered, id
<1> QED
  BY <1>12, <1>13 DEF TInv

\* A lookup may leave an entry for any id.
LEMMA LookUpTypes ==
  ASSUME IInv, TInv, NEW id \in 0 .. MaxId, LookUp(id)
  PROVE  TInv'
<1>1. /\ isStorageLoaded' = TRUE
      /\ dataMap' = [i \in DOMAIN LoadedMap \cup {id} |->
                       IF i \in DOMAIN LoadedMap THEN LoadedMap[i] ELSE NoText]
      /\ strayed' = (strayed \/ id \notin DOMAIN LoadedMap)
      /\ UNCHANGED <<instancesNumber, engine, buffer, currentSizeInBytes, job, index, savedIndex,
                     savedMap, texts, expected, savedExpected, dirty, exposed, orphans, ends>>
  BY DEF LookUp, process, indexes
<1>2. IsTextMap(LoadedMap)
  BY DEF LoadedMap, TInv, TypeOK
<1>3. IsTextMap(dataMap')
  BY <1>1, <1>2 DEF IsTextMap
<1> QED
  BY <1>1, <1>3 DEF TInv, TypeOK, Numbered, IsBuffer, IsIndex, IsTextMap

\* The steps of a flush and of the end of an engine move what is typed already.
LEMMA StepTypes ==
  ASSUME IInv, TInv, SaveTo \/ SaveIndex \/ SaveTexts \/ Destroyed
  PROVE  TInv'
<1>1. /\ job.rest = << >> /\ job' = [job EXCEPT !.todo = Tail(@)] /\ job \in Calls
      /\ UNCHANGED <<dataMap, isStorageLoaded, texts, expected, strayed, ends>>
  BY DEF SaveTo, SaveIndex, SaveTexts, Destroyed, Does, Done, storage, observer, IInv, Typed
<1>2. job'.rest = << >> /\ job'.id = job.id /\ job'.text = job.text
  BY <1>1 DEF Calls
<1>3. IsIndex(index) /\ IsBuffer(buffer)
  BY DEF TInv, TypeOK
<1>4. IsIndex(Indexed(index, buffer))
  BY <1>3, IndexedType
<1>5. /\ IsIndex(index') /\ IsBuffer(buffer') /\ currentSizeInBytes' \in Nat
      /\ IsIndex(savedIndex') /\ savedExpected' \in [Words -> [1 .. MaxId -> Seq(Info)]]
      /\ IsTextMap(savedMap')
      /\ exposed' \subseteq 1 .. texts /\ orphans' \subseteq 1 .. texts /\ dirty' \in BOOLEAN
      /\ instancesNumber' \in {0, 1} /\ engine' \in BOOLEAN /\ (engine' => instancesNumber' = 1)
  <2>1. CASE SaveTo
    BY <1>3, <1>4, <2>1, NoTokensTypes DEF SaveTo, storage, observer, TInv, TypeOK
  <2>2. CASE SaveIndex
    BY <1>3, <2>2 DEF SaveIndex, storage, TInv, TypeOK, Unsaved
  <2>3. CASE SaveTexts
    BY <1>3, <2>3 DEF SaveTexts, indexes, TInv, TypeOK
  <2>4. CASE Destroyed
    BY <1>3, <2>4 DEF Destroyed, indexes, storage, observer, TInv, TypeOK
  <2> QED
    BY <2>1, <2>2, <2>3, <2>4
<1>6. TypeOK'
  BY <1>1, <1>2, <1>5 DEF TInv, TypeOK, IsTextMap
<1>7. Numbered'
  BY <1>1, <1>2 DEF TInv, Numbered
<1> QED
  BY <1>6, <1>7 DEF TInv

\* Steps that begin or break off a call.
LEMMA CallTypes ==
  ASSUME IInv, TInv, Construct \/ ConstructThrows \/ ProceedThrows \/ Flush \/ Destroy
  PROVE  TInv'
<1>1. /\ UNCHANGED <<buffer, currentSizeInBytes, index, savedIndex, dataMap, isStorageLoaded,
                     savedMap, texts, expected, savedExpected, exposed, orphans, strayed, ends>>
      /\ dirty' \in BOOLEAN
      /\ instancesNumber' \in {0, 1} /\ engine' \in BOOLEAN /\ (engine' => instancesNumber' = 1)
      /\ \/ job' = job
         \/ job'.rest = << >> /\ job'.id = 0 /\ job'.text = 0
  <2> USE DEF indexes, storage, observer, TInv, TypeOK
  <2>1. CASE Construct
    BY <2>1 DEF Construct
  <2>2. CASE ConstructThrows
    BY <2>2 DEF ConstructThrows, process, vars
  <2>3. CASE ProceedThrows
    BY <2>3 DEF ProceedThrows, Idle
  <2>4. CASE Flush
    BY <2>4 DEF Flush, Idle
  <2>5. CASE Destroy
    BY <2>5 DEF Destroy, Idle
  <2> QED
    BY <2>1, <2>2, <2>3, <2>4, <2>5
<1>2. TypeOK'
  <2>1. << >> \in Seq(Words) /\ 0 \in 0 .. MaxTexts /\ 0 \in 0 .. MaxId
    BY EngineAssumption
  <2> QED
    BY <1>1, <2>1 DEF TInv, TypeOK, IsBuffer, IsIndex, IsTextMap
<1>3. Numbered'
  BY <1>1 DEF TInv, Numbered
<1> QED
  BY <1>2, <1>3 DEF TInv

LEMMA ProcessEndsTypes ==
  ASSUME IInv, TInv, ProcessEnds
  PROVE  TInv'
<1>1. /\ ends < MaxEnds /\ ends' = ends + 1 /\ instancesNumber' = 0 /\ engine' = FALSE
      /\ buffer' = NoTokens /\ currentSizeInBytes' = 0 /\ job' = Idle
      /\ index' = savedIndex /\ dataMap' = NoTokens /\ isStorageLoaded' = FALSE
      /\ expected' = savedExpected /\ orphans' = orphans \cup exposed /\ dirty' = FALSE
      /\ UNCHANGED <<savedIndex, savedMap, texts, savedExpected, exposed, strayed>>
  BY DEF ProcessEnds
<1>2. ends' \in 0 .. MaxEnds /\ 0 \in 0 .. MaxTexts /\ 0 \in 0 .. MaxId /\ << >> \in Seq(Words)
  BY <1>1, EngineAssumption DEF TInv, TypeOK
<1>3. TypeOK'
  BY <1>1, <1>2, NoTokensTypes DEF TInv, TypeOK, Idle, IsIndex, IsTextMap
<1>4. Numbered'
  BY <1>1 DEF Numbered, Idle
<1> QED
  BY <1>3, <1>4 DEF TInv

LEMMA NextTInv == IInv /\ TInv /\ [Next]_vars => TInv'
<1> SUFFICES ASSUME IInv, TInv, [Next]_vars PROVE TInv'
  OBVIOUS
<1>1. CASE \E content \in Contents, flushes \in BOOLEAN : Proceed(content, flushes)
  BY <1>1, ProceedTypes
<1>2. CASE AddToken
  BY <1>2, AddTokenTypes
<1>3. CASE SaveTo \/ SaveIndex \/ SaveTexts \/ Destroyed
  BY <1>3, StepTypes
<1>4. CASE Construct \/ ConstructThrows \/ ProceedThrows \/ Flush \/ Destroy
  BY <1>4, CallTypes
<1>5. CASE \E id \in 0 .. MaxId : LookUp(id)
  BY <1>5, LookUpTypes
<1>6. CASE ProcessEnds
  BY <1>6, ProcessEndsTypes
<1>7. CASE UNCHANGED vars
  BY <1>7 DEF vars, process, indexes, storage, observer, TInv, TypeOK, Numbered, IsBuffer, IsIndex,
              IsTextMap
<1> QED
  BY <1>1, <1>2, <1>3, <1>4, <1>5, <1>6, <1>7 DEF Next

\* The types, for every set of words and texts and every bound, also after lookups of
\* unknown ids, throws and restarts.
THEOREM TypeCorrect == Spec => []TypeOK
<1>1. Init => TInv
  BY InitTInv
<1>2. IInv /\ TInv /\ [Next]_vars => TInv'
  BY NextTInv
<1>3. TInv => TypeOK
  BY DEF TInv
<1> QED
  BY <1>1, <1>2, <1>3, Invariance, PTL DEF Spec

-----------------------------------------------------------------------------
\* The size of the buffer, counted: what is in it, by its lists of positions.
LEMMA GroupsAreKeys ==
  ASSUME NEW b
  PROVE  /\ \A w, id : <<w, id>> \in Groups(b) <=> w \in DOMAIN b /\ id \in DOMAIN b[w].filePositions
         /\ \A g \in Groups(b) : g = <<g[1], g[2]>>
  BY DEF Groups

LEMMA SlotsAreWaiting ==
  ASSUME NEW b
  PROVE  /\ \A w, id, n : << <<w, id>>, n >> \in Slots(b) <=> n \in DOMAIN Waiting(b, w, id)
         /\ \A s \in Slots(b) : s = << <<s[1][1], s[1][2]>>, s[2] >>
<1>1. ASSUME NEW w, NEW id, NEW n
      PROVE  << <<w, id>>, n >> \in Slots(b) <=> n \in DOMAIN Waiting(b, w, id)
  <2>1. << <<w, id>>, n >> \in Slots(b) <=>
          <<w, id>> \in Groups(b) /\ n \in DOMAIN b[w].filePositions[id]
    BY DEF Slots
  <2>2. DOMAIN << >> = {}
    OBVIOUS
  <2> QED
    BY <2>1, <2>2, GroupsAreKeys DEF Waiting, At
<1>2. ASSUME NEW s \in Slots(b) PROVE s = << <<s[1][1], s[1][2]>>, s[2] >>
  <2>1. PICK g \in Groups(b) : s \in {g} \X DOMAIN b[g[1]].filePositions[g[2]]
    BY DEF Slots
  <2>2. g = <<g[1], g[2]>> /\ s = <<g, s[2]>>
    BY <2>1, GroupsAreKeys
  <2> QED
    BY <2>2
<1> QED
  BY <1>1, <1>2

LEMMA GroupsBuffered ==
  ASSUME NEW b, NEW w, NEW id, NEW info
  PROVE  Groups(Buffered(b, w, id, info)) = Groups(b) \cup {<<w, id>>}
<1> DEFINE new == Buffered(b, w, id, info)
<1>1. ASSUME NEW v, NEW i
      PROVE  v \in DOMAIN new /\ i \in DOMAIN new[v].filePositions <=>
               (v \in DOMAIN b /\ i \in DOMAIN b[v].filePositions) \/ (v = w /\ i = id)
  <2>1. DOMAIN new = DOMAIN b \cup {w}
    BY DEF Buffered
  <2>2. CASE v # w
    BY <2>1, <2>2 DEF Buffered
  <2>3. CASE v = w /\ w \in DOMAIN b
    <3>1. new[v] = AddPosition(b[w], id, info)
      BY <2>3 DEF Buffered
    <3> QED
      BY <2>1, <2>3, <3>1 DEF AddPosition
  <2>4. CASE v = w /\ w \notin DOMAIN b
    <3>1. new[v] = BigToken(id, info)
      BY <2>4 DEF Buffered
    <3> QED
      BY <2>1, <2>4, <3>1 DEF BigToken
  <2> QED
    BY <2>2, <2>3, <2>4
<1>2. ASSUME NEW v, NEW i
      PROVE  <<v, i>> \in Groups(new) <=> <<v, i>> \in Groups(b) \/ <<v, i>> = <<w, id>>
  BY <1>1, GroupsAreKeys
<1>3. \A g \in Groups(new) : g = <<g[1], g[2]>>
  BY GroupsAreKeys
<1>4. \A g \in Groups(b) : g = <<g[1], g[2]>>
  BY GroupsAreKeys
<1> HIDE DEF new
<1>5. \A g : g \in Groups(new) <=> g \in Groups(b) \cup {<<w, id>>}
  BY <1>2, <1>3, <1>4
<1> QED
  BY <1>5 DEF new

LEMMA SlotsBuffered ==
  ASSUME NEW b, NEW w, NEW id, NEW info, Waiting(b, w, id) \in Seq(Info), info \in Info
  PROVE  LET slot == << <<w, id>>, Len(Waiting(b, w, id)) + 1 >>
         IN  /\ Slots(Buffered(b, w, id, info)) = Slots(b) \cup {slot}
             /\ slot \notin Slots(b)
<1> DEFINE new  == Buffered(b, w, id, info)
           last == Len(Waiting(b, w, id)) + 1
           slot == << <<w, id>>, last >>
<1>1. /\ DOMAIN Waiting(b, w, id) = 1 .. Len(Waiting(b, w, id)) /\ Len(Waiting(b, w, id)) \in Nat
      /\ DOMAIN Append(Waiting(b, w, id), info) = DOMAIN Waiting(b, w, id) \cup {last}
  OBVIOUS
<1>2. last \notin DOMAIN Waiting(b, w, id)
  BY <1>1
<1>3. slot \notin Slots(b)
  BY <1>2, SlotsAreWaiting
<1>4. ASSUME NEW v, NEW i
      PROVE  Waiting(new, v, i) =
               IF v = w /\ i = id THEN Append(Waiting(b, v, i), info) ELSE Waiting(b, v, i)
  BY BufferedWaiting
<1> HIDE DEF new, last
<1>5. ASSUME NEW v, NEW i, NEW n
      PROVE  << <<v, i>>, n >> \in Slots(new) <=>
               << <<v, i>>, n >> \in Slots(b) \/ (v = w /\ i = id /\ n = last)
  <2>1. << <<v, i>>, n >> \in Slots(new) <=> n \in DOMAIN Waiting(new, v, i)
    BY SlotsAreWaiting
  <2>2. << <<v, i>>, n >> \in Slots(b) <=> n \in DOMAIN Waiting(b, v, i)
    BY SlotsAreWaiting
  <2>3. CASE v = w /\ i = id
    <3>1. DOMAIN Waiting(new, v, i) = DOMAIN Waiting(b, v, i) \cup {last}
      BY <1>1, <1>4, <2>3
    <3> QED
      BY <2>1, <2>2, <2>3, <3>1
  <2>4. CASE ~ (v = w /\ i = id)
    <3>1. Waiting(new, v, i) = Waiting(b, v, i)
      BY <1>4, <2>4
    <3> QED
      BY <2>1, <2>2, <2>4, <3>1
  <2> QED
    BY <2>3, <2>4
<1>6. \A s \in Slots(new) : s = << <<s[1][1], s[1][2]>>, s[2] >>
  BY SlotsAreWaiting
<1>7. \A s \in Slots(b) : s = << <<s[1][1], s[1][2]>>, s[2] >>
  BY SlotsAreWaiting
<1>8. \A s : s \in Slots(new) <=> s \in Slots(b) \cup {slot}
  BY <1>5, <1>6, <1>7
<1> QED
  BY <1>3, <1>8 DEF new, last

\* What the sizes must be: finite sets, counted.
Sized ==
  /\ SizeExact
  /\ IsFiniteSet(Slots(buffer)) /\ IsFiniteSet(Groups(buffer))

LEMMA NothingSized ==
  /\ Slots(NoTokens) = {} /\ Groups(NoTokens) = {} /\ DOMAIN NoTokens = {}
  /\ \A w : SlotsOf(NoTokens, w) = {}
<1>1. DOMAIN NoTokens = {}
  BY DEF NoTokens
<1>2. Groups(NoTokens) = {}
  BY <1>1 DEF Groups
<1> QED
  BY <1>1, <1>2 DEF Slots, SlotsOf

LEMMA EmptiedSized ==
  ASSUME buffer' = NoTokens, currentSizeInBytes' = 0
  PROVE  Sized'
<1>1. /\ Slots(buffer') = {} /\ Groups(buffer') = {} /\ DOMAIN buffer' = {}
  BY NothingSized
<1>2. IsFiniteSet({}) /\ Cardinality({}) = 0
  BY FS_EmptySet
<1>3. SizeExact'
  BY <1>1, <1>2, BufferAssumption DEF SizeExact, InfoSize, IdSize
<1> QED
  BY <1>1, <1>2, <1>3 DEF Sized

\* One token more: one slot more, and one group if it had none.
LEMMA CountsBuffered ==
  ASSUME NEW b, IsBuffer(b), NEW w \in Words, NEW id \in 1 .. MaxId, NEW info \in Info,
         IsFiniteSet(Slots(b)), IsFiniteSet(Groups(b)),
         \A v \in DOMAIN b : b[v].posMapSize = Cardinality(SlotsOf(b, v))
  PROVE  LET new == Buffered(b, w, id, info)
         IN  /\ IsFiniteSet(Slots(new)) /\ IsFiniteSet(Groups(new))
             /\ Cardinality(Slots(b)) \in Nat /\ Cardinality(Groups(b)) \in Nat
             /\ Cardinality(Slots(new)) = Cardinality(Slots(b)) + 1
             /\ Cardinality(Groups(new)) =
                  Cardinality(Groups(b)) + (IF <<w, id>> \in Groups(b) THEN 0 ELSE 1)
             /\ \A v \in DOMAIN new : new[v].posMapSize = Cardinality(SlotsOf(new, v))
<1> DEFINE new  == Buffered(b, w, id, info)
           slot == << <<w, id>>, Len(Waiting(b, w, id)) + 1 >>
<1>1. Waiting(b, w, id) \in Seq(Info)
  <2>1. << >> \in Seq(Info)
    OBVIOUS
  <2>2. w \in DOMAIN b => IsPosMap(b[w].filePositions)
    BY DEF IsBuffer
  <2> QED
    BY <2>1, <2>2 DEF Waiting, At, IsPosMap
<1>2. Slots(new) = Slots(b) \cup {slot} /\ slot \notin Slots(b)
  BY <1>1, SlotsBuffered
<1>3. Groups(new) = Groups(b) \cup {<<w, id>>}
  BY GroupsBuffered
<1>4. DOMAIN new = DOMAIN b \cup {w}
  BY DEF Buffered
<1>5. \A v \in DOMAIN b : v # w => new[v] = b[v]
  BY DEF Buffered
<1>6. new[w].posMapSize = IF w \in DOMAIN b THEN b[w].posMapSize + 1 ELSE 1
  BY DEF Buffered, AddPosition, BigToken
<1>7. slot[1][1] = w
  OBVIOUS
<1>8. w \notin DOMAIN b => SlotsOf(b, w) = {}
  <2>1. SUFFICES ASSUME w \notin DOMAIN b, NEW s \in Slots(b), s[1][1] = w PROVE FALSE
    BY DEF SlotsOf
  <2>2. s = << <<w, s[1][2]>>, s[2] >>
    BY <2>1, SlotsAreWaiting
  <2>3. s[2] \in DOMAIN Waiting(b, w, s[1][2])
    BY <2>1, <2>2, SlotsAreWaiting
  <2>4. Waiting(b, w, s[1][2]) = << >> /\ DOMAIN << >> = {}
    BY <2>1 DEF Waiting
  <2> QED
    BY <2>3, <2>4
<1> HIDE DEF new, slot
<1>9. /\ IsFiniteSet(Slots(new)) /\ Cardinality(Slots(b)) \in Nat
      /\ Cardinality(Slots(new)) = Cardinality(Slots(b)) + 1
  BY <1>2, FS_AddElement, FS_CardinalityType
<1>10. /\ IsFiniteSet(Groups(new)) /\ Cardinality(Groups(b)) \in Nat
       /\ Cardinality(Groups(new)) =
            Cardinality(Groups(b)) + (IF <<w, id>> \in Groups(b) THEN 0 ELSE 1)
  <2>1. IsFiniteSet(Groups(new)) /\ Cardinality(Groups(b)) \in Nat
    <3>1. IsFiniteSet(Groups(b) \cup {<<w, id>>})
      BY FS_AddElement, Zenon
    <3> QED
      BY <1>3, <3>1, FS_CardinalityType
  <2>2. CASE <<w, id>> \in Groups(b)
    <3>1. Groups(new) = Groups(b)
      BY <1>3, <2>2
    <3> QED
      BY <2>1, <2>2, <3>1
  <2>3. CASE <<w, id>> \notin Groups(b)
    <3>1. Cardinality(Groups(new)) = Cardinality(Groups(b)) + 1
      BY <1>3, <2>3, FS_AddElement
    <3> QED
      BY <2>1, <2>3, <3>1
  <2> QED
    BY <2>2, <2>3
<1>11. ASSUME NEW v \in DOMAIN new PROVE new[v].posMapSize = Cardinality(SlotsOf(new, v))
  <2>1. CASE v # w
    <3>1. SlotsOf(new, v) = SlotsOf(b, v)
      BY <1>2, <1>7, <2>1 DEF SlotsOf
    <3> QED
      BY <1>4, <1>5, <2>1, <3>1
  <2>2. CASE v = w
    <3>1. SlotsOf(new, w) = SlotsOf(b, w) \cup {slot} /\ slot \notin SlotsOf(b, w)
      BY <1>2, <1>7 DEF SlotsOf
    <3>2. IsFiniteSet(SlotsOf(b, w))
      <4>1. SlotsOf(b, w) \in SUBSET Slots(b)
        BY DEF SlotsOf
      <4> QED
        BY <4>1, FS_Subset
    <3>3. Cardinality(SlotsOf(new, w)) = Cardinality(SlotsOf(b, w)) + 1
      BY <3>1, <3>2, FS_AddElement
    <3>4. CASE w \in DOMAIN b
      BY <1>6, <2>2, <3>3, <3>4
    <3>5. CASE w \notin DOMAIN b
      <4>1. Cardinality(SlotsOf(b, w)) = 0
        BY <1>8, <3>5, FS_EmptySet
      <4> QED
        BY <1>6, <2>2, <3>3, <3>5, <4>1
    <3> QED
      BY <3>4, <3>5
  <2> QED
    BY <2>1, <2>2
<1> QED
  BY <1>9, <1>10, <1>11 DEF new

\* addToken: into the buffer as it is, or into an empty one.
LEMMA AddTokenSized ==
  ASSUME IInv, TInv, Sized, AddToken
  PROVE  Sized'
<1> DEFINE w    == Head(job.rest)
           id   == job.id
           info == <<job.text, Len(job.rest)>>
           full == Overflows(buffer, currentSizeInBytes, w, id)
           kept == IF full THEN NoTokens ELSE buffer
           size == IF full THEN 0 ELSE currentSizeInBytes
<1>1. /\ job.rest # << >> /\ buffer' = Buffered(kept, w, id, info)
      /\ currentSizeInBytes' = size + Growth(kept, w, id)
  BY DEF AddToken
<1>2. w \in Words /\ id \in 1 .. MaxId /\ info \in Info
  <2>1. job.rest \in Seq(Words) /\ w \in Words /\ Len(job.rest) \in Nat
    BY <1>1 DEF TInv, TypeOK
  <2>2. id \in 1 .. MaxId /\ job.text \in 1 .. texts /\ texts \in 0 .. MaxTexts
    BY <1>1 DEF TInv, TypeOK, Numbered
  <2> QED
    BY <2>1, <2>2, EngineAssumption DEF Info
<1>3. /\ IsBuffer(kept) /\ IsFiniteSet(Slots(kept)) /\ IsFiniteSet(Groups(kept))
      /\ \A v \in DOMAIN kept : kept[v].posMapSize = Cardinality(SlotsOf(kept, v))
      /\ size = Cardinality(Slots(kept)) * InfoSize + Cardinality(Groups(kept)) * IdSize
      /\ size = 0 \/ ~full
  <2>1. CASE full
    <3>1. Slots(kept) = {} /\ Groups(kept) = {} /\ DOMAIN kept = {} /\ IsBuffer(kept)
      BY <2>1, NothingSized, NoTokensTypes
    <3>2. size = 0 /\ IsFiniteSet({}) /\ Cardinality({}) = 0
      BY <2>1, FS_EmptySet
    <3> HIDE DEF kept, size, full
    <3> QED
      BY <3>1, <3>2 DEF InfoSize, IdSize
  <2>2. CASE ~full
    BY <2>2 DEF Sized, SizeExact, TInv, TypeOK
  <2> QED
    BY <2>1, <2>2
<1>4. /\ ~full => size + Growth(kept, w, id) <= MaxBuffer
      /\ full => size + Growth(kept, w, id) = IdSize + InfoSize
  <2>1. CASE full
    <3>1. DOMAIN kept = {} /\ size = 0
      BY <2>1, NothingSized
    <3> HIDE DEF kept, size
    <3> QED
      BY <2>1, <3>1 DEF Growth, IdSize, InfoSize
  <2>2. CASE ~full
    <3>1. kept = buffer /\ size = currentSizeInBytes /\ currentSizeInBytes \in Nat
      BY <2>2 DEF TInv, TypeOK
    <3>2. ~ (currentSizeInBytes + Growth(buffer, w, id) > MaxBuffer)
      BY <2>2 DEF Overflows
    <3>3. Growth(buffer, w, id) \in Nat
      BY DEF Growth, IdSize, InfoSize
    <3> HIDE DEF kept, size, full
    <3> QED
      BY <2>2, <3>1, <3>2, <3>3, BufferAssumption
  <2> QED
    BY <2>1, <2>2
<1> HIDE DEF kept, size, full, w, id, info
<1>5. /\ IsFiniteSet(Slots(buffer')) /\ IsFiniteSet(Groups(buffer'))
      /\ Cardinality(Slots(kept)) \in Nat /\ Cardinality(Groups(kept)) \in Nat
      /\ Cardinality(Slots(buffer')) = Cardinality(Slots(kept)) + 1
      /\ Cardinality(Groups(buffer')) =
           Cardinality(Groups(kept)) + (IF <<w, id>> \in Groups(kept) THEN 0 ELSE 1)
      /\ \A v \in DOMAIN buffer' : buffer'[v].posMapSize = Cardinality(SlotsOf(buffer', v))
  BY <1>1, <1>2, <1>3, CountsBuffered
<1>6. Growth(kept, w, id) = InfoSize + (IF <<w, id>> \in Groups(kept) THEN 0 ELSE IdSize)
  BY GroupsAreKeys DEF Growth, InfoSize, IdSize
<1>7. currentSizeInBytes' =
        Cardinality(Slots(buffer')) * InfoSize + Cardinality(Groups(buffer')) * IdSize
  <2> DEFINE had == <<w, id>> \in Groups(kept)
             s   == Cardinality(Slots(kept))
             g   == Cardinality(Groups(kept))
  <2>1. s \in Nat /\ g \in Nat /\ Cardinality(Slots(buffer')) = s + 1
    BY <1>5
  <2>2. /\ had => Cardinality(Groups(buffer')) = g /\ Growth(kept, w, id) = 2
        /\ ~had => Cardinality(Groups(buffer')) = g + 1 /\ Growth(kept, w, id) = 3
    BY <1>5, <1>6, <2>1 DEF InfoSize, IdSize
  <2>3. size = s * 2 + g * 1 /\ currentSizeInBytes' = size + Growth(kept, w, id)
    BY <1>1, <1>3 DEF InfoSize, IdSize
  <2> HIDE DEF had, s, g
  <2> QED
    BY <2>1, <2>2, <2>3 DEF InfoSize, IdSize
<1>8. currentSizeInBytes' <= MaxBuffer \/ currentSizeInBytes' = IdSize + InfoSize
  BY <1>1, <1>4
<1> QED
  BY <1>5, <1>7, <1>8 DEF Sized, SizeExact

LEMMA NextSized == IInv /\ TInv /\ Sized /\ [Next]_vars => Sized'
<1> SUFFICES ASSUME IInv, TInv, Sized, [Next]_vars PROVE Sized'
  OBVIOUS
<1>1. CASE AddToken
  BY <1>1, AddTokenSized
<1>2. CASE SaveTo \/ ProcessEnds
  BY <1>2, EmptiedSized DEF SaveTo, ProcessEnds
<1>3. CASE UNCHANGED <<buffer, currentSizeInBytes>>
  BY <1>3 DEF Sized, SizeExact
<1>4. [Next]_vars => AddToken \/ SaveTo \/ ProcessEnds \/ UNCHANGED <<buffer, currentSizeInBytes>>
  BY DEF Next, vars, process, Construct, ConstructThrows, Proceed, SaveIndex, SaveTexts, Destroyed,
         ProceedThrows, Flush, Destroy, LookUp
<1> QED
  BY <1>1, <1>2, <1>3, <1>4

\* Indexer::addToken: the running size is what the buffer holds, and within the limit unless
\* a single position exceeds it; every word counts its positions.
THEOREM SizeStaysExact == Spec => []SizeExact
<1>1. Init => TInv /\ Sized
  <2> SUFFICES ASSUME Init PROVE Sized
    BY InitTInv
  <2>1. Slots(buffer) = {} /\ Groups(buffer) = {} /\ DOMAIN buffer = {} /\ currentSizeInBytes = 0
    BY NothingSized DEF Init
  <2>2. IsFiniteSet({}) /\ Cardinality({}) = 0
    BY FS_EmptySet
  <2> QED
    BY <2>1, <2>2, BufferAssumption DEF Sized, SizeExact, InfoSize, IdSize
<1>2. IInv /\ TInv /\ Sized /\ [Next]_vars => TInv' /\ Sized'
  BY NextTInv, NextSized
<1>3. Sized => SizeExact
  BY DEF Sized
<1> QED
  BY <1>1, <1>2, <1>3, Invariance, PTL DEF Spec

=============================================================================
