# Formal models of lib_affir

lib_affir is a C++ library for full-text search: texts are stored, cut into
tokens, indexed, and searched for words and phrases. This directory holds TLA+
models of it, TLC configurations that check them on small instances, and proofs
checked by TLAPS. Every definition is translated from the C++ sources (paths
below are relative to `affir/`).

## 1. The system

```
             Engine ── proceed ──► FileStorage          file_storage_raw, ..._metadata.bin
               │  └─ returnResultInContext ─► FileStorage
               ├─ DataHandler ── Tokenizer ── filters, stemmers
               │        └────── Indexer ── createIndex ─► IIndexStorage
               │                                            ├ SingleIndexStorage      index_files/index_storage*.bin
               └─ Search ────── Tokenizer                   └ MultiFileIndexStorage   index_files/index_N.json, metadata
                        └────── Indexer ── getRawIndex ──►
```

The library is used from one thread; it has no locks. What makes it hard is not
interleaving of threads but state that outlives the objects that use it: static
maps shared by all objects of a process, buffers of several streams on one file,
metadata that reaches the disk only when a save is called, and a process that
may end between any two of these steps.

| Component | State | Operations | Interacts with | What is hard | What makes it correct |
|---|---|---|---|---|---|
| `SingleIndexStorage` | static `indexMap`, `freeBlockPoses`, `currentBlockPos`; a stream with buffer and failbit; two files | `createIndex`, `getRawIndex`, `saveStorageMeta`, `loadStorageMeta`, `close` | called by both `Indexer`s | blocks freed before they are copied, reuse of saved blocks, sticky failbit, 32-bit addresses | blocks partition the file; every token reads back its rows; a crash damages only tokens that can be named; `createIndex` returns |
| `IIndexStorage` | – | the same, abstract | – | – | the promise both storages make to `Indexer` and `Search` |
| `FileStorage` | static `dataMap`, `g_cursor`, `instancesNumber`; per object a stream, a position | two constructors, destructor, `write`, two `read`s, `isEnd`, save, load | `Engine`, callers directly | several objects on one file, ids after unknown ids and restarts, saves before loads, end of text | texts keep their bytes, ids are unique, a reader gets its text and its loop ends |
| `MultiFileIndexStorage` | `metadata`, `fileCounter` per object, static flag; numbered files and a file of lines | as above | as above | flag static but map not; truncate-then-append of the metadata; lines that look like others | no file in use is written again; every token reads back its batches; a crash damages only tokens that can be named |
| `Indexer`, `BigToken` | buffer of grouped positions, its size | `addToken`, `saveTo`, `getTokenInfo` | storage | flush at the limit, size accounting | no position lost or doubled; the size is the size; buffer within its limit |
| `DataHandler` | a tokenizer and an indexer | `processText`, `flush` | both | exceptions in the middle of a text; order of rows and metadata | what is flushed is found |
| `Engine` | one instance at a time, a readable `FileStorage` | `proceed`, `find`, `flush`, `openFS`, `read`, `returnResultInContext` | all | order of saves, exceptions, reused buffers | ids in the index name the text that was indexed; after a flush a restart finds what was there |
| `Search` | – | `search`, `getPhrasePositions` | `Indexer`, `Tokenizer` | greedy matching, unsigned distances | finds the phrase exactly where it is |
| `Tokenizer`, filters | text, cursor, positions, prepared token | `tokenize`, `hasNext`, `next` | filters | tokens that filters empty, exceptions, chunk boundaries | every token once, at its position; no byte skipped |
| Stemmers | the token being cut, regions of a word | `process` | `Tokenizer` as filters, `StemFilter` | short stems, regions of a word that has changed since | a word stays a word; only endings are cut, and only behind the region |
| `Logger` | – | output | quill | – | not modelled: pure output |

`PROJECT.json` lists, under "hazards", what can go wrong in each of them, at its line.

## 2. Modules

| Module | Models | Lines it stands for |
|---|---|---|
| `StreamFile` | a file and the buffer of an `std::fstream`: what is read back, what a write puts where | the library's use of fstream in the storages |
| `BlockAllocator` | block arithmetic: mask for a size, address of a block, free runs | `singleIndexStorage.cpp` 116-193 |
| `SingleIndexStorage` | the single-file storage as a state machine | `singleIndexStorage.cpp` |
| `MultiFileIndexStorage` | the multi-file storage as a state machine | `multiFileIndexStorage.cpp` |
| `IndexStorage` | what an index storage promises; both storages implement it | `iIndexStorage.h` |
| `FileStorage` | the text storage as a state machine | `fileStorage.cpp`, `fileStorage.h` |
| `Indexer` | the buffer of positions: operators on it and on the index | `indexer.cpp`, `bigToken.cpp` |
| `Engine` | engine, data handler, indexer and both storages composed | `engine.cpp`, `dataHandler.cpp` |
| `Tokenizer` | tokenizer and filters: the loop `hasNext`/`next` | `tokenizer.cpp`, `filters/` |
| `Search` | two tokenizers, an index, phrase search, results in context | `search.cpp`, `engine.cpp` |
| `Context` | the window around a result and how it is trimmed | `engine.cpp` 97-134 |
| `Words` | words as sequences of letters, their endings as strings | – |
| `EnglishStemmer`, `RussianPorterStemmer` | the steps of the stemmers as operators on words | `englishStemmer.cpp`, `russianPorterStemmer.cpp` |
| `StemFilter` | both stemmers as filters that change a token step by step | `process` of the three classes |
| `MC...` | instances for TLC, one for each state machine | – |
| `StreamFileProofs` | lemmas about cells read from and written to a file | – |
| `SingleIndexStorageProofs` | theorems: block arithmetic, types, blocks; calls; contents and refinement | – |
| `TokenizerProofs` | the invariant of one tokenizer, action by action | – |
| `SearchProofs` | theorems about both tokenizers, phrases and contexts | – |
| `MultiFileIndexStorageProofs`, `FileStorageProofs`, `EngineProofs`, `StemFilterProofs` | theorems about the module each is named after | – |

### SingleIndexStorage

`indexMap`, `freeBlockPoses` and `currentBlockPos` are the static members of that
name. `proc` says whether a process and an object with an open stream exist,
`failed` is the failbit of `indexStream`, which no call clears but the end of the object, `work` is where `createIndex` stands:
the rest of the batch, the token in hand, the block it is leaving and how many
rows have been copied. `disk`, `tail` and `meta` are the index file, what is in
the stream's buffer, and the metadata file.

| Action | Code |
|---|---|
| `Construct` | constructor, `loadStorageMeta`, `open` |
| `CreateIndex`, `KeepBlock`/`MoveBlock`/`NewBlock`, `CopyChunk`, `AppendRows` | `createIndex` and the calls it makes; one action per phase, because the process may end between any two; the tokens of a batch come in any order (unordered_map) |
| `GetRawIndex` | `getRawIndex`, with the entry that `indexMap[body]` creates, the flush of the buffer by `seekg`, and the failbit |
| `SaveStorageMeta`, `Close` | the methods of that name; `Close` also stands for the destructor |
| `ProcessEnds` | the process ends at any point; of the buffer any first part has reached the file |

The variables `expected`, `savedExpected`, `lost` and `ends` only observe.
What a token has is asked in two ways: `Stored` are the rows its block holds in the file,
`View` is what `getRawIndex` returns. They differ once `failed` is set: every read then
assigns nothing, and `View` of a token with rows is `NoToken`, which stands for whatever the
uninitialised rows hold.
`lost` is computed from what happened, never from comparing contents: a token
enters it when the process ends without closing while the token's saved block has
been given up since the save (`Released`) or its saved rows are still buffered
(`SavedIn`), or when it is indexed through a stream that has failed.

### FileStorage

`instancesNumber`, `g_cursor`, `dataMap`, `isStorageLoaded` are the static
members; `handles` holds the live objects with their `DataStruct`, stream
position, failbit, buffer and `currentPosition`. A process is not a variable of
its own: one that has just started has nothing loaded and no object. The actions
are `Create` and `Open` (the constructors), `CreateThrows` and `OpenThrows` (the same when the
file cannot be opened), `Destroy`, `Write`, `ReadPart`
(positioned `read`), `ReadNext` (sequential `read` in the documented loop
`while (!isEnd())`), `SaveStorageMeta`, `ProcessEnds`. `files`, `savedFiles`,
`lost`, `ends` and the last five fields of an object observe.

What both forms of the writing constructor do before `open()` is `Enter`: the instance is
counted and the text is in the map at the cursor. Only `Create` moves the cursor, as the code does
in its last line; after `CreateThrows` the entry stays for room that was never taken, and
the next text lies in that room. `files[u].made` says which of the two it was.

Preconditions on callers, from how `Engine` uses the class: an object made for
writing is only written to, one made for reading is only read; no more is written
than was announced; an id is asked for only if it was given out, except for those
in `StrayIds`.

### MultiFileIndexStorage

`metadata` and `fileCounter` belong to the object, `isMetadataLoaded` is static;
`index` is the numbered files, `meta` the lines of `metadata.idx`. The actions
are `Construct`, `CreateIndex` and `WriteToken` (the file is opened, then the tokens of
the batch are written in any order), `CreateIndexFails` (the file cannot be
opened), `TruncateMeta` and `AppendMeta` (the two halves of `saveStorageMeta`),
`SaveNothing` (a metadata file without a counter line), `Destroy`, `ProcessEnds`. A
token is of one of three kinds: an ordinary one, one whose line begins like the
line of the counter (`:`), and one with white space in it, whose line the loader
cannot split.

### Indexer and Engine

`Indexer` holds the buffer's operators: growth of a token, overflow, merging of
positions. `Engine` is the composition: the call in progress (`job`: the text, the
tokens still to come, the steps after them), the buffer, the index and what is saved of it, the
text storage's map and what is saved of it.

| Action | Code |
|---|---|
| `Construct`, `ConstructThrows` | constructor; it counts the engine before its parts are made, so after one that throws no engine can be made |
| `Proceed` | `proceed`: the text gets its id and place; with a name or path a flush follows, with a `FileStorage` none does |
| `AddToken`, `ProceedThrows` | the loop of `processText`; a filter throws |
| `Flush`, `Destroy` with `SaveTo`, `SaveIndex`, `SaveTexts`, `Destroyed` | `flush` and the destructor, step by step |
| `LookUp` | `openFS`, `getFilename`, `getFilesize`, `returnResultInContext` with any id up to `MaxId`, also one that was never given out: the entry it then gets |
| `ProcessEnds` | the process ends between any two steps |

Both storages are taken at their word here: the index storage keeps what
`IndexStorage` promises with nothing at risk, and the text storage is its map. What they
do wrong by themselves is the subject of their own modules; what goes wrong
between them is the subject of this one. `expected` is what should be found, `exposed`
the texts whose positions are saved and whose id is not, `orphans` the texts whose id
does not lead to them any more; `strayed` says that an id was asked for which the text storage
did not have.

### Tokenizer, Search, Context

The data handler and the search each have a tokenizer, two instances of `Tokenizer`.
A text is a sequence of symbols, one for each byte: letters, the two bytes of a
Cyrillic letter, blank, brackets and slash of a tag, punctuation. Positions count bytes, or
letters, as the mode says; in a tag the code counts bytes in both modes, and so does
`Advance`. The loop is
`HasNext` (skips blanks), `PrepareNext` (one piece, through the filters),
`FilterThrows`, `ScanEnds` (the text is over), `Next`. `Search` gives chunks to one
tokenizer (`ProcessText`, `ProcessStep`, `AddToken`), queries to the other (`Find`,
`FindRejected`, `QueryStep`, `QueryThrows`), looks the phrase up (`Return`), and
shows the result in context, one file after the other (`ShowContext`).

### Stemmers

Words are sequences of letters of one alphabet (Russian letters in
transliteration, one symbol each); suffixes and endings are strings, spelled where they
are compared with a word. The English stemmer's words are in lower case but for `Y`, which it uses
itself, and pass unchanged if they begin with no letter. The steps are operators; `StemFilter` runs them one by one, because
what a step has done to the token stays when a later one throws, and
because `RussianPorterStemmer` carries its regions from word to shorter word.

### IndexStorage and the refinement

`IndexStorage` has four variables: the list of postings that is kept for each token, the
answer a lookup of it gives, what is saved of it, and the tokens the end of the process would
damage now. Its steps: a list grows at the end (`Index`), lists are saved (`Save`), a restart
goes back to what was saved and may damage tokens at risk, no others (`Restart`), and
damage spreads only from damage (`Spoil`). The object may fail over a damaged list, and over no
other (`Fail`): from then on every answer is garbage, though the lists are there, and after
`Close` the answers are the lists again. Tokens of `Frail` may stay at risk over a save,
and those of `Exposed` may come to be at risk without being indexed (`Expose`). The single-file
storage has none of either; for the multi-file storage they are the tokens its
loader cannot read back, and all tokens: while it saves, and when a second object
is about to replace the first. The property
`KeepsPromise` of both storages is this specification under the mapping given there. In
the single-file storage `postings` is read out of the cells of file and buffer (`Stored`) and
`answers` goes through the stream as it is (`View`), so moving a
block, copying chunk by chunk and appending must be invisible but for the growth
of one list, and answers must be right as long as no damaged token was read. The multi-file
storage opens its files anew for each lookup, and so its answers are its lists.

## 3. Abstractions

* A row (file id, position, word position; 24 bytes) is one cell of the index
  file and a distinct value; sizes are in rows. A byte of a text is a distinct value.
* A mask is represented by mask^3, its number of base blocks, the only thing the
  code computes from it.
* 32-bit sizes and addresses of the index are taken modulo `Span` rows. 2^32 bytes
  are not a whole number of rows, so the wrap is modelled in kind, not to the byte.
  `currentBlockPos` is not wrapped.
* `markBlockAvailable` dereferences `end()` of a `std::map`. The outcome is the one
  of libstdc++, where `end()->second` reads the upper half of the element count, 0.
* A read or write of a stream is one step. A buffer reaches the file from the
  front; nothing else about its size is assumed. For `CopyChunk` and `AppendRows`
  the `seekp` first writes out what was buffered before.
* Saving metadata is one step in `SingleIndexStorage`, `FileStorage` and `Engine`: a
  process that ends inside the rewrite of a metadata file is not modelled there (the
  loader would then use uninitialised sizes). In `MultiFileIndexStorage` it is two
  steps, the truncation and the append, and the append may be cut short.
* Rows that a failed stream returns are uninitialised; `NoToken` stands for any of them. The
  failbit stays until the object is closed, for every token.
* The constructors of `FileStorage` open their file twice: first to create it, and throw when that
  fails, which is modelled; then to use it, and do not look whether it worked
  (`fileStorage.cpp` 47), which is taken to work when the first has.
* A line of an index file is one cell, and its offset its number. The JSON text is
  left out, as is what an offset finds inside a file that was written again: after that,
  a token is `lost`.
* Sizes in `Indexer` are in units of a file id (8 bytes), a position takes two.
* In `Engine` a text is the sequence of its words, the position of a token is how
  many words are left, which tells the tokens of a text apart.
* The HTML filter's regular expression is modelled by where its match ends; a letter
  of the Cyrillic alphabet is one pair of bytes, `"D"` and `"T"`, which may also come alone.
  That the English stemmer throws on some bodies is a constant of `Tokenizer`
  (`Unstemmable`); which they are is a matter of `StemFilter` (`threw`).
* The letters of a Russian word are transliterated to one symbol each, so positions and
  sizes count letters where the code counts pairs of bytes.

The operators of the tokenizer and of both stemmers were compared, outside of
this project, with the compiled code on about 1 100 texts and 25 500 words, and gave
the same results.

## 4. Checks

Deadlock is checked in every run but those of `Search` and `StemFilter` (`words`,
`stems`), whose texts and words come to an end. `Symmetry` is over tokens or
objects, and is not used where a liveness property is checked.

| Run | Question | States, about |
|---|---|---|
| `single_restart` | The process may end once, at any point. Do blocks partition the file, do rows fit, is every token outside `lost` kept intact at every step, does the stream fail over lost ones only, is nothing lost without a crash? 2 tokens of up to 3 rows | 239 000 |
| `single_promise` | Does the storage implement `IndexStorage`, in what it keeps and what it answers, over a restart and a failed stream, does each step of `createIndex` bring the call nearer to its return, and does it return? 2 tokens of up to 3 rows | 223 000 |
| `file_texts` | Do texts keep entries and bytes, are regions disjoint, do readers get their text and nothing else, among other objects, constructors that throw, and over a crash and restart? | 800 000 |
| `file_loop` | Does each turn of the documented reading loop move on or throw, does nothing move it back, and does the loop end? | 29 000 |
| `multi_restart` | Is a file in use ever written again, does every token outside `lost` read back its batches, does the storage implement `IndexStorage`? 3 tokens, one of each kind, 2 files, a save cut short anywhere, a second object, one restart | 750 000 |
| `engine` | Is every position kept once, is the size of the buffer exact, does the index name the right texts, is everything saved after a flush? 3 texts of 3 words, a buffer of 2 positions, one restart, throws, lookups of any id up to 3 | 2 990 000 |
| `words` | Are pieces, tokens and positions right, are phrases found exactly where they stand, does the scan of a text never stand still, does a context begin in the file of its result and show whole words of it? some 650 inputs of up to two chunks or two files, 4 settings of filters, 7 queries | 521 000 |
| `stems` | Does a word stay a word, is nothing changed before its region, are only endings cut? about 25 000 words made of all suffixes and endings | 260 000 |

Four runs show where the code departs from what a comment or document says of it;
each checks one property and is expected to violate it.

| Run | What the code does |
|---|---|
| `single_flush` | `saveStorageMeta` saves the map and leaves rows in the buffer (`singleIndexStorage.cpp` 246-273) |
| `file_wipe` | a flush in a process that has made no `FileStorage` erases the metadata of all texts (`fileStorage.cpp` 149-177) |
| `words_chunks` | the positions of a file that is read in chunks begin again with every chunk (`tokenizer.cpp` 127) |
| `words_context` | the last word of a text is cut off the context that was to show it (`engine.cpp` 116, 125-134) |

More departures were met while modelling and have no run of their own:

* a freed block is merged with the run before it only if that is one block long
  (`singleIndexStorage.cpp` 127-137): space is lost, no data;
* block positions and row sizes are computed in 32 bits: past 4 GiB two blocks share one;
* after a lookup of an id nobody had, an id is given out twice (`fileStorage.cpp` 22,
  38): one text, `openFS(3)` and two more texts give id 3 to a text twice, in one process and
  without a crash, and the older one cannot be reached any more (`orphans` in `NamesText`);
* a writing constructor that throws leaves its entry in the map, and the next text lies where
  the entry points (`fileStorage.cpp` 24-31); `RegionsOwned` excepts such entries and nothing else;
* after one failed read `getRawIndex` returns uninitialised rows for every token until the
  object is closed (`singleIndexStorage.cpp` 84-100);
* with positions in letters, a Cyrillic letter in a tag still counts as two (`tokenizer.cpp` 72-75);
* an empty text is not at its end, so the documented loop throws (`fileStorage.cpp` 101-103);
  `instancesNumber` counts only writers and falls below zero (to 65535);
* a second `MultiFileIndexStorage` in a process loads nothing and writes over the
  files of the first (`multiFileIndexStorage.cpp` 83); a metadata file that was cut short
  has no counter, and no later save can add to it (55-66);
* `~Engine` saves the index and not the map of texts;
* after a token that the filters have emptied, the next blank is a piece of its own,
  and a token if there is no punctuation filter (`tokenizer.cpp` 51); `PiecesCover`
  allows this one case;
* in step 2 of the English stemmer `ogi` is replaced without the `l` that should
  precede it (`englishStemmer.cpp` 259);
* bytes of one file appear at the end of the context of the next if that is shorter
  than the window (`engine.cpp` 113); `ContextsTrue` says that they can only follow.

Bounds. Block sizes 1, 2, 4 base blocks of one row (`single_restart`) make a token
change its block at two and at three rows, so that with three rows a token moves twice, frees
blocks of sizes 1 and 2 and takes one of size 4; two tokens suffice for
one to move into what the other has left, overlapping its own old block. A batch
brings one row for each of its tokens (`MaxIncoming` 1): with 2 the run has 1 140 000
states, passes as well and takes five minutes; what longer batches can do is covered by
the proofs, which hold for every `MaxIncoming`. Sizes 1 and 3
(`single_promise`) also let a token grow inside its block. The
largest two masks (48 and 64 of `Span` = 64) stand for the two whose capacity
overflows: the same comparison accepts every size. `CopyRows` is 1 in
`single_restart`, so a copy takes several chunks, and 2 in `single_promise`, so the
chunk is short. One end of the process covers what a restart finds at each point; a
second one starts from a state of the same kind, and `lost` and the saved lists,
which it would meet, are part of what is compared after the first. For
`FileStorage`, two objects at a time cover writer and writer,
writer and reader, reader and reader; sizes 0 and 3 with chunks of 2 bytes
give a text of no chunk and one of several with a short last one. The
instance counter is read by no other code, so its span is 1 (`CounterSpan`), which
keeps it out of the state space.

`multi_restart` has two files: a batch before and one after a save or restart, and
two batches in a row for one token; four lines of metadata are two saves of one token
each or one of three. `engine` has one text for each of: proceeded before the crash
and saved, not saved, proceeded after it; ids up to 3 are
enough for a lookup of an unknown one to make the next two texts get the same; the buffer overflows inside a text, between texts, at a word it knows and at one it
does not. `words` has words, blanks, punctuation, closed and open tags, a tag
longer than `HtmlLimit` (5 here, 10 in the code) and one with a Cyrillic letter in it,
Cyrillic letters whole and in half, words that filters drop and one on which a
filter throws, in all orders up to three; queries of no, one and two words, a
repeated word, one too long; files shorter and longer than the window of a
context.

Fairness. `WF_vars(CreateIndexStep)`: the library starts no thread and waits for
nothing inside `createIndex`, so a call in progress runs on until it returns or
the process ends (which the model lets happen at any moment). `WF_vars(ReadNext(h))`:
a caller that is in the loop `while (!isEnd()) read(buffer)` goes on calling. Nothing
else is assumed to happen; the other modules state safety only, as what their loops do
is bounded by a text, a batch or a word.

## 5. Proofs

The first part of `SingleIndexStorageProofs` says what the block arithmetic does for every
set of masks and every map of free runs, under the assumptions of `BlockAllocator`
(`BlockAssumption`: positive sizes; `MaskAssumption`: some mask accepts every size,
which is what makes the `throw` of `getMask` dead code):

* `GetMaskFits`: `getMask` returns the least mask that accepts the size. The
  least one exists because `<` is well-founded on the naturals (`LeastNat`).
* `MarkBlockAvailableAdds`: freeing a run that is not free adds exactly its base
  blocks and keeps the runs disjoint. By cases on the two merges, using that a
  merged previous run starts at `start - 1` and so has length one (`MergedPrev`).
* `GetNewBlockTakes`: the block returned was free, or lies behind the head, and
  exactly its base blocks are taken.

The second part proves for every set of tokens and every bound

* `TypeCorrect`: `Spec => []TypeOK`;
* `BlocksStayPartitioned`: `Spec => []BlocksPartitioned`: below the head every base
  block is in one free run or in the block of one token, never in both or in two, in
  memory and in what the next process loads.

`BlocksPartitioned` is not inductive as it stands: allocation needs well-typed runs,
and the phases of `createIndex` need to know that the token in hand has a block
and that a copy in progress belongs to it. The inductive invariant is
`IInv == TypeOK /\ WorkFits /\ DownIdle /\ CopyIdle /\ BlocksPartitioned`. The proof
has one lemma per action. Those that change blocks rest on `ReleaseBlock` (freeing
a token's block keeps the partition) and `TakeBlock` (giving it a new one does),
which rest on the theorems about the allocator; those that only change sizes on
`SameBlocks`.

The third part is about the call of `createIndex` in progress:

* `CallsAdvance`: `Spec => CallAdvances`: each of its steps finishes a token, takes one in
  hand or copies rows of it, at least one and no more than are left (`ChunkFits`), whether or not
  they can be read; no other operation touches the call (`WorkOpen`: a batch is worked
  on by an object that is open, so nothing else is enabled that could);
* `CallsNeverStuck`: there is always a token to take, or one in hand that has a block.

The batch, the token and the rows left only shrink, so these are what `CreateIndexReturns` rests on; that
the thread takes its steps at all is the fairness of section 4.

The fourth part goes on to what is in the blocks. With the hypotheses
named below it proves

* `DamageStaysConfined`: the file keeps for a token outside `lost` its rows at every point, and
  `getRawIndex` returns them unless the stream has failed, and it fails over a token of `lost` only;
* `BlocksStayFit`: between tokens, every block is of the mask its size asks for;
* `NothingLost`: before a process has ended without closing, nothing is lost and the
  stream has not failed;
* `ImplementsPromise`: `KeepsPromise`, the refinement of `IndexStorage`, of the rows kept and of
  the answers given.

Its inductive invariant `CInv` stands on top of `IInv`. Sizes: the entry of a token is of
the size and mask of its list, in memory (`MapSized`) and on disk (`SavedSized`), and
the token in hand has a block for the rows that come (`HandSized`). Contents: rows are held at
the addresses of the block (`RowsRead`); while a token moves, what has been copied is in the new
block and the rest still in the old one (`HandReads`). Moving is where the proof is: the
old block is freed before it is copied, so the new one may overlap it, and the copy runs
forwards. It is safe because the new block starts no later than the old one or behind its
end (`CopySafe`, lemma `MovesDown`): a free run that the old block has become part of
starts at or before it, since `lower_bound` and the merge with the previous run leave no
run that starts inside. That others are untouched is `OwnersApart`: tokens that share no base
block share no row. Saves: what is saved is a prefix of what is expected, in the
same block or in a smaller one given up since (`SavedPrefix`, `SavedBehind`), which
gives `SavedRowsThere`: a token not at risk finds its saved rows after the end
of the process. The stream: it has failed only if some token is lost (`FailsOverLost`), since the rows of any
other are there to be read. TLC checked `CInv` on the instance of `single_restart` before it was proved.

The refinement has one lemma per action. `PutAtRisk` is the one that matters: rows
written to the block of one token cover saved rows of others only where these have given their
saved block up, and so were at risk already. For `saveStorageMeta` one more invariant is
needed, `TailOne`: between tokens the buffer holds rows of one block only, since every
`seekp` writes out what was there. The answers are the lists until the stream fails and
garbage from then on (`AnswersFollow`), so a step that makes it fail is `Fail`
of the token it read, which is damaged, and indexing through a failed stream is `Spoil`.

The hypotheses of these four theorems are `[]FileSmall` and `BatchesSmall`: the head stays below
half of `Span`, and so does a batch. They stand for an index file below 2 GiB, half of what
its 32-bit addresses tell apart. Without them the theorems are false: blocks whose
addresses differ by `Span` share a place, and the masks whose capacity wraps to a small
number are taken for small blocks. The runs satisfy both hypotheses (`Span` = 64 with heads
of at most some twenty rows).

`StreamFileProofs` has the lemmas about cells that all three storages use: what `Over`,
`Place`, `Slice`, `Readable` and `Before`/`From` give for each address.

`FileStorageProofs` proves for every set of objects, size of texts and of chunks, and bound

* `TypeCorrect`;
* `RegionsStayOwned`: no two texts share a byte, now and after a restart, but for a text whose
  constructor threw, which has an entry for room it never took;
* `ReadsStayOwn`: a reader of a complete text gets that text's bytes, in order, once;
* `TextsKept`: a text outside `lost` is found under its id, with all its bytes;
* `LoopsAdvance`: `Spec => LoopAdvances`: a turn of the reading loop moves on or throws, and
  no step of any object moves it back or to other bytes.

All but `TextsKept` hold whatever ids callers ask for. `TextsKept` assumes `StrayIds = {}`: after a
lookup of an id nobody had, an id can be given out twice (section 4), so
it is a theorem about callers that ask for ids they were given. The inductive
invariant: all who know where a text is - the map, the saved map, the records in
live objects - agree on one region for it, apart from all others and below the cursor, unless
its constructor threw (`OneRegionEach`, `MapsAgree`); a save is behind what is in memory (`SavesBehind`); the buffer of a
writer holds bytes of its text just before its position, and a text has one writer (`Writers`);
the bytes written so far are in the file as the streams see it (`Content`); a
reader is where its position says (`Readers`); ids are counted from one (`Named`). A
step writes into the region of one text, behind what it has, which is why everyone
else's bytes stay (`Content` in the lemma of `Write`).

`MultiFileIndexStorageProofs` proves for every set of tokens of each kind, every batch and bound

* `TypeCorrect`;
* `NumbersNotReused`: no step writes a file in use again;
* `ListsReadBack`: a token outside `lost` reads back its batches;
* `ImplementsPromise`: the refinement of `IndexStorage`.

Lists are compared twice: what the entries in memory find with `expected`
(`InMemory`), and what a loader would make of the metadata file with `savedExpected`
(`OnDisk`). Entries are in files below the counter, those on disk below the file that
is being written; a token with a line on disk has entries in memory, so that the next save
writes a newer line behind it (`Renewed`); a file without a counter line is one that
a process left inside a save, and then every token is lost (`CutShort`).

`EngineProofs` proves for every set of words and of texts, every buffer size and every
bound

* `TypeCorrect`: positions are indexed under ids that were given out and within the bound, whatever
  ids are asked for;
* `TokensKept`: `Spec => []NothingLostOrDoubled`: a position is once in the index or
  in the buffer;
* `PositionsNameTexts`: `Spec => []NamesText`: a position leads by its id to its text,
  or the text is a known orphan, and in the first process there is none until somebody asks for
  an id that the text storage does not have;
* `FlushSettles`: `Spec => []Settled`: after a flush a restart would find what is in
  memory;
* `SizeStaysExact`: `Spec => []SizeExact`: `currentSizeInBytes` is what the buffer holds.

None of the middle three is inductive. What a restart goes back to must be right already
while it is only on disk (`KeptOnDisk`, and in `ListsNamed` the saved index, against the saved
and against the current map); whether a flush settles anything depends on how far
the call has come (`Staged`) and, for the end of an engine, which saves no texts, on nothing being left
to save (`Quiet`); whether an id is free depends on the map (`MapsAgree`: no two ids
lead to one text, and what is saved is still in memory; `FirstProcess`: until a process has
ended or an unknown id was asked for, ids are the numbers of the texts). `IInv` is their conjunction, with
types (`Typed`). Each action has a lemma. The argument that matters most is in
`SaveIndexKeeps`: a position about to be saved names a text `u` through the
current map; if `u` is in the saved map under some id, that id leads to `u` in the current
map too, and as no two do, it is the id of the position. `IInv` was first checked by TLC on
the instance of the run `engine`.

The size is counted, not summed: the positions in the buffer are a finite set of slots (word,
text, place), the groups of positions one of pairs (word, text). `addToken` adds
one slot and, for a text the word was not in, one group, which is what `Growth`
says, and a flush leaves neither. A word counts its slots in `posMapSize` in the same way.

The theorems assume only the named assumptions of `Engine` and `Indexer`
(`EngineAssumption`, `BufferAssumption`): texts are sequences of words, the bounds are
naturals, and the mark of an unknown id is no number.

`SearchProofs` proves for every alphabet, every set of stop words, of settings, of texts and
of queries, and every size of a window

* `TypeCorrect`;
* `PiecesAlwaysCover`, `TokensStayInPlace`: what both tokenizers do with their texts;
* `ScansKeepAdvancing`: `Spec => ScansAdvance`: neither stands still in a text, goes back in
  it or offers a token twice, which is why `while (hasNext()) next()` ends. At the end of the text this needs
  that a token that was taken is no longer prepared (`Stands`);
* `PhrasesFound`: `Spec => []PhrasesExact`;
* `ContextsShown`: `Spec => []ContextsTrue`.

`TokenizerProofs` has the part about one tokenizer: `Inv`, which every operation keeps, whoever
calls it. Its parts: the object and its pieces are typed (`Shape`); the cursor
stands where no Cyrillic letter is split, and the position is the number of bytes before
it, or of letters in words and bytes in tags (`Stands`, with `TaggedIn` for the bytes inside the
tags so far); the pieces cover the text up to the cursor
(`Covered`); the tokens returned, with the one prepared, are those of the pieces that were kept
(`InPlace`), and are numbered in order (`Counted`). It rests on what the scan finds: `PieceEndShape`
says that a piece is a tag, a whole word or one byte; `BeforeOverPiece` that `Advance`
moves the position by what the piece is worth, as a tag or as anything else, and `TagsAppend`
that a piece changes nothing before it. What a filter makes of a body is used only as far
as that it is a body. `SearchProofs` takes the invariant for each of the two objects; as
instances of a module are different definitions to the prover, its first lemmas say that those of
`Search` and those of the proofs agree.

For phrases, the inductive invariant says how the index grows: the tokens of the chunk at hand are the last
of the index and numbered one after the other (`Recent`), tokens before them are of another file or
of a chunk that began before (`Earlier`), chunks still to come begin behind both (`Coming`).
So tokens of one chunk are as far apart in the index as in their numbers (`Apart`). That
the walk never has to go back is then an argument about two tokens: the next word at distance one is the
token that follows (`NextWordAdjacent`), so a walk that reaches the end has gone over a
phrase (`FoundIsStanding`), and over a phrase it cannot stop (`StandingIsFound`); both by the least
index where it would be otherwise. The recursive function of `GetPhrasePositions` is used
through its equation only, which the existence of a walk of each length gives (`WalkExists`).

For contexts, each one shown is `Truthful`: it is a part of its file about the word that begins and ends at a
blank or at an end of the file, so that no word in it is cut, or begins with such a part when the window goes past the end of the file and another file was shown before. The buffer is empty
before the first context and ends with the NUL it grew by ever after (`Held`), so no blank is found behind it; what
`trimContext` returns is what is between the first and the last blank of the window
(`TrimmedBetween`, `ShownIsTrue`). A context stays truthful while others are shown
(`TruthfulLater`). `IInv` was first checked by TLC on the instance of `words`.

The hypotheses of all six are those of `SearchAssumption`: `HtmlLimit` is positive (in the
code it is 10 unless the constructor is told otherwise, `tokenizer.h` 55), lower-case letters are
letters, the byte a string grows by is no blank, and a caller gives the chunks of a file in order without overlap, as `Engine::proceed` reads them.

`StemFilterProofs` proves for every set of words, of any length and any letters,

* `StemsStayWords`: `Spec => []StemsAreWords`: no word vanishes or grows, and only a stem of
  one vowel makes the English stemmer throw;
* `NothingBeforeR1`: `Spec => KeepsBeforeR1`: its steps 2 to 5 leave what is before R1;
* `OnlyEndingsCut`: `Spec => CutsEndings`: the Russian stemmer cuts only endings, behind the
  first vowel.

To the prover a string is a constant, whose letters it does not know; a word is a sequence,
of which it knows all it needs. So what is true of the suffixes and endings is stated in two
assumptions, `SuffixesAssumption` and `EndingsAssumption` (their lengths, that no
replacement is longer than its suffix, that none of step 1b ends in `e` or `i`, and so on),
which are about literals only and which TLC evaluates in the run `stems`; the only
hypothesis on constants is `StemAssumption`, that words have a letter. Which suffix is found
first is never used.

For the Russian stemmer the question is what `regions` says of a token it was not set for.
The region behind the first vowel is always that of the token (`RvFresh`): it is not
assigned only when a word has no vowel, and no step changes the first vowel (`SameVowel`).
The second region may be one of a longer word, as it is not assigned when the shorter one
has no second pair of vowel and consonant. It is used once, for `ost` and `ostq`. What saves
the word is `R2Behind`: if the region ends in one of these, so does the token. After a step
that has cut something off a region left standing cannot end in either, since of all endings
of step 1 and of `i` none but a noun's `q` is found in a region that ends in one of them
(`NoOtherEnding`, from `EndingsAssumption`), and cutting one letter behind both pairs leaves
both (`PairKept`), so that the region is assigned. The regions of `process`, which are set
before step 1 and again behind it, are in `WholeRegions`. It is this fact about the lists of
endings, and not the way the code sets its regions, that keeps the cut an ending.

For the English stemmer, each replacement puts no more behind a region than it takes from
there (`JoinKeeps`); a word has a region only where `Reaches` says so, and then of at least
two letters (`R1R2`). It throws only when one letter, a vowel, is left before `ed` or `ing`:
what step 1a has changed to `i` or `ie` ends in neither (`Step1aIs`, `Stem1bIs`), and the
letter is the word's own, as a `y` at its beginning has become a consonant (`FirstLetter`).
`IInv` was first checked by TLC on the instance of `stems`.

Every safety invariant and action property a passing run checks is so proved. Only
model-checked is liveness (`CreateIndexReturns`, `LoopEnds`), which needs a logic of fairness: what can be said of it step by step is proved in `CallsAdvance`,
`CallsNeverStuck` and `LoopsAdvance`.

## 6. Not modelled

* `Logger` and the vendored quill library: pure output. Quill is nine tenths of the
  lines of the repository, so that the definitions here, though they cover
  nearly every function of the library, stand for a small share of all lines.
* `main.cpp` and the tests are callers; they were read for how the library is used.
* The rows of Cyrillic letters in `Lowercaser` and the reading of the stop-word files.
* Reading a file of the operating system in `Engine::proceed`; a file that grows while
  it is read, and so is longer than announced.
* An index file that cannot be opened: `SingleIndexStorage::createIndexFile` only logs it
  (`singleIndexStorage.cpp` 108-114), and the object begins with a stream on which every read and
  write fails. `Construct` takes the file to open.
* The text of logs and of `toString`.
* A process that ends inside the rewrite of a metadata file, but for the multi-file
  storage: what the loader then does is undefined.

## 7. What is left

1. Row sizes past the width of the integers, with a property of its own.

## 8. Running

```
tlc -workers 2 -config single_restart.cfg MCSingleIndexStorage.tla
tlc -workers 2 -config file_texts.cfg MCFileStorage.tla
tlc -workers 2 -config multi_restart.cfg MCMultiFileIndexStorage.tla
tlc -workers 2 -config engine.cfg MCEngine.tla
tlc -workers 2 -config words.cfg MCSearch.tla
tlc -workers 2 -config stems.cfg MCStemFilter.tla
tlapm SingleIndexStorageProofs.tla
tlapm MultiFileIndexStorageProofs.tla
tlapm FileStorageProofs.tla
tlapm EngineProofs.tla
tlapm SearchProofs.tla
tlapm StemFilterProofs.tla
```
