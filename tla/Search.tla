------------------------------- MODULE Search -------------------------------
(***************************************************************************)
(* What becomes of a text between Engine::proceed and Engine::find: its    *)
(* chunks go one by one through the tokenizer of the DataHandler into the  *)
(* index; a query goes through the tokenizer of the Search, an object of   *)
(* its own with the same filters; getPhrasePositions looks the query's     *)
(* tokens up, one after the other.  A chunk is a call of tokenize, so      *)
(* positions begin again with every chunk of a file.  What was found may   *)
(* then be shown in context, file by file, through one buffer.             *)
(*                                                                         *)
(* The index is taken at its word: it returns for a body its tokens in the *)
(* order they were added; the text storage too: a file is what was written.*)
(***************************************************************************)
EXTENDS Context, FiniteSets

CONSTANTS
  Latin, LowerOf, StopWords, Unstemmable, HtmlLimit,  \* as in Tokenizer
  Settings,        \* filters and mode an engine may be made with
  Inputs,          \* bound: sequences of chunks, each a text and the id of its file
  Queries,         \* bound: texts that are searched for
  MaxQueryLength,  \* MAX_QUERY_LENGTH
  ContextSymbols   \* contextSymbols, as a caller passes it

Chunk == [text : Seq(STRING), fileId : Nat, offset : Nat]

\* A chunk begins in its file where the chunks before it have ended, or later.
ASSUME SearchAssumption ==
  /\ HtmlLimit \in Nat \ {0} /\ MaxQueryLength \in Nat /\ ContextSymbols \in Nat
  /\ \A x \in DOMAIN LowerOf : LowerOf[x] \in STRING
  /\ Queries \subseteq Seq(STRING) /\ Nul \in STRING /\ Nul # " "
  /\ \A given \in Inputs :
       /\ given \in Seq(Chunk)
       /\ \A m, n \in DOMAIN given :
            m < n /\ given[m].fileId = given[n].fileId =>
              given[m].offset + Len(given[m].text) <= given[n].offset

VARIABLES
  dtk, dpc, dout, dpieces,   \* DataHandler's tokenizer
  qtk, qpc, qout, qpieces,   \* Search's tokenizer
  index,                     \* the tokens added
  stage,                     \* "idle", "query" in a search, "found" it has returned, "rejected"
  posMap,                    \* what it returned: places in the index
  chunks,                    \* texts a caller has still to proceed
  contents,                  \* text storage: id -> the text written so far
  buffer, shown,             \* of returnResultInContext: its buffer; id -> context
  offset, origin             \* observer: where in its file the chunk at hand begins, and
                             \* the chunk of each token did

data  == <<dtk, dpc, dout, dpieces>>
query == <<qtk, qpc, qout, qpieces>>
shows == <<buffer, shown>>
vars  == <<data, query, index, stage, posMap, chunks, contents, shows, offset, origin>>

Data  == INSTANCE Tokenizer WITH tk <- dtk, pc <- dpc, out <- dout, pieces <- dpieces
Query == INSTANCE Tokenizer WITH tk <- qtk, pc <- qpc, out <- qout, pieces <- qpieces

-----------------------------------------------------------------------------
\* Where the tokens of a body are in the index, and those of them in one file.
Of(body)         == {k \in DOMAIN index : index[k].body = body}
InFile(body, id) == {k \in Of(body) : index[k].fileId = id}

\* The first token of a body in the file that comes right after token k, or none; and
\* one that takes any later token.
Later(k, body) ==
  {n \in InFile(body, index[k].fileId) : index[n].wordPos > index[k].wordPos}
Adjacent(k, body) ==
  {n \in InFile(body, index[k].fileId) : index[n].wordPos - index[k].wordPos = 1}

\* getPhrasePositions: from each token of the first body, greedily from word to word.
\* The function yields the last token reached, 0 when there was none.
GetPhrasePositions(bodies) ==
  LET Reaches(k) ==
        LET at[j \in 1 .. Len(bodies)] ==
              IF j = 1 THEN k
              ELSE IF at[j - 1] = 0 \/ Adjacent(at[j - 1], bodies[j]) = {} THEN 0
              ELSE First(Adjacent(at[j - 1], bodies[j]))
        IN  at[Len(bodies)]
  IN  {k \in Of(bodies[1]) : Reaches(k) # 0}

\* Files with a result, those already shown in context, and the first result of one.
Files       == {index[k].fileId : k \in posMap}
IsFree      == dpc = "rest" /\ stage # "query" /\ DOMAIN shown \in {{}, Files}
FirstIn(id) == First({k \in posMap : index[k].fileId = id})
NoTexts     == [id \in {} |-> << >>]

-----------------------------------------------------------------------------
Init ==
  /\ \E s \in Settings : Data!Constructed(s.filters, s.mode) /\ Query!Constructed(s.filters, s.mode)
  /\ index = << >> /\ stage = "idle" /\ posMap = {}
  /\ chunks \in Inputs /\ offset = 0 /\ origin = << >>
  /\ contents = NoTexts /\ buffer = << >> /\ shown = NoTexts

\* Engine::proceed: one chunk to the text storage and to DataHandler::processText.  (A caller that gives the
\* chunks itself may go on after a filter has thrown.)
ProcessText ==
  LET id      == Head(chunks).fileId
      written == IF id \in DOMAIN contents THEN contents[id] ELSE << >>
  IN  /\ IsFree /\ chunks # << >>
      /\ Data!Tokenize(Head(chunks).text, id)
      /\ contents' = [i \in DOMAIN contents \cup {id} |->
                        IF i = id THEN written \o Head(chunks).text ELSE contents[i]]
      /\ chunks' = Tail(chunks)
      /\ offset' = Head(chunks).offset
      /\ stage' = "idle" /\ posMap' = {} /\ buffer' = << >> /\ shown' = NoTexts
      /\ UNCHANGED <<query, index, origin>>

\* Its loop: hasNext, and addToken of what next returns.
ProcessStep ==
  /\ Data!HasNext \/ Data!PrepareNext \/ Data!FilterThrows \/ Data!ScanEnds
  /\ UNCHANGED <<query, index, stage, posMap, chunks, contents, shows, offset, origin>>
AddToken ==
  /\ Data!Next
  /\ index' = Append(index, dtk.preparedToken)
  /\ origin' = Append(origin, offset)
  /\ UNCHANGED <<query, stage, posMap, chunks, contents, shows, offset>>

\* Engine::find, Search::search: between calls of proceed.
Find(text) ==
  /\ IsFree /\ text # << >> /\ Len(text) <= MaxQueryLength
  /\ Query!Tokenize(text, 0)
  /\ stage' = "query" /\ posMap' = {} /\ buffer' = << >> /\ shown' = NoTexts
  /\ UNCHANGED <<data, index, chunks, contents, offset, origin>>

\* validateQuery throws.
FindRejected(text) ==
  /\ IsFree /\ (text = << >> \/ Len(text) > MaxQueryLength)
  /\ stage' = "rejected" /\ posMap' = {} /\ buffer' = << >> /\ shown' = NoTexts
  /\ UNCHANGED <<data, query, index, chunks, contents, offset, origin>>

QueryStep ==
  /\ Query!HasNext \/ Query!PrepareNext \/ Query!ScanEnds \/ Query!Next
  /\ UNCHANGED <<data, index, stage, posMap, chunks, contents, shows, offset, origin>>
QueryThrows ==
  /\ Query!FilterThrows
  /\ stage' = "rejected"
  /\ UNCHANGED <<data, index, posMap, chunks, contents, shows, offset, origin>>

\* The query is tokenized; one without tokens finds nothing.
Bodies == [k \in DOMAIN qout |-> qout[k].body]
Return ==
  /\ stage = "query" /\ qpc = "rest"
  /\ posMap' = IF qout = << >> THEN {} ELSE GetPhrasePositions(Bodies)
  /\ stage' = "found"
  /\ UNCHANGED <<data, query, index, chunks, contents, shows, offset, origin>>

\* returnResultInContext: the window of the next file, around its first result, twice as
\* wide when the first word of the query is Russian; the files come in any order
\* (unordered_map).  A blank is put before the beginning of a text.  It is called when
\* all texts have been given.
IsRussian(word) ==
  /\ \E k \in DOMAIN word : Data!IsCyrillic(word, k)
  /\ \A k \in DOMAIN word : word[k] \notin Latin
Symbols == (IF ContextSymbols = 0 THEN 1 ELSE ContextSymbols) * (IF IsRussian(Bodies[1]) THEN 2 ELSE 1)
WindowStart(id) == ContextStart(index[FirstIn(id)].pos, Symbols)
WindowSize      == ContextSize(Symbols, Len(qtk.text))

ShowContext(id) ==
  LET start == WindowStart(id)
      read  == Read(buffer, WindowSize, contents[id], start)
  IN  /\ stage = "found" /\ chunks = << >> /\ id \in Files \ DOMAIN shown
      /\ start < Len(contents[id])
      /\ buffer' = read
      /\ shown' = [i \in DOMAIN shown \cup {id} |->
                     IF i # id THEN shown[i]
                     ELSE TrimContext(IF start = 0 THEN <<" ">> \o read ELSE read)]
      /\ UNCHANGED <<data, query, index, stage, posMap, chunks, contents, offset, origin>>

Next ==
  \/ ProcessText
  \/ ProcessStep
  \/ AddToken
  \/ \E text \in Queries : Find(text) \/ FindRejected(text)
  \/ QueryStep
  \/ QueryThrows
  \/ Return
  \/ \E id \in Files : ShowContext(id)

Spec == Init /\ [][Next]_vars

-----------------------------------------------------------------------------
\* The variables have the types the code gives them.
TypeOK ==
  /\ Data!TypeOK /\ Query!TypeOK
  /\ stage \in {"idle", "query", "found", "rejected"}
  /\ stage = "query" => dpc = "rest"
  /\ \A k \in DOMAIN index : Data!IsToken(index[k])
  /\ posMap \subseteq DOMAIN index /\ origin \in Seq(Nat) /\ Len(origin) = Len(index)
  /\ DOMAIN shown \subseteq Files /\ Files \subseteq DOMAIN contents
  /\ \A text \in {buffer} \cup {contents[i] : i \in DOMAIN contents} : text \in Seq(STRING)

\* In both tokenizers, the data's and the query's: see Tokenizer.
PiecesCover   == Data!PiecesCover /\ Query!PiecesCover
TokensInPlace == Data!TokensInPlace /\ Query!TokensInPlace
ScansAdvance  == Data!ScanAdvances /\ Query!ScanAdvances

\* A phrase is found at every place where its words come one after the other in a text,
\* and, unless a file was given in several chunks, only there: taking the first next
\* word that fits never misses a phrase and never makes one up, in files with repeated
\* words, over words the filters have dropped, among other files.
\* (Search::getPhrasePositions, search.cpp:28-81; docs/api/searcher.md:88.)
Stands(k) ==
  \A j \in DOMAIN Bodies :
    LET n == k + j - 1
    IN  /\ n \in DOMAIN index
        /\ index[n].body = Bodies[j] /\ index[n].fileId = index[k].fileId
        /\ index[n].wordPos = index[k].wordPos + j - 1
InOneChunk ==
  \A k, n \in DOMAIN index : index[k].fileId = index[n].fileId => origin[k] = origin[n]
PhrasesExact ==
  stage = "found" /\ Bodies # << >> =>
    LET standing == {k \in DOMAIN index : Stands(k)}
    IN  standing \subseteq posMap /\ (InOneChunk => posMap = standing)

\* "The absolute position in the data stream" (common.h:14): a token of a chunk does not
\* come before the place where the chunk begins in its file.
PositionsAbsolute == \A k \in DOMAIN index : index[k].pos >= origin[k]

\* The word a result of a file begins with, in the text, and the pieces of the text about
\* it that cut no word: on either side they end at a blank or with the text.
WordOf(id) ==
  LET first == index[FirstIn(id)].pos + 1
  IN  first .. Data!PieceEnd(contents[id], first)
Around(id) ==
  LET text  == contents[id]
      first == index[FirstIn(id)].pos + 1
      last  == Data!PieceEnd(text, first)
      begin == {a \in 1 .. first : a = 1 \/ text[a - 1] = " "}
      end   == {b \in last .. Len(text) : b = Len(text) \/ text[b + 1] = " "}
  IN  {SubSeq(text, a, b) : a \in begin, b \in end}

\* Where positions are those of bytes (EngineFocus::CONTEXT, a file given as one text) a
\* context begins in the file the result is in.  If the window has a blank before the
\* word and one behind it, the word is shown, and about it what stands between two
\* blanks of the text, no word of it cut on either side; what another file has left in
\* the buffer can only follow when the text ends inside the window.
\* (returnResultInContext, trimContext, FileStorage::read, engine.cpp:90-135.)
ContextsTrue ==
  stage = "found" /\ InOneChunk /\ dtk.mode = "NATIVE_POSES" /\ chunks = << >> =>
    /\ \A id \in Files : WindowStart(id) < Len(contents[id])
    /\ \A id \in DOMAIN shown :
         LET text   == contents[id]
             start  == WindowStart(id)
             window == {k \in DOMAIN text : k > start /\ k <= start + WindowSize}
             Blank(k) == text[k] = " "
             opened == start = 0 \/ \E k \in window : Blank(k) /\ \A j \in WordOf(id) : k < j
             closed == \E k \in window : Blank(k) /\ \A j \in WordOf(id) : j < k
             filled == start + WindowSize <= Len(text)
             Begins(whole, piece) == SubSeq(whole, 1, Len(piece)) = piece
         IN  opened /\ closed =>
               \E piece \in Around(id) :
                 IF filled \/ DOMAIN shown = {id} THEN shown[id] = piece
                 ELSE Begins(shown[id], piece)

\* "So that the first and the last word are not cut off in trimContext" (the comment at
\* engine.cpp:116, in Russian): a word that was found is in the context that shows it.
WordsNotCut ==
  InOneChunk /\ dtk.mode = "NATIVE_POSES" =>
    \A id \in DOMAIN shown :
      \E a, b \in DOMAIN shown[id] :
        SubSeq(shown[id], a, b) = [k \in 1 .. Cardinality(WordOf(id)) |->
                                     contents[id][index[FirstIn(id)].pos + k]]

=============================================================================
