---------------------------- MODULE SearchProofs ----------------------------
(***************************************************************************)
(* Search, for every alphabet, filters, texts and queries: both tokenizers *)
(* keep the invariant of TokenizerProofs; a phrase is found where it       *)
(* stands and nowhere else; a context shows the word that was found.       *)
(*                                                                         *)
(* The index grows by runs of tokens that are numbered one after the       *)
(* other, a run for each chunk, and no two runs of a file begin at the     *)
(* same place: so a step from a word to the next word of the file is a     *)
(* step to the next token of the index, as long as a file has one run.     *)
(***************************************************************************)
EXTENDS Search, SequenceTheorems, WellFoundedInduction, TLAPS

DataP  == INSTANCE TokenizerProofs WITH tk <- dtk, pc <- dpc, out <- dout, pieces <- dpieces
QueryP == INSTANCE TokenizerProofs WITH tk <- qtk, pc <- qpc, out <- qout, pieces <- qpieces

-----------------------------------------------------------------------------
\* TokenizerProofs speaks of the tokenizers that Search uses: definition by definition,
\* those of Tokenizer and of its proofs say the same.
LEMMA DataCardinality == \A S : Data!Cardinality(S) = DataP!Cardinality(S)
  BY DEF Data!Cardinality, DataP!Cardinality

LEMMA DataPredicates ==
  /\ Data!TypeOK <=> DataP!TypeOK
  /\ Data!PiecesCover <=> DataP!PiecesCover
  /\ Data!TokensInPlace <=> DataP!TokensInPlace
<1>1. Data!TypeOK <=> DataP!TypeOK
  BY DEF Data!TypeOK, DataP!TypeOK, Data!IsToken, DataP!IsToken
<1>2. Data!PiecesCover <=> DataP!PiecesCover
  BY DEF Data!PiecesCover, DataP!PiecesCover, Data!Reached, DataP!Reached, Data!IsWord,
         DataP!IsWord, Data!LetterBytes, DataP!LetterBytes
<1>3. Data!TokensInPlace <=> DataP!TokensInPlace
  <2>1. \A text, from : Data!Before(text, from) = DataP!Before(text, from)
    BY DataCardinality DEF Data!Before, DataP!Before, Data!Tagged, DataP!Tagged
  <2> QED
    BY <2>1, DataCardinality DEF Data!TokensInPlace, DataP!TokensInPlace
<1> QED
  BY <1>1, <1>2, <1>3

LEMMA DataOperators ==
  /\ \A S : Data!Least(S) = DataP!Least(S)
  /\ \A text, k : Data!PieceEnd(text, k) = DataP!PieceEnd(text, k)
  /\ \A mode, text, from, to : Data!Advance(mode, text, from, to) = DataP!Advance(mode, text, from, to)
  /\ \A filters, raw : Data!ApplyFilters(filters, raw) = DataP!ApplyFilters(filters, raw)
  /\ \A filters, raw : Data!Throws(filters, raw) <=> DataP!Throws(filters, raw)
<1>1. \A S : Data!Least(S) = DataP!Least(S)
  BY DEF Data!Least, DataP!Least
<1>2. \A text, k : Data!TagEnd(text, k) = DataP!TagEnd(text, k)
  BY <1>1 DEF Data!TagEnd, DataP!TagEnd
<1>3. \A text, k : Data!IsLetter(text, k) <=> DataP!IsLetter(text, k)
  BY DEF Data!IsLetter, DataP!IsLetter, Data!IsCyrillic, DataP!IsCyrillic
<1>4. \A text, k : Data!PieceEnd(text, k) = DataP!PieceEnd(text, k)
  BY <1>1, <1>2, <1>3 DEF Data!PieceEnd, DataP!PieceEnd
<1>5. \A mode, text, from, to : Data!Advance(mode, text, from, to) = DataP!Advance(mode, text, from, to)
  <2> TAKE mode, text, from, to
  <2>1. {k \in from .. to : Data!IsCyrillic(text, k)} = {k \in from .. to : DataP!IsCyrillic(text, k)}
    BY DEF Data!IsCyrillic, DataP!IsCyrillic
  <2> QED
    BY <2>1, DataCardinality DEF Data!Advance, DataP!Advance, Data!LettersIn, DataP!LettersIn
<1>6. \A filter, body : Data!Process(filter, body) = DataP!Process(filter, body)
  BY DEF Data!Process, DataP!Process, Data!Lowercase, DataP!Lowercase
<1>7. \A filters, raw : Data!ApplyFilters(filters, raw) = DataP!ApplyFilters(filters, raw)
  BY <1>6 DEF Data!ApplyFilters, DataP!ApplyFilters
<1>8. \A filters, raw : Data!Throws(filters, raw) <=> DataP!Throws(filters, raw)
  BY <1>7 DEF Data!Throws, DataP!Throws
<1> QED
  BY <1>1, <1>4, <1>5, <1>7, <1>8

LEMMA DataOperations ==
  /\ Data!HasNext <=> DataP!HasNext
  /\ Data!PrepareNext <=> DataP!PrepareNext
  /\ Data!FilterThrows <=> DataP!FilterThrows
  /\ Data!ScanEnds <=> DataP!ScanEnds
  /\ Data!Next <=> DataP!Next
  /\ \A text, id : Data!Tokenize(text, id) <=> DataP!Tokenize(text, id)
  /\ \A filters, mode : Data!Constructed(filters, mode) <=> DataP!Constructed(filters, mode)
<1>1. Data!HasNext <=> DataP!HasNext
  BY DataOperators DEF Data!HasNext, DataP!HasNext
<1>2. Data!PrepareNext <=> DataP!PrepareNext
  BY DataOperators DEF Data!PrepareNext, DataP!PrepareNext
<1>3. Data!FilterThrows <=> DataP!FilterThrows
  BY DataOperators DEF Data!FilterThrows, DataP!FilterThrows
<1>4. Data!ScanEnds <=> DataP!ScanEnds
  BY DEF Data!ScanEnds, DataP!ScanEnds
<1>5. Data!Next <=> DataP!Next
  BY DEF Data!Next, DataP!Next, Data!Taken, DataP!Taken, Data!NoToken, DataP!NoToken
<1>6. \A text, id : Data!Tokenize(text, id) <=> DataP!Tokenize(text, id)
  BY DEF Data!Tokenize, DataP!Tokenize, Data!Reset, DataP!Reset
<1>7. \A filters, mode : Data!Constructed(filters, mode) <=> DataP!Constructed(filters, mode)
  BY DEF Data!Constructed, DataP!Constructed, Data!NewTokenizer, DataP!NewTokenizer,
         Data!NoToken, DataP!NoToken
<1> QED
  BY <1>1, <1>2, <1>3, <1>4, <1>5, <1>6, <1>7

LEMMA QueryCardinality == \A S : Query!Cardinality(S) = QueryP!Cardinality(S)
  BY DEF Query!Cardinality, QueryP!Cardinality

LEMMA QueryPredicates ==
  /\ Query!TypeOK <=> QueryP!TypeOK
  /\ Query!PiecesCover <=> QueryP!PiecesCover
  /\ Query!TokensInPlace <=> QueryP!TokensInPlace
<1>1. Query!TypeOK <=> QueryP!TypeOK
  BY DEF Query!TypeOK, QueryP!TypeOK, Query!IsToken, QueryP!IsToken
<1>2. Query!PiecesCover <=> QueryP!PiecesCover
  BY DEF Query!PiecesCover, QueryP!PiecesCover, Query!Reached, QueryP!Reached, Query!IsWord,
         QueryP!IsWord, Query!LetterBytes, QueryP!LetterBytes
<1>3. Query!TokensInPlace <=> QueryP!TokensInPlace
  <2>1. \A text, from : Query!Before(text, from) = QueryP!Before(text, from)
    BY QueryCardinality DEF Query!Before, QueryP!Before, Query!Tagged, QueryP!Tagged
  <2> QED
    BY <2>1, QueryCardinality DEF Query!TokensInPlace, QueryP!TokensInPlace
<1> QED
  BY <1>1, <1>2, <1>3

LEMMA QueryOperators ==
  /\ \A S : Query!Least(S) = QueryP!Least(S)
  /\ \A text, k : Query!PieceEnd(text, k) = QueryP!PieceEnd(text, k)
  /\ \A mode, text, from, to : Query!Advance(mode, text, from, to) = QueryP!Advance(mode, text, from, to)
  /\ \A filters, raw : Query!ApplyFilters(filters, raw) = QueryP!ApplyFilters(filters, raw)
  /\ \A filters, raw : Query!Throws(filters, raw) <=> QueryP!Throws(filters, raw)
<1>1. \A S : Query!Least(S) = QueryP!Least(S)
  BY DEF Query!Least, QueryP!Least
<1>2. \A text, k : Query!TagEnd(text, k) = QueryP!TagEnd(text, k)
  BY <1>1 DEF Query!TagEnd, QueryP!TagEnd
<1>3. \A text, k : Query!IsLetter(text, k) <=> QueryP!IsLetter(text, k)
  BY DEF Query!IsLetter, QueryP!IsLetter, Query!IsCyrillic, QueryP!IsCyrillic
<1>4. \A text, k : Query!PieceEnd(text, k) = QueryP!PieceEnd(text, k)
  BY <1>1, <1>2, <1>3 DEF Query!PieceEnd, QueryP!PieceEnd
<1>5. \A mode, text, from, to : Query!Advance(mode, text, from, to) = QueryP!Advance(mode, text, from, to)
  <2> TAKE mode, text, from, to
  <2>1. {k \in from .. to : Query!IsCyrillic(text, k)} = {k \in from .. to : QueryP!IsCyrillic(text, k)}
    BY DEF Query!IsCyrillic, QueryP!IsCyrillic
  <2> QED
    BY <2>1, QueryCardinality DEF Query!Advance, QueryP!Advance, Query!LettersIn, QueryP!LettersIn
<1>6. \A filter, body : Query!Process(filter, body) = QueryP!Process(filter, body)
  BY DEF Query!Process, QueryP!Process, Query!Lowercase, QueryP!Lowercase
<1>7. \A filters, raw : Query!ApplyFilters(filters, raw) = QueryP!ApplyFilters(filters, raw)
  BY <1>6 DEF Query!ApplyFilters, QueryP!ApplyFilters
<1>8. \A filters, raw : Query!Throws(filters, raw) <=> QueryP!Throws(filters, raw)
  BY <1>7 DEF Query!Throws, QueryP!Throws
<1> QED
  BY <1>1, <1>4, <1>5, <1>7, <1>8

LEMMA QueryOperations ==
  /\ Query!HasNext <=> QueryP!HasNext
  /\ Query!PrepareNext <=> QueryP!PrepareNext
  /\ Query!FilterThrows <=> QueryP!FilterThrows
  /\ Query!ScanEnds <=> QueryP!ScanEnds
  /\ Query!Next <=> QueryP!Next
  /\ \A text, id : Query!Tokenize(text, id) <=> QueryP!Tokenize(text, id)
  /\ \A filters, mode : Query!Constructed(filters, mode) <=> QueryP!Constructed(filters, mode)
<1>1. Query!HasNext <=> QueryP!HasNext
  BY QueryOperators DEF Query!HasNext, QueryP!HasNext
<1>2. Query!PrepareNext <=> QueryP!PrepareNext
  BY QueryOperators DEF Query!PrepareNext, QueryP!PrepareNext
<1>3. Query!FilterThrows <=> QueryP!FilterThrows
  BY QueryOperators DEF Query!FilterThrows, QueryP!FilterThrows
<1>4. Query!ScanEnds <=> QueryP!ScanEnds
  BY DEF Query!ScanEnds, QueryP!ScanEnds
<1>5. Query!Next <=> QueryP!Next
  BY DEF Query!Next, QueryP!Next, Query!Taken, QueryP!Taken, Query!NoToken, QueryP!NoToken
<1>6. \A text, id : Query!Tokenize(text, id) <=> QueryP!Tokenize(text, id)
  BY DEF Query!Tokenize, QueryP!Tokenize, Query!Reset, QueryP!Reset
<1>7. \A filters, mode : Query!Constructed(filters, mode) <=> QueryP!Constructed(filters, mode)
  BY DEF Query!Constructed, QueryP!Constructed, Query!NewTokenizer, QueryP!NewTokenizer,
         Query!NoToken, QueryP!NoToken
<1> QED
  BY <1>1, <1>2, <1>3, <1>4, <1>5, <1>6, <1>7

LEMMA TokenizerHypotheses == DataP!Hypotheses /\ QueryP!Hypotheses
  BY SearchAssumption DEF DataP!Hypotheses, QueryP!Hypotheses


-----------------------------------------------------------------------------
\* The two tokenizers keep their invariants, whatever the other parts do; and the chunks
\* still to come are given in the order of their file.
Machines == DataP!Inv /\ QueryP!Inv
Pending ==
  /\ chunks \in Seq(Chunk)
  /\ \A m, n \in DOMAIN chunks :
       m < n /\ chunks[m].fileId = chunks[n].fileId =>
         chunks[m].offset + Len(chunks[m].text) <= chunks[n].offset

LEMMA PendingInit == Init => Pending
  BY SearchAssumption DEF Init, Pending

LEMMA PendingHead ==
  ASSUME Pending, chunks # << >>
  PROVE  /\ Head(chunks) \in Chunk /\ Head(chunks).text \in Seq(STRING)
         /\ Head(chunks).fileId \in Nat /\ Head(chunks).offset \in Nat
         /\ 1 \in DOMAIN chunks /\ chunks[1] = Head(chunks)
<1>1. Head(chunks) \in Chunk /\ 1 \in DOMAIN chunks /\ chunks[1] = Head(chunks)
  BY DEF Pending
<1> QED
  BY <1>1 DEF Chunk

LEMMA PendingTail ==
  ASSUME Pending, chunks # << >>
  PROVE  /\ Tail(chunks) \in Seq(Chunk)
         /\ \A n \in DOMAIN Tail(chunks) :
              n \in Nat /\ n + 1 \in DOMAIN chunks /\ 1 < n + 1 /\ Tail(chunks)[n] = chunks[n + 1]
         /\ \A m, n \in DOMAIN Tail(chunks) :
              m < n /\ Tail(chunks)[m].fileId = Tail(chunks)[n].fileId =>
                Tail(chunks)[m].offset + Len(Tail(chunks)[m].text) <= Tail(chunks)[n].offset
<1> DEFINE rest == Tail(chunks)
<1>1. chunks \in Seq(Chunk)
  BY DEF Pending
<1>2. /\ rest \in Seq(Chunk)
      /\ \A n \in DOMAIN rest :
           n \in Nat /\ n + 1 \in DOMAIN chunks /\ 1 < n + 1 /\ rest[n] = chunks[n + 1]
  BY <1>1
<1> HIDE DEF rest
<1>3. ASSUME NEW m \in DOMAIN rest, NEW n \in DOMAIN rest, m < n, rest[m].fileId = rest[n].fileId
      PROVE  rest[m].offset + Len(rest[m].text) <= rest[n].offset
  <2> DEFINE mm == m + 1
             nn == n + 1
  <2>1. mm \in DOMAIN chunks /\ nn \in DOMAIN chunks /\ mm < nn
    BY <1>2, <1>3
  <2>2. rest[m] = chunks[mm] /\ rest[n] = chunks[nn]
    BY <1>2
  <2> HIDE DEF mm, nn
  <2> QED
    BY <1>3, <2>1, <2>2 DEF Pending
<1> QED
  BY <1>2, <1>3 DEF rest

LEMMA PendingStep ==
  ASSUME Pending, [Next]_vars
  PROVE  Pending'
<1>1. CASE ProcessText
  <2>1. chunks # << >> /\ chunks' = Tail(chunks)
    BY <1>1 DEF ProcessText
  <2> QED
    BY <2>1, PendingTail DEF Pending
<1>2. CASE ~ProcessText
  <2>1. chunks' = chunks
    BY <1>2 DEF Next, vars, ProcessStep, AddToken, Find, FindRejected, QueryStep, QueryThrows,
                Return, ShowContext
  <2> QED
    BY <2>1 DEF Pending
<1> QED
  BY <1>1, <1>2

LEMMA MachinesInit == Init => Machines
<1> SUFFICES ASSUME Init PROVE Machines
  OBVIOUS
<1>1. PICK s \in Settings : Data!Constructed(s.filters, s.mode) /\ Query!Constructed(s.filters, s.mode)
  BY DEF Init
<1>2. DataP!Constructed(s.filters, s.mode) /\ QueryP!Constructed(s.filters, s.mode)
  BY <1>1, DataOperations, QueryOperations
<1> QED
  BY <1>2, DataP!ConstructedInv, QueryP!ConstructedInv DEF Machines

LEMMA MachinesStep ==
  ASSUME Machines, Pending, [Next]_vars
  PROVE  Machines'
<1>0. DataP!Inv /\ QueryP!Inv
  BY DEF Machines
<1>1. UNCHANGED data => DataP!Inv'
  BY <1>0, DataP!StutterInv DEF data, DataP!vars
<1>2. UNCHANGED query => QueryP!Inv'
  BY <1>0, QueryP!StutterInv DEF query, QueryP!vars
<1>3. CASE ProcessText
  <2>1. Data!Tokenize(Head(chunks).text, Head(chunks).fileId) /\ chunks # << >> /\ UNCHANGED query
    BY <1>3 DEF ProcessText
  <2>2. Head(chunks).text \in Seq(STRING) /\ Head(chunks).fileId \in Nat
    BY <2>1, PendingHead
  <2>3. DataP!Tokenize(Head(chunks).text, Head(chunks).fileId)
    BY <2>1, DataOperations
  <2> QED
    BY <1>0, <1>2, <2>1, <2>2, <2>3, DataP!TokenizeInv DEF Machines
<1>4. CASE ProcessStep
  <2>1. /\ DataP!HasNext \/ DataP!PrepareNext \/ DataP!FilterThrows \/ DataP!ScanEnds
        /\ UNCHANGED query
    BY <1>4, DataOperations DEF ProcessStep
  <2>2. DataP!Inv'
    BY <1>0, <2>1, TokenizerHypotheses, DataP!HasNextInv, DataP!PrepareNextInv,
       DataP!FilterThrowsInv, DataP!ScanEndsInv
  <2> QED
    BY <1>2, <2>1, <2>2 DEF Machines
<1>5. CASE AddToken
  <2>1. DataP!Next /\ UNCHANGED query
    BY <1>5, DataOperations DEF AddToken
  <2> QED
    BY <1>0, <1>2, <2>1, DataP!NextInv DEF Machines
<1>6. ASSUME NEW text \in Queries, Find(text) PROVE Machines'
  <2>1. QueryP!Tokenize(text, 0) /\ UNCHANGED data
    BY <1>6, QueryOperations DEF Find
  <2>2. text \in Seq(STRING) /\ 0 \in Nat
    BY SearchAssumption
  <2> QED
    BY <1>0, <1>1, <2>1, <2>2, QueryP!TokenizeInv DEF Machines
<1>7. CASE QueryStep
  <2>1. /\ QueryP!HasNext \/ QueryP!PrepareNext \/ QueryP!ScanEnds \/ QueryP!Next
        /\ UNCHANGED data
    BY <1>7, QueryOperations DEF QueryStep
  <2>2. QueryP!Inv'
    BY <1>0, <2>1, TokenizerHypotheses, QueryP!HasNextInv, QueryP!PrepareNextInv,
       QueryP!ScanEndsInv, QueryP!NextInv
  <2> QED
    BY <1>1, <2>1, <2>2 DEF Machines
<1>8. CASE QueryThrows
  <2>1. QueryP!FilterThrows /\ UNCHANGED data
    BY <1>8, QueryOperations DEF QueryThrows
  <2> QED
    BY <1>0, <1>1, <2>1, QueryP!FilterThrowsInv DEF Machines
<1>9. CASE \/ \E text \in Queries : FindRejected(text)
           \/ Return \/ (\E id \in Files : ShowContext(id)) \/ UNCHANGED vars
  <2>1. UNCHANGED data /\ UNCHANGED query
    BY <1>9 DEF FindRejected, Return, ShowContext, vars
  <2> QED
    BY <1>1, <1>2, <2>1 DEF Machines
<1> QED
  BY <1>3, <1>4, <1>5, <1>6, <1>7, <1>8, <1>9 DEF Next


-----------------------------------------------------------------------------
\* getPhrasePositions.  The word after the one at p, and the walk from word to word.
LEMMA FirstIsLeast ==
  ASSUME NEW S, S \subseteq Nat, S # {}
  PROVE  First(S) \in S /\ \A n \in S : First(S) <= n
<1>1. First(S) = DataP!Least(S)
  BY DEF First, DataP!Least
<1> QED
  BY <1>1, DataP!LeastNat

\* What holds at 1 and goes on from each number to the next holds up to n.
LEMMA UpTo ==
  ASSUME NEW n \in Nat, NEW Bad, Bad \subseteq 1 .. n, 1 \notin Bad,
         \A j \in 1 .. n : j > 1 /\ j \in Bad => j - 1 \in Bad
  PROVE  Bad = {}
<1> SUFFICES ASSUME Bad # {} PROVE FALSE
  OBVIOUS
<1>1. Bad \subseteq Nat
  OBVIOUS
<1>2. First(Bad) \in Bad /\ \A m \in Bad : First(Bad) <= m
  BY <1>1, FirstIsLeast
<1> DEFINE j == First(Bad)
           i == j - 1
<1>3. j \in 1 .. n /\ j \in Bad /\ j # 1
  BY <1>2
<1> HIDE DEF j
<1>4. j > 1 /\ ~ (j <= i)
  BY <1>3
<1>5. i \in Bad
  BY <1>3, <1>4
<1> QED
  BY <1>2, <1>4, <1>5 DEF j

NextWord(bodies, p, j) ==
  IF p = 0 \/ Adjacent(p, bodies[j]) = {} THEN 0 ELSE First(Adjacent(p, bodies[j]))
IsWalk(f, bodies, k, n) ==
  f = [j \in 1 .. n |-> IF j = 1 THEN k ELSE NextWord(bodies, f[j - 1], j)]
Walk(bodies, k) == CHOOSE f : IsWalk(f, bodies, k, Len(bodies))

LEMMA WalkExists ==
  ASSUME NEW bodies, NEW k, NEW n \in Nat \ {0}
  PROVE  \E f : IsWalk(f, bodies, k, n)
<1> DEFINE Bad == {m \in 1 .. n : ~ \E f : IsWalk(f, bodies, k, m)}
<1>1. 1 \notin Bad
  <2> DEFINE f == [j \in 1 .. 1 |-> k]
  <2>1. f = [j \in 1 .. 1 |-> IF j = 1 THEN k ELSE NextWord(bodies, f[j - 1], j)]
    OBVIOUS
  <2>2. IsWalk(f, bodies, k, 1)
    BY <2>1, Zenon DEF IsWalk
  <2> QED
    BY <2>2
<1>2. ASSUME NEW m \in 1 .. n, m > 1, m - 1 \notin Bad PROVE m \notin Bad
  <2> DEFINE l == m - 1
  <2>1. l \in 1 .. n /\ l \in Nat /\ l < m
    BY <1>2
  <2>2. PICK f : IsWalk(f, bodies, k, l)
    BY <1>2, <2>1
  <2>3. \A j \in 1 .. l : f[j] = IF j = 1 THEN k ELSE NextWord(bodies, f[j - 1], j)
    BY <2>2, Zenon DEF IsWalk
  <2> DEFINE g == [j \in 1 .. m |-> IF j < m THEN f[j] ELSE NextWord(bodies, f[l], m)]
  <2>4. \A j \in 1 .. l : g[j] = f[j]
    BY <2>1
  <2>5. g[m] = NextWord(bodies, f[l], m)
    BY <1>2
  <2>6. DOMAIN g = 1 .. m /\ g = [j \in 1 .. m |-> g[j]]
    OBVIOUS
  <2> HIDE DEF g
  <2>7. ASSUME NEW j \in 1 .. m
        PROVE  g[j] = IF j = 1 THEN k ELSE NextWord(bodies, g[j - 1], j)
    <3>1. CASE j = m
      <4>1. j - 1 = l /\ l \in 1 .. l /\ j # 1
        BY <1>2, <3>1, <2>1
      <4> QED
        BY <2>4, <2>5, <3>1, <4>1
    <3>2. CASE j # m
      <4> DEFINE i == j - 1
      <4>1. j \in 1 .. l /\ (j # 1 => i \in 1 .. l)
        BY <1>2, <3>2
      <4> HIDE DEF i
      <4>2. g[j] = f[j] /\ (j # 1 => g[i] = f[i])
        BY <2>4, <4>1
      <4>3. f[j] = IF j = 1 THEN k ELSE NextWord(bodies, f[i], j)
        BY <2>3, <4>1 DEF i
      <4> QED
        BY <4>2, <4>3 DEF i
    <3> QED
      BY <3>1, <3>2
  <2>8. g = [j \in 1 .. m |-> IF j = 1 THEN k ELSE NextWord(bodies, g[j - 1], j)]
    BY <2>6, <2>7
  <2>9. IsWalk(g, bodies, k, m)
    BY <2>8 DEF IsWalk
  <2> QED
    BY <2>9
<1> HIDE DEF Bad
<1>3. Bad \subseteq 1 .. n
  BY DEF Bad
<1>4. Bad = {}
  BY <1>1, <1>2, <1>3, UpTo
<1>5. n \in 1 .. n
  OBVIOUS
<1> QED
  BY <1>4, <1>5 DEF Bad

LEMMA WalkSteps ==
  ASSUME NEW bodies, Len(bodies) \in Nat \ {0}, NEW k
  PROVE  \A j \in 1 .. Len(bodies) :
           Walk(bodies, k)[j] = IF j = 1 THEN k ELSE NextWord(bodies, Walk(bodies, k)[j - 1], j)
<1>1. IsWalk(Walk(bodies, k), bodies, k, Len(bodies))
  BY WalkExists DEF Walk
<1> QED
  BY <1>1, Zenon DEF IsWalk

LEMMA PhrasePositionsByWalk ==
  ASSUME NEW bodies
  PROVE  GetPhrasePositions(bodies) = {k \in Of(bodies[1]) : Walk(bodies, k)[Len(bodies)] # 0}
  BY DEF GetPhrasePositions, Walk, IsWalk, NextWord


\* What the index is: tokens, and of each where its chunk began.
Indexed == index \in Seq(DataP!Token) /\ origin \in Seq(Nat) /\ Len(origin) = Len(index)

\* Tokens of one chunk are counted as they follow one another in the index.
Apart ==
  \A k, n \in DOMAIN index :
    index[k].fileId = index[n].fileId /\ origin[k] = origin[n] =>
      index[n].wordPos - index[k].wordPos = n - k

LEMMA IndexedTokens ==
  ASSUME Indexed
  PROVE  /\ DOMAIN index = 1 .. Len(index) /\ Len(index) \in Nat /\ DOMAIN origin = DOMAIN index
         /\ \A k \in DOMAIN index :
              /\ k \in Nat \ {0} /\ origin[k] \in Nat /\ index[k] \in DataP!Token
              /\ index[k].wordPos \in Nat /\ index[k].pos \in Nat /\ index[k].fileId \in Nat
<1>1. index \in Seq(DataP!Token) /\ origin \in Seq(Nat) /\ Len(origin) = Len(index)
  BY DEF Indexed
<1>2. DOMAIN index = 1 .. Len(index) /\ Len(index) \in Nat /\ DOMAIN origin = DOMAIN index
  BY <1>1
<1>3. ASSUME NEW k \in DOMAIN index
      PROVE  k \in Nat \ {0} /\ origin[k] \in Nat /\ index[k] \in DataP!Token
  BY <1>1, <1>2
<1>4. \A t \in DataP!Token : t.wordPos \in Nat /\ t.pos \in Nat /\ t.fileId \in Nat
  BY DEF DataP!Token
<1> QED
  BY <1>2, <1>3, <1>4

LEMMA NextWordAdjacent ==
  ASSUME Indexed, NEW bodies, NEW j, NEW p \in DOMAIN index
  PROVE  /\ NextWord(bodies, p, j) # 0 =>
              /\ NextWord(bodies, p, j) \in DOMAIN index
              /\ index[NextWord(bodies, p, j)].body = bodies[j]
              /\ index[NextWord(bodies, p, j)].fileId = index[p].fileId
              /\ index[NextWord(bodies, p, j)].wordPos - index[p].wordPos = 1
         /\ Adjacent(p, bodies[j]) # {} => NextWord(bodies, p, j) # 0
<1> DEFINE S == Adjacent(p, bodies[j])
           n == NextWord(bodies, p, j)
<1>1. S \subseteq DOMAIN index /\ \A m \in S :
        index[m].body = bodies[j] /\ index[m].fileId = index[p].fileId
        /\ index[m].wordPos - index[p].wordPos = 1
  BY DEF Adjacent, InFile, Of
<1>2. \A m \in DOMAIN index : m \in Nat \ {0}
  BY IndexedTokens
<1>3. S \subseteq Nat /\ p # 0
  BY <1>1, <1>2
<1>4. S # {} => First(S) \in S
  <2> HIDE DEF S
  <2> QED
    BY <1>3, FirstIsLeast
<1>5. n = IF S = {} THEN 0 ELSE First(S)
  BY <1>3 DEF NextWord
<1>6. S # {} => n \in S /\ n # 0
  <2> HIDE DEF S, n
  <2> QED
    BY <1>1, <1>2, <1>4, <1>5
<1>7. n # 0 => n \in S
  <2> HIDE DEF S, n
  <2> QED
    BY <1>5, <1>6
<1> HIDE DEF S, n
<1> QED
  BY <1>1, <1>6, <1>7 DEF S, n

\* A phrase that stands somewhere is never missed: the first next word that fits leads on,
\* as the next word depends on the file and the number of the word only.
LEMMA StandingIsFound ==
  ASSUME Indexed, NEW bodies, Len(bodies) \in Nat \ {0}, DOMAIN bodies = 1 .. Len(bodies),
         bodies = Bodies, NEW k \in DOMAIN index, Stands(k)
  PROVE  k \in GetPhrasePositions(bodies)
<1> DEFINE w    == Walk(bodies, k)
           N    == Len(bodies)
           P(j) == /\ w[j] \in DOMAIN index /\ index[w[j]].fileId = index[k].fileId
                   /\ index[w[j]].wordPos = index[k].wordPos + j - 1
           Bad  == {j \in 1 .. N : ~P(j)}
<1>1. \A j \in 1 .. N : w[j] = IF j = 1 THEN k ELSE NextWord(bodies, w[j - 1], j)
  BY WalkSteps
<1>2. \A n \in DOMAIN index : n \in Nat \ {0} /\ index[n].wordPos \in Nat
  BY IndexedTokens
<1>3. \A j \in 1 .. N :
        /\ k + j - 1 \in DOMAIN index /\ index[k + j - 1].body = bodies[j]
        /\ index[k + j - 1].fileId = index[k].fileId
        /\ index[k + j - 1].wordPos = index[k].wordPos + j - 1
  BY DEF Stands
<1> HIDE DEF w, N
<1>4. N \in Nat \ {0}
  BY DEF N
<1>5. 1 \in 1 .. N /\ w[1] = k
  BY <1>1, <1>4
<1>6. P(1)
  BY <1>2, <1>5
<1>7. ASSUME NEW j \in 1 .. N, j > 1, P(j - 1) PROVE P(j)
  <2> DEFINE i == j - 1
             n == k + j - 1
             p == w[i]
  <2>1. p \in DOMAIN index /\ index[p].fileId = index[k].fileId
        /\ index[p].wordPos = index[k].wordPos + i - 1 /\ i \in Nat /\ j = i + 1
    BY <1>7
  <2>2. n \in DOMAIN index /\ index[n].body = bodies[j] /\ index[n].fileId = index[k].fileId
        /\ index[n].wordPos = index[k].wordPos + j - 1
    BY <1>3
  <2>3. w[j] = NextWord(bodies, p, j)
    BY <1>1, <1>7
  <2> HIDE DEF n, p, i
  <2>4. index[n].wordPos - index[p].wordPos = 1
    BY <1>2, <2>1, <2>2
  <2>5. n \in Adjacent(p, bodies[j])
    BY <2>1, <2>2, <2>4 DEF Adjacent, InFile, Of
  <2> DEFINE q == NextWord(bodies, p, j)
  <2>6. q \in DOMAIN index /\ index[q].fileId = index[p].fileId
        /\ index[q].wordPos - index[p].wordPos = 1
    <3>1. p \in DOMAIN index /\ Adjacent(p, bodies[j]) # {}
      BY <2>1, <2>5
    <3>2. NextWord(bodies, p, j) # 0
      BY <3>1, NextWordAdjacent
    <3>3. NextWord(bodies, p, j) \in DOMAIN index
      BY <3>1, <3>2, NextWordAdjacent
    <3>4. index[NextWord(bodies, p, j)].fileId = index[p].fileId
      BY <3>1, <3>2, NextWordAdjacent
    <3>5. index[NextWord(bodies, p, j)].wordPos - index[p].wordPos = 1
      BY <3>1, <3>2, NextWordAdjacent
    <3> QED
      BY <3>3, <3>4, <3>5
  <2> HIDE DEF q
  <2>7. index[q].wordPos = index[k].wordPos + j - 1
    <3> DEFINE a == index[k].wordPos
               b == index[p].wordPos
               c == index[q].wordPos
    <3>1. a \in Nat /\ b \in Nat /\ c \in Nat /\ b = a + i - 1 /\ c - b = 1 /\ i \in Nat /\ j = i + 1
      BY <1>2, <2>1, <2>6
    <3> HIDE DEF a, b, c
    <3>2. c = a + j - 1
      BY <3>1
    <3> QED
      BY <3>2 DEF a, c
  <2>8. w[j] = q
    BY <2>3 DEF q
  <2> QED
    BY <2>1, <2>6, <2>7, <2>8
<1>8. Bad = {}
  <2>1. Bad \subseteq 1 .. N /\ 1 \notin Bad
    BY <1>6
  <2>2. \A j \in 1 .. N : j > 1 /\ j \in Bad => j - 1 \in Bad
    <3> TAKE j \in 1 .. N
    <3>1. j > 1 => j - 1 \in 1 .. N
      BY <1>4
    <3> HIDE DEF P
    <3> QED
      BY <1>7, <3>1
  <2> HIDE DEF Bad
  <2> QED
    BY <1>4, <2>1, <2>2, UpTo
<1>9. w[N] # 0
  <2>1. N \in 1 .. N
    BY <1>4
  <2>2. P(N)
    <3> HIDE DEF P
    <3> QED
      BY <1>8, <2>1
  <2> QED
    BY <1>2, <2>2
<1>10. k \in Of(bodies[1])
  <2> DEFINE n == k + 1 - 1
  <2>1. n = k /\ index[n].body = bodies[1]
    BY <1>2, <1>3, <1>5
  <2> HIDE DEF n
  <2> QED
    BY <2>1 DEF Of
<1> QED
  BY <1>9, <1>10, PhrasePositionsByWalk DEF w, N

\* And in files that were given in one chunk only such a place is found.
LEMMA FoundIsStanding ==
  ASSUME Indexed, Apart, InOneChunk, NEW bodies, Len(bodies) \in Nat \ {0},
         DOMAIN bodies = 1 .. Len(bodies), bodies = Bodies, NEW k \in GetPhrasePositions(bodies)
  PROVE  k \in DOMAIN index /\ Stands(k)
<1> DEFINE w    == Walk(bodies, k)
           N    == Len(bodies)
           P(j) == /\ w[j] = k + j - 1 /\ w[j] \in DOMAIN index
                   /\ index[w[j]].body = bodies[j] /\ index[w[j]].fileId = index[k].fileId
                   /\ index[w[j]].wordPos = index[k].wordPos + j - 1
<1>1. \A j \in 1 .. N : w[j] = IF j = 1 THEN k ELSE NextWord(bodies, w[j - 1], j)
  BY WalkSteps
<1>2. \A n \in DOMAIN index : n \in Nat \ {0} /\ index[n].wordPos \in Nat
  BY IndexedTokens
<1>3. k \in DOMAIN index /\ index[k].body = bodies[1] /\ w[N] # 0
  BY PhrasePositionsByWalk DEF Of
<1> HIDE DEF w, N
<1>4. N \in Nat \ {0}
  BY DEF N
<1>5. \A j \in 1 .. N : w[j] # 0
  <2> DEFINE Bad == {j \in 1 .. N : w[N + 1 - j] = 0}
  <2>1. 1 \notin Bad
    <3>1. N + 1 - 1 = N
      BY <1>4
    <3> QED
      BY <1>3, <3>1
  <2>2. ASSUME NEW j \in 1 .. N, j > 1, j \in Bad PROVE j - 1 \in Bad
    <3> DEFINE a == N + 1 - j
               b == a + 1
               i == j - 1
    <3>1. w[a] = 0 /\ b \in 1 .. N /\ b # 1 /\ b - 1 = a /\ i \in 1 .. N /\ N + 1 - i = b
      BY <1>4, <2>2
    <3> HIDE DEF a, b
    <3>2. w[b] = NextWord(bodies, w[a], b)
      BY <1>1, <3>1
    <3>3. w[b] = 0
      BY <3>1, <3>2 DEF NextWord
    <3> QED
      BY <3>1, <3>3
  <2>3. Bad \subseteq 1 .. N
    OBVIOUS
  <2>4. Bad = {}
    <3> HIDE DEF Bad
    <3> QED
      BY <1>4, <2>1, <2>2, <2>3, UpTo
  <2>5. ASSUME NEW j \in 1 .. N PROVE w[j] # 0
    <3> DEFINE i == N + 1 - j
    <3>1. i \in 1 .. N /\ N + 1 - i = j
      BY <1>4
    <3> HIDE DEF i
    <3>2. i \notin Bad
      BY <2>4
    <3> QED
      BY <3>1, <3>2
  <2> QED
    BY <2>5
<1>6. 1 \in 1 .. N /\ w[1] = k
  BY <1>1, <1>4
<1>7. P(1)
  BY <1>2, <1>3, <1>6
<1>8. ASSUME NEW j \in 1 .. N, j > 1, P(j - 1) PROVE P(j)
  <2> DEFINE i == j - 1
             p == w[i]
             n == w[j]
  <2>1. /\ p = k + i - 1 /\ p \in DOMAIN index /\ index[p].fileId = index[k].fileId
        /\ index[p].wordPos = index[k].wordPos + i - 1 /\ i \in Nat /\ j = i + 1
    BY <1>8
  <2>2. n = NextWord(bodies, p, j) /\ n # 0
    BY <1>1, <1>5, <1>8
  <2> HIDE DEF n, p, i
  <2>3. /\ n \in DOMAIN index /\ index[n].body = bodies[j] /\ index[n].fileId = index[p].fileId
        /\ index[n].wordPos - index[p].wordPos = 1
    BY <2>1, <2>2, NextWordAdjacent
  <2>4. origin[p] = origin[n]
    BY <2>1, <2>3 DEF InOneChunk
  <2>5. n - p = 1
    BY <2>1, <2>3, <2>4 DEF Apart
  <2>6. n = k + j - 1 /\ index[n].wordPos = index[k].wordPos + j - 1
    <3> DEFINE a == index[k].wordPos
               b == index[p].wordPos
               c == index[n].wordPos
    <3>1. a \in Nat /\ b \in Nat /\ c \in Nat /\ n \in Nat /\ p \in Nat /\ k \in Nat /\ i \in Nat
      BY <1>2, <1>3, <2>1, <2>3
    <3>2. b = a + i - 1 /\ c - b = 1 /\ p = k + i - 1 /\ n - p = 1 /\ j = i + 1
      BY <2>1, <2>3, <2>5
    <3> HIDE DEF a, b, c
    <3>3. n = k + j - 1 /\ c = a + j - 1
      BY <3>1, <3>2
    <3> QED
      BY <3>3 DEF a, c
  <2> QED
    BY <2>1, <2>3, <2>6 DEF n
<1>9. \A j \in 1 .. N : P(j)
  <2> DEFINE Bad == {j \in 1 .. N : ~P(j)}
  <2>1. Bad \subseteq 1 .. N /\ 1 \notin Bad
    BY <1>7
  <2>2. \A j \in 1 .. N : j > 1 /\ j \in Bad => j - 1 \in Bad
    <3> TAKE j \in 1 .. N
    <3>1. j > 1 => j - 1 \in 1 .. N
      BY <1>4
    <3> HIDE DEF P
    <3> QED
      BY <1>8, <3>1
  <2>3. Bad = {}
    <3> HIDE DEF Bad
    <3> QED
      BY <1>4, <2>1, <2>2, UpTo
  <2> HIDE DEF P
  <2> QED
    BY <2>3
<1>10. ASSUME NEW j \in DOMAIN bodies
       PROVE  /\ k + j - 1 \in DOMAIN index /\ index[k + j - 1].body = bodies[j]
              /\ index[k + j - 1].fileId = index[k].fileId
              /\ index[k + j - 1].wordPos = index[k].wordPos + j - 1
  <2>1. P(j)
    <3> HIDE DEF P
    <3> QED
      BY <1>9 DEF N
  <2> DEFINE n == k + j - 1
  <2>2. w[j] = n
    BY <2>1
  <2> HIDE DEF n
  <2>3. /\ n \in DOMAIN index /\ index[n].body = bodies[j]
        /\ index[n].fileId = index[k].fileId /\ index[n].wordPos = index[k].wordPos + j - 1
    BY <2>1, <2>2
  <2> QED
    BY <2>3 DEF n
<1> QED
  BY <1>3, <1>10 DEF Stands


-----------------------------------------------------------------------------
\* The other parts of the inductive invariant.  No call of the engine is made inside
\* another.
Calls ==
  /\ stage \in {"idle", "query", "found", "rejected"}
  /\ stage \in {"query", "found"} => dpc = "rest"
  /\ qpc # "rest" => stage = "query"

\* The index points into the texts that were written, and so does the chunk at hand.
Stored ==
  /\ offset \in Nat
  /\ \A id \in DOMAIN contents : contents[id] \in Seq(STRING)
  /\ \A k \in DOMAIN index :
       /\ index[k].fileId \in DOMAIN contents
       /\ index[k].pos < Len(contents[index[k].fileId])
  /\ dpc # "rest" => /\ dtk.fileId \in DOMAIN contents
                     /\ Len(dtk.text) <= Len(contents[dtk.fileId])
Results ==
  /\ posMap \subseteq DOMAIN index /\ DOMAIN shown \subseteq Files /\ buffer \in Seq(STRING)
  /\ stage = "query" => posMap = {}

\* Since the chunk at hand began, its tokens are the last of the index, one after the
\* other; tokens before them and chunks to come are elsewhere, or elsewhere in the file.
Base == Len(index) - Len(dout)
Recent ==
  /\ Base \in Nat
  /\ \A k \in DOMAIN index :
       k > Base => /\ index[k].fileId = dtk.fileId /\ origin[k] = offset
                   /\ index[k].wordPos = k - 1 - Base
Earlier == \A k \in DOMAIN index : k <= Base /\ index[k].fileId = dtk.fileId => origin[k] < offset
Coming ==
  \A c \in DOMAIN chunks :
    /\ \A k \in DOMAIN index : index[k].fileId = chunks[c].fileId => origin[k] < chunks[c].offset
    /\ chunks[c].fileId = dtk.fileId => offset + Len(dtk.text) <= chunks[c].offset

\* What the data's tokenizer does in a step, and what the index then holds.
DataStep ==
  \/ UNCHANGED <<data, index, origin, offset, chunks, contents>>
  \/ /\ dpc # "rest" /\ dtk'.text = dtk.text /\ dtk'.fileId = dtk.fileId /\ dout' = dout
     /\ stage' = stage /\ UNCHANGED <<index, origin, offset, chunks, contents>>
TakesToken ==
  LET t == dtk.preparedToken
  IN  /\ dpc # "rest" /\ dtk'.text = dtk.text /\ dtk'.fileId = dtk.fileId
      /\ t \in DataP!Token /\ t.wordPos = Len(dout) /\ t.fileId = dtk.fileId
      /\ t.pos < Len(dtk.text) /\ Len(dout) \in Nat /\ Len(dout') = Len(dout) + 1
      /\ index' = Append(index, t) /\ origin' = Append(origin, offset)
      /\ stage' = stage /\ UNCHANGED <<offset, chunks, contents>>

LEMMA AddTokenTakes ==
  ASSUME Machines, AddToken
  PROVE  TakesToken
<1>1. DataP!Inv /\ DataP!Next
  BY DataOperations DEF Machines, AddToken
<1>2. /\ dpc = "ready" /\ dtk'.text = dtk.text /\ dtk'.fileId = dtk.fileId
      /\ dout' = Append(dout, dtk.preparedToken) /\ dout \in Seq(DataP!Token)
      /\ dtk.preparedToken \in DataP!Token /\ dtk.preparedToken.wordPos = Len(dout)
      /\ dtk.preparedToken.fileId = dtk.fileId /\ dtk.preparedToken.pos < Len(dtk.text)
  BY <1>1, DataP!NextTakes
<1>3. Len(dout) \in Nat /\ Len(dout') = Len(dout) + 1
  BY <1>2
<1> QED
  BY <1>2, <1>3 DEF TakesToken, AddToken

LEMMA OtherSteps ==
  ASSUME Machines, [Next]_vars
  PROVE  ProcessText \/ TakesToken \/ DataStep
<1>1. CASE ProcessStep
  <2>1. DataP!HasNext \/ DataP!PrepareNext \/ DataP!FilterThrows \/ DataP!ScanEnds
    BY <1>1, DataOperations DEF ProcessStep
  <2>2. dpc # "rest" /\ dtk'.text = dtk.text /\ dtk'.fileId = dtk.fileId /\ dout' = dout
    BY <2>1, DataP!StepKeeps DEF Machines
  <2> QED
    BY <1>1, <2>2 DEF ProcessStep, DataStep
<1>2. CASE AddToken
  BY <1>2, AddTokenTakes
<1>3. CASE \/ \E text \in Queries : Find(text) \/ FindRejected(text)
           \/ QueryStep \/ QueryThrows \/ Return \/ (\E id \in Files : ShowContext(id))
           \/ UNCHANGED vars
  BY <1>3 DEF Find, FindRejected, QueryStep, QueryThrows, Return, ShowContext, vars, DataStep
<1> QED
  BY <1>1, <1>2, <1>3 DEF Next

\* What ProcessText leaves of the data's tokenizer.
LEMMA ProcessTextSets ==
  ASSUME Machines, Pending, ProcessText
  PROVE  /\ chunks # << >> /\ dpc = "rest" /\ dpc' = "asked" /\ stage' = "idle"
         /\ dtk'.text = Head(chunks).text /\ dtk'.fileId = Head(chunks).fileId /\ dout' = << >>
         /\ chunks' = Tail(chunks) /\ offset' = Head(chunks).offset
         /\ index' = index /\ origin' = origin
<1>1. DataP!Inv /\ DataP!Tokenize(Head(chunks).text, Head(chunks).fileId)
  BY DataOperations DEF Machines, ProcessText
<1>2. /\ dpc = "rest" /\ dpc' = "asked" /\ dtk'.text = Head(chunks).text
      /\ dtk'.fileId = Head(chunks).fileId /\ dout' = << >>
  BY <1>1, DataP!TokenizeSets
<1> QED
  BY <1>2 DEF ProcessText

LEMMA CallsStep ==
  ASSUME Machines, Pending, Calls, [Next]_vars
  PROVE  Calls'
<1>1. CASE ProcessText
  BY <1>1, ProcessTextSets DEF Calls, ProcessText, IsFree, query
<1>2. CASE ProcessStep
  <2>1. DataP!HasNext \/ DataP!PrepareNext \/ DataP!FilterThrows \/ DataP!ScanEnds
    BY <1>2, DataOperations DEF ProcessStep
  <2>2. dpc # "rest"
    BY <2>1, DataP!StepKeeps DEF Machines
  <2> QED
    BY <1>2, <2>2 DEF Calls, ProcessStep, query
<1>3. CASE AddToken
  BY <1>3, AddTokenTakes DEF Calls, AddToken, TakesToken, query
<1>4. ASSUME NEW text \in Queries, Find(text) PROVE Calls'
  BY <1>4 DEF Calls, Find, IsFree, data
<1>5. ASSUME NEW text \in Queries, FindRejected(text) PROVE Calls'
  BY <1>5 DEF Calls, FindRejected, IsFree, data, query
<1>6. CASE QueryStep
  <2>1. qpc # "rest"
    BY <1>6 DEF QueryStep, Query!HasNext, Query!PrepareNext, Query!ScanEnds, Query!Next
  <2> QED
    BY <1>6, <2>1 DEF Calls, QueryStep, data
<1>7. CASE QueryThrows
  BY <1>7 DEF Calls, QueryThrows, Query!FilterThrows, data
<1>8. CASE Return
  BY <1>8 DEF Calls, Return, data, query
<1>9. CASE (\E id \in Files : ShowContext(id)) \/ UNCHANGED vars
  BY <1>9 DEF Calls, ShowContext, vars, data, query
<1> QED
  BY <1>1, <1>2, <1>3, <1>4, <1>5, <1>6, <1>7, <1>8, <1>9 DEF Next


-----------------------------------------------------------------------------
\* What a token adds to the index.
LEMMA TokenAdded ==
  ASSUME Indexed, offset \in Nat, TakesToken
  PROVE  /\ Indexed' /\ Len(index') = Len(index) + 1 /\ Len(index) \in Nat
         /\ DOMAIN index' = DOMAIN index \cup {Len(index) + 1}
         /\ \A k \in DOMAIN index :
              index'[k] = index[k] /\ origin'[k] = origin[k] /\ k <= Len(index) /\ k \in Nat
         /\ index'[Len(index) + 1] = dtk.preparedToken /\ origin'[Len(index) + 1] = offset
<1> DEFINE t == dtk.preparedToken
<1>1. index \in Seq(DataP!Token) /\ origin \in Seq(Nat) /\ Len(origin) = Len(index)
  BY DEF Indexed
<1>2. index' = Append(index, t) /\ origin' = Append(origin, offset) /\ t \in DataP!Token
  BY DEF TakesToken
<1> HIDE DEF t
<1>3. index' \in Seq(DataP!Token) /\ origin' \in Seq(Nat) /\ Len(origin') = Len(index')
  BY <1>1, <1>2
<1>4. /\ Len(index') = Len(index) + 1 /\ Len(index) \in Nat
      /\ DOMAIN index' = DOMAIN index \cup {Len(index) + 1}
      /\ index'[Len(index) + 1] = t /\ origin'[Len(index) + 1] = offset
  BY <1>1, <1>2
<1>5. ASSUME NEW k \in DOMAIN index
      PROVE  index'[k] = index[k] /\ origin'[k] = origin[k] /\ k <= Len(index) /\ k \in Nat
  BY <1>1, <1>2
<1> QED
  BY <1>3, <1>4, <1>5 DEF Indexed, t

LEMMA IndexedStep ==
  ASSUME Machines, Pending, Indexed, offset \in Nat, [Next]_vars
  PROVE  Indexed'
<1>1. CASE ProcessText
  BY <1>1, ProcessTextSets DEF Indexed
<1>2. CASE TakesToken
  BY <1>2, TokenAdded
<1>3. CASE DataStep
  BY <1>3 DEF DataStep, Indexed
<1> QED
  BY <1>1, <1>2, <1>3, OtherSteps

LEMMA RecentStep ==
  ASSUME Machines, Pending, Indexed, offset \in Nat, Recent, [Next]_vars
  PROVE  Recent'
<1>0. dout \in Seq(DataP!Token)
  BY DataP!OutTyped DEF Machines
<1>1. CASE ProcessText
  <2>1. dout' = << >> /\ index' = index /\ Len(index) \in Nat /\ DOMAIN index = 1 .. Len(index)
    BY <1>1, ProcessTextSets, IndexedTokens
  <2>2. Base' = Len(index)
    BY <2>1 DEF Base
  <2>3. \A k \in DOMAIN index' : ~ (k > Base')
    BY <2>1, <2>2
  <2> QED
    BY <2>1, <2>2, <2>3 DEF Recent
<1>2. CASE TakesToken
  <2> DEFINE t    == dtk.preparedToken
             last == Len(index) + 1
  <2>1. /\ Len(dout) \in Nat /\ Len(dout') = Len(dout) + 1 /\ t.wordPos = Len(dout)
        /\ t.fileId = dtk.fileId /\ dtk'.fileId = dtk.fileId /\ offset' = offset
    BY <1>2 DEF TakesToken
  <2>2. /\ Len(index') = Len(index) + 1 /\ Len(index) \in Nat
        /\ DOMAIN index' = DOMAIN index \cup {last}
        /\ index'[last] = t /\ origin'[last] = offset
    BY <1>2, TokenAdded
  <2>3. Base' = Base /\ Base \in Nat /\ Len(dout) = last - 1 - Base
    BY <2>1, <2>2 DEF Base, Recent
  <2>4. ASSUME NEW k \in DOMAIN index', k > Base
        PROVE  /\ index'[k].fileId = dtk.fileId /\ origin'[k] = offset
               /\ index'[k].wordPos = k - 1 - Base
    <3>1. CASE k \in DOMAIN index
      <4>1. index'[k] = index[k] /\ origin'[k] = origin[k]
        BY <1>2, <3>1, TokenAdded
      <4> QED
        BY <2>4, <3>1, <4>1 DEF Recent
    <3>2. CASE k = last
      BY <2>1, <2>2, <2>3, <3>2
    <3> QED
      BY <2>2, <3>1, <3>2
  <2> QED
    BY <2>1, <2>3, <2>4 DEF Recent
<1>3. CASE DataStep
  BY <1>3 DEF DataStep, Recent, Base, data
<1> QED
  BY <1>1, <1>2, <1>3, OtherSteps

LEMMA EarlierStep ==
  ASSUME Machines, Pending, Indexed, offset \in Nat, Recent, Earlier, Coming, [Next]_vars
  PROVE  Earlier'
<1>1. CASE ProcessText
  <2>1. /\ index' = index /\ origin' = origin /\ dtk'.fileId = Head(chunks).fileId
        /\ offset' = Head(chunks).offset /\ chunks # << >>
    BY <1>1, ProcessTextSets
  <2>2. 1 \in DOMAIN chunks /\ chunks[1] = Head(chunks)
    BY <2>1, PendingHead
  <2> QED
    BY <2>1, <2>2 DEF Earlier, Coming
<1>2. CASE TakesToken
  <2>1. Base' = Base /\ Base <= Len(index) /\ Base \in Nat
    <3>1. Len(dout) \in Nat /\ Len(dout') = Len(dout) + 1
      BY <1>2 DEF TakesToken
    <3>2. Len(index') = Len(index) + 1 /\ Len(index) \in Nat
      BY <1>2, TokenAdded
    <3> QED
      BY <3>1, <3>2 DEF Base, Recent
  <2>2. ASSUME NEW k \in DOMAIN index', k <= Base, index'[k].fileId = dtk.fileId
        PROVE  origin'[k] < offset
    <3>1. k \in DOMAIN index
      <4>1. DOMAIN index' = DOMAIN index \cup {Len(index) + 1} /\ Len(index) \in Nat
        BY <1>2, TokenAdded
      <4> QED
        BY <2>1, <2>2, <4>1
    <3>2. index'[k] = index[k] /\ origin'[k] = origin[k]
      BY <1>2, <3>1, TokenAdded
    <3> QED
      BY <2>2, <3>1, <3>2 DEF Earlier
  <2> QED
    BY <1>2, <2>1, <2>2 DEF Earlier, TakesToken
<1>3. CASE DataStep
  BY <1>3 DEF DataStep, Earlier, Base, data
<1> QED
  BY <1>1, <1>2, <1>3, OtherSteps

LEMMA ComingStep ==
  ASSUME Machines, Pending, Indexed, offset \in Nat, Coming, [Next]_vars
  PROVE  Coming'
<1>0. offset \in Nat
  OBVIOUS
<1>1. CASE ProcessText
  <2>1. /\ index' = index /\ origin' = origin /\ dtk'.fileId = Head(chunks).fileId
        /\ dtk'.text = Head(chunks).text
        /\ offset' = Head(chunks).offset /\ chunks # << >> /\ chunks' = Tail(chunks)
    BY <1>1, ProcessTextSets
  <2>2. 1 \in DOMAIN chunks /\ chunks[1] = Head(chunks)
    BY <2>1, PendingHead
  <2>3. ASSUME NEW c \in DOMAIN chunks'
        PROVE  /\ \A k \in DOMAIN index' :
                    index'[k].fileId = chunks'[c].fileId => origin'[k] < chunks'[c].offset
               /\ chunks'[c].fileId = dtk'.fileId => offset' + Len(dtk'.text) <= chunks'[c].offset
    <3> DEFINE n == c + 1
    <3>1. n \in DOMAIN chunks /\ 1 < n /\ chunks'[c] = chunks[n]
      BY <2>1, PendingTail
    <3> HIDE DEF n
    <3>2. \A k \in DOMAIN index : index[k].fileId = chunks[n].fileId => origin[k] < chunks[n].offset
      BY <3>1 DEF Coming
    <3>3. chunks[1].fileId = chunks[n].fileId =>
            chunks[1].offset + Len(chunks[1].text) <= chunks[n].offset
      BY <2>2, <3>1 DEF Pending
    <3> QED
      BY <2>1, <2>2, <3>1, <3>2, <3>3
  <2> QED
    BY <2>3 DEF Coming
<1>2. CASE TakesToken
  <2> DEFINE t    == dtk.preparedToken
             last == Len(index) + 1
  <2>1. /\ t.fileId = dtk.fileId /\ dtk'.fileId = dtk.fileId /\ dtk'.text = dtk.text
        /\ offset' = offset /\ chunks' = chunks /\ t \in DataP!Token /\ t.pos < Len(dtk.text)
    BY <1>2 DEF TakesToken
  <2>2. DOMAIN index' = DOMAIN index \cup {last} /\ index'[last] = t /\ origin'[last] = offset
    BY <1>2, TokenAdded
  <2>3. Len(dtk.text) \in Nat /\ 0 < Len(dtk.text)
    <3>1. dtk.text \in Seq(STRING)
      BY DataP!OutTyped DEF Machines
    <3>2. t.pos \in Nat
      BY <2>1 DEF DataP!Token
    <3> QED
      BY <2>1, <3>1, <3>2
  <2>4. ASSUME NEW c \in DOMAIN chunks, NEW k \in DOMAIN index', index'[k].fileId = chunks[c].fileId
        PROVE  origin'[k] < chunks[c].offset
    <3>1. CASE k \in DOMAIN index
      <4>1. index'[k] = index[k] /\ origin'[k] = origin[k]
        BY <1>2, <3>1, TokenAdded
      <4> QED
        BY <2>4, <3>1, <4>1 DEF Coming
    <3>2. CASE k = last
      <4>1. offset + Len(dtk.text) <= chunks[c].offset
        BY <2>1, <2>2, <2>4, <3>2 DEF Coming
      <4>2. chunks[c] \in Chunk
        BY DEF Pending
      <4>3. chunks[c].offset \in Nat
        BY <4>2 DEF Chunk
      <4> QED
        BY <1>0, <2>2, <2>3, <3>2, <4>1, <4>3
    <3> QED
      BY <2>2, <3>1, <3>2
  <2> QED
    BY <2>1, <2>4 DEF Coming
<1>3. CASE DataStep
  BY <1>3 DEF DataStep, Coming, data
<1> QED
  BY <1>1, <1>2, <1>3, OtherSteps

LEMMA ApartStep ==
  ASSUME Machines, Pending, Indexed, offset \in Nat, Recent, Earlier, Apart, [Next]_vars
  PROVE  Apart'
<1>1. CASE ProcessText
  BY <1>1, ProcessTextSets DEF Apart
<1>2. CASE TakesToken
  <2> DEFINE t    == dtk.preparedToken
             last == Len(index) + 1
  <2>1. /\ t.fileId = dtk.fileId /\ t.wordPos = Len(dout) /\ Len(dout) \in Nat
        /\ t \in DataP!Token
    BY <1>2 DEF TakesToken
  <2>2. /\ DOMAIN index' = DOMAIN index \cup {last} /\ Len(index) \in Nat
        /\ index'[last] = t /\ origin'[last] = offset
    BY <1>2, TokenAdded
  <2>3. \A k \in DOMAIN index :
          index'[k] = index[k] /\ origin'[k] = origin[k] /\ k <= Len(index) /\ k \in Nat
    BY <1>2, TokenAdded
  <2>4. Base \in Nat /\ Len(dout) = last - 1 - Base
    BY <2>1, <2>2 DEF Base, Recent
  <2>5. \A k \in DOMAIN index : index[k].wordPos \in Nat /\ origin[k] \in Nat
    BY IndexedTokens
  <2>6. ASSUME NEW k \in DOMAIN index, index[k].fileId = t.fileId, origin[k] = offset
        PROVE  t.wordPos - index[k].wordPos = last - k /\ index[k].wordPos - t.wordPos = k - last
    <3>1. ~ (k <= Base)
      BY <2>1, <2>5, <2>6 DEF Earlier
    <3>2. index[k].wordPos = k - 1 - Base /\ k \in Nat
      BY <2>3, <2>4, <3>1 DEF Recent
    <3> QED
      BY <2>1, <2>2, <2>4, <3>2
  <2>7. ASSUME NEW k \in DOMAIN index', NEW n \in DOMAIN index',
               index'[k].fileId = index'[n].fileId, origin'[k] = origin'[n]
        PROVE  index'[n].wordPos - index'[k].wordPos = n - k
    <3>1. CASE k \in DOMAIN index /\ n \in DOMAIN index
      BY <2>3, <2>7, <3>1 DEF Apart
    <3>2. CASE k \in DOMAIN index /\ n = last
      BY <2>2, <2>3, <2>6, <2>7, <3>2
    <3>3. CASE k = last /\ n \in DOMAIN index
      BY <2>2, <2>3, <2>6, <2>7, <3>3
    <3>4. CASE k = last /\ n = last
      BY <2>1, <2>2, <3>4
    <3> QED
      BY <2>2, <3>1, <3>2, <3>3, <3>4
  <2> QED
    BY <2>7 DEF Apart
<1>3. CASE DataStep
  BY <1>3 DEF DataStep, Apart
<1> QED
  BY <1>1, <1>2, <1>3, OtherSteps


LEMMA StoredStep ==
  ASSUME Machines, Pending, Indexed, Stored, [Next]_vars
  PROVE  Stored'
<1>0. dtk.text \in Seq(STRING) /\ dtk.fileId \in Nat
  BY DataP!OutTyped DEF Machines
<1>1. CASE ProcessText
  <2> DEFINE id      == Head(chunks).fileId
             text    == Head(chunks).text
             written == IF id \in DOMAIN contents THEN contents[id] ELSE << >>
             whole   == written \o text
  <2>1. contents' = [i \in DOMAIN contents \cup {id} |-> IF i = id THEN whole ELSE contents[i]]
    BY <1>1, Zenon DEF ProcessText
  <2>2. /\ index' = index /\ offset' = Head(chunks).offset /\ dtk'.text = text /\ dtk'.fileId = id
        /\ chunks # << >>
    BY <1>1, ProcessTextSets
  <2>3. text \in Seq(STRING) /\ Head(chunks).offset \in Nat
    BY <2>2, PendingHead
  <2>4. written \in Seq(STRING) /\ (id \in DOMAIN contents => written = contents[id])
    <3>1. CASE id \in DOMAIN contents
      <4>1. contents[id] \in Seq(STRING)
        BY <3>1 DEF Stored
      <4> QED
        BY <3>1, <4>1
    <3>2. CASE id \notin DOMAIN contents
      <4>1. written = << >>
        BY <3>2
      <4> HIDE DEF written
      <4> QED
        BY <3>2, <4>1
    <3> QED
      BY <3>1, <3>2
  <2> HIDE DEF text, written
  <2>5. whole \in Seq(STRING) /\ Len(text) <= Len(whole) /\ Len(written) <= Len(whole)
        /\ Len(written) \in Nat /\ Len(whole) \in Nat
    BY <2>3, <2>4
  <2> HIDE DEF whole, id
  <2>6. DOMAIN contents' = DOMAIN contents \cup {id} /\ contents'[id] = whole
    BY <2>1
  <2>7. \A i \in DOMAIN contents : i # id => contents'[i] = contents[i]
    BY <2>1
  <2>8. \A i \in DOMAIN contents' : contents'[i] \in Seq(STRING)
    BY <2>5, <2>6, <2>7 DEF Stored
  <2>9. ASSUME NEW k \in DOMAIN index
        PROVE  /\ index[k].fileId \in DOMAIN contents'
               /\ index[k].pos < Len(contents'[index[k].fileId])
    <3>1. /\ index[k].fileId \in DOMAIN contents
          /\ index[k].pos < Len(contents[index[k].fileId])
      BY DEF Stored
    <3>2. index[k].pos \in Nat
      BY IndexedTokens
    <3>3. CASE index[k].fileId = id
      <4>1. index[k].pos < Len(written)
        BY <2>4, <3>1, <3>3
      <4>2. index[k].pos < Len(whole)
        BY <2>5, <3>2, <4>1
      <4> QED
        BY <2>6, <3>3, <4>2
    <3>4. CASE index[k].fileId # id
      BY <2>6, <2>7, <3>1, <3>4
    <3> QED
      BY <3>3, <3>4
  <2>10. id \in DOMAIN contents' /\ Len(text) <= Len(contents'[id])
    BY <2>5, <2>6
  <2> QED
    BY <2>2, <2>3, <2>8, <2>9, <2>10 DEF Stored
<1>2. CASE TakesToken
  <2> DEFINE t    == dtk.preparedToken
             last == Len(index) + 1
  <2>1. /\ t.fileId = dtk.fileId /\ t.pos < Len(dtk.text) /\ t \in DataP!Token
        /\ dtk'.text = dtk.text /\ dtk'.fileId = dtk.fileId /\ dpc # "rest"
        /\ offset' = offset /\ contents' = contents
    BY <1>2 DEF TakesToken
  <2>2. DOMAIN index' = DOMAIN index \cup {last} /\ index'[last] = t
    BY <1>2, TokenAdded DEF Stored
  <2>3. \A k \in DOMAIN index : index'[k] = index[k]
    BY <1>2, TokenAdded DEF Stored
  <2>4. /\ dtk.fileId \in DOMAIN contents /\ Len(dtk.text) <= Len(contents[dtk.fileId])
        /\ contents[dtk.fileId] \in Seq(STRING)
    BY <2>1 DEF Stored
  <2>5. t.pos < Len(contents[dtk.fileId])
    <3>1. t.pos \in Nat /\ Len(dtk.text) \in Nat /\ Len(contents[dtk.fileId]) \in Nat
      BY <1>0, <2>1, <2>4 DEF DataP!Token
    <3> QED
      BY <2>1, <2>4, <3>1
  <2> HIDE DEF t, last
  <2>6. ASSUME NEW k \in DOMAIN index'
        PROVE  /\ index'[k].fileId \in DOMAIN contents
               /\ index'[k].pos < Len(contents[index'[k].fileId])
    <3>1. CASE k \in DOMAIN index
      BY <2>3, <3>1 DEF Stored
    <3>2. CASE k = last
      BY <2>1, <2>2, <2>4, <2>5, <3>2
    <3> QED
      BY <2>2, <3>1, <3>2
  <2> QED
    BY <2>1, <2>4, <2>6 DEF Stored
<1>3. CASE DataStep
  BY <1>3 DEF DataStep, Stored, data
<1> QED
  BY <1>1, <1>2, <1>3, OtherSteps DEF Stored

\* What FileStorage::read puts into the buffer are bytes.
LEMMA ReadText ==
  ASSUME NEW buf \in Seq(STRING), NEW text \in Seq(STRING), NEW n \in Nat, NEW start \in Nat
  PROVE  /\ Read(buf, n, text, start) \in Seq(STRING)
         /\ Len(Read(buf, n, text, start)) = n + 1
<1> DEFINE left      == Len(text) - start
           bytesRead == IF left < n THEN left ELSE n
           byte(k)   == IF k <= bytesRead THEN text[start + k]
                        ELSE IF k <= Len(buf) THEN buf[k] ELSE Nul
           read      == [k \in 1 .. n + 1 |-> byte(k)]
<1>1. Read(buf, n, text, start) = read
  BY Zenon DEF Read
<1>2. Len(text) \in Nat /\ Len(buf) \in Nat
  OBVIOUS
<1>3. ASSUME NEW k \in 1 .. n + 1 PROVE byte(k) \in STRING
  <2>1. CASE k <= bytesRead
    <3>1. start + k \in 1 .. Len(text)
      BY <1>2, <2>1
    <3>2. text[start + k] \in STRING
      BY <3>1
    <3> QED
      BY <2>1, <3>2
  <2>2. CASE ~ (k <= bytesRead)
    <3>1. k <= Len(buf) => k \in 1 .. Len(buf)
      BY <1>2
    <3>2. k <= Len(buf) => buf[k] \in STRING
      BY <3>1
    <3>3. Nul \in STRING
      BY SearchAssumption
    <3> HIDE DEF bytesRead
    <3>4. byte(k) = IF k <= Len(buf) THEN buf[k] ELSE Nul
      BY <2>2
    <3> QED
      BY <3>2, <3>3, <3>4
  <2> QED
    BY <2>1, <2>2
<1> HIDE DEF byte
<1>4. read \in Seq(STRING) /\ Len(read) = n + 1
  BY <1>3
<1> QED
  BY <1>1, <1>4

\* Numbers that ShowContext counts with.
LEMMA WindowTyped ==
  ASSUME Machines, Indexed, posMap \subseteq DOMAIN index
  PROVE  /\ Symbols \in Nat \ {0} /\ WindowSize \in Nat
         /\ \A id \in Files :
              /\ FirstIn(id) \in posMap /\ index[FirstIn(id)].fileId = id
              /\ index[FirstIn(id)].pos \in Nat
              /\ WindowStart(id) \in Nat /\ WindowStart(id) <= index[FirstIn(id)].pos
<1>1. Symbols \in Nat \ {0}
  <2> DEFINE a == IF ContextSymbols = 0 THEN 1 ELSE ContextSymbols
             b == IF IsRussian(Bodies[1]) THEN 2 ELSE 1
  <2>0. ContextSymbols \in Nat
    BY SearchAssumption
  <2>1. a \in Nat \ {0} /\ b \in {1, 2}
    BY <2>0
  <2> HIDE DEF a, b
  <2>2. a * b \in Nat \ {0}
    BY <2>1
  <2> QED
    BY <2>2 DEF Symbols, a, b
<1>2. Len(qtk.text) \in Nat
  <2>1. qtk.text \in Seq(STRING)
    BY QueryP!OutTyped DEF Machines
  <2> QED
    BY <2>1
<1>3. WindowSize \in Nat
  <2> DEFINE a == Symbols
             b == Len(qtk.text)
  <2>1. WindowSize = a * 2 + b
    BY DEF WindowSize, ContextSize
  <2> HIDE DEF a, b
  <2> QED
    <3>1. a \in Nat /\ b \in Nat
      BY <1>1, <1>2 DEF a, b
    <3> QED
      BY <2>1, <3>1
<1>4. ASSUME NEW id \in Files
      PROVE  /\ FirstIn(id) \in posMap /\ index[FirstIn(id)].fileId = id
             /\ index[FirstIn(id)].pos \in Nat
             /\ WindowStart(id) \in Nat /\ WindowStart(id) <= index[FirstIn(id)].pos
  <2> DEFINE S == {k \in posMap : index[k].fileId = id}
  <2>1. S # {} /\ S \subseteq posMap
    BY DEF Files
  <2>2. S \subseteq Nat
    BY <2>1, IndexedTokens
  <2>3. First(S) \in S
    <3> HIDE DEF S
    <3> QED
      BY <2>1, <2>2, FirstIsLeast
  <2>4. FirstIn(id) \in posMap /\ index[FirstIn(id)].fileId = id
    BY <2>3 DEF FirstIn
  <2>5. index[FirstIn(id)].pos \in Nat
    BY <2>4, IndexedTokens
  <2> DEFINE p == index[FirstIn(id)].pos
  <2>6. WindowStart(id) = IF p >= Symbols THEN p - Symbols ELSE 0
    BY DEF WindowStart, ContextStart
  <2> HIDE DEF p
  <2>7. p \in Nat
    BY <2>5 DEF p
  <2>8. WindowStart(id) \in Nat /\ WindowStart(id) <= p
    BY <1>1, <2>6, <2>7
  <2> QED
    BY <2>4, <2>5, <2>8 DEF p
<1> QED
  BY <1>1, <1>3, <1>4

LEMMA ResultsStep ==
  ASSUME Machines, Pending, Calls, Indexed, Stored, Results, [Next]_vars
  PROVE  Results'
<1>0. posMap \subseteq DOMAIN index /\ DOMAIN shown \subseteq Files /\ buffer \in Seq(STRING)
  BY DEF Results
<1>1. CASE posMap' = {} /\ buffer' = << >> /\ shown' = NoTexts
  <2>1. DOMAIN shown' = {}
    BY <1>1 DEF NoTexts
  <2> QED
    BY <1>1, <2>1 DEF Results, Files
<1>2. CASE UNCHANGED <<index, posMap, shown, buffer>> /\ (stage' = stage \/ stage' # "query")
  BY <1>2 DEF Results, Files
<1>3. CASE AddToken
  <2>1. TakesToken /\ stage' = stage /\ UNCHANGED <<posMap, shown, buffer>>
    BY <1>3, AddTokenTakes DEF AddToken, shows
  <2>2. \A k \in posMap : k \in DOMAIN index' /\ index'[k] = index[k]
    BY <1>0, <2>1, TokenAdded DEF Stored
  <2>3. Files' = Files
    BY <2>1, <2>2 DEF Files
  <2> QED
    BY <2>1, <2>2, <2>3 DEF Results
<1>4. CASE Return
  <2>1. DOMAIN shown = {}
    BY <1>4 DEF Return, Results, Files
  <2>2. posMap' \subseteq DOMAIN index
    BY <1>4, PhrasePositionsByWalk DEF Return, Of
  <2> QED
    BY <1>4, <2>1, <2>2 DEF Results, Return, shows
<1>5. ASSUME NEW id \in Files, ShowContext(id) PROVE Results'
  <2> DEFINE start == WindowStart(id)
  <2>1. /\ DOMAIN shown' = DOMAIN shown \cup {id} /\ UNCHANGED <<index, posMap, stage>>
        /\ buffer' = Read(buffer, WindowSize, contents[id], start)
    BY <1>5 DEF ShowContext
  <2>2. contents[id] \in Seq(STRING) /\ start \in Nat /\ WindowSize \in Nat
    BY <1>0, WindowTyped DEF Stored, Files
  <2>3. buffer' \in Seq(STRING)
    BY <1>0, <2>1, <2>2, ReadText
  <2> QED
    BY <2>1, <2>3 DEF Results, Files
<1>6. CASE ProcessText
  BY <1>1, <1>6 DEF ProcessText
<1>7. CASE ProcessStep
  BY <1>2, <1>7 DEF ProcessStep, shows
<1>8. CASE \E text \in Queries : Find(text) \/ FindRejected(text)
  BY <1>1, <1>8 DEF Find, FindRejected
<1>9. CASE QueryStep \/ QueryThrows \/ UNCHANGED vars
  BY <1>2, <1>9 DEF QueryStep, QueryThrows, vars, shows
<1> QED
  BY <1>3, <1>4, <1>5, <1>6, <1>7, <1>8, <1>9 DEF Next

\* What is done while the results of a search may be shown.
LEMMA WhileFound ==
  ASSUME Calls, stage = "found", stage' = "found", [Next]_vars
  PROVE  \/ \E id \in Files : ShowContext(id)
         \/ UNCHANGED <<index, qtk, qout, origin, posMap, contents, shown, buffer>>
<1>1. dpc = "rest" /\ qpc = "rest"
  BY DEF Calls
<1>2. ~ProcessText /\ ~Return
  BY DEF ProcessText, Return
<1>3. ~ProcessStep /\ ~AddToken
  BY <1>1 DEF ProcessStep, AddToken, Data!HasNext, Data!PrepareNext, Data!FilterThrows,
              Data!ScanEnds, Data!Next
<1>4. ~QueryStep /\ ~QueryThrows
  BY <1>1 DEF QueryStep, QueryThrows, Query!HasNext, Query!PrepareNext, Query!FilterThrows,
              Query!ScanEnds, Query!Next
<1>5. \A text : ~Find(text) /\ ~FindRejected(text)
  BY DEF Find, FindRejected
<1>6. CASE UNCHANGED vars
  BY <1>6 DEF vars, query, shows
<1> QED
  BY <1>2, <1>3, <1>4, <1>5, <1>6 DEF Next

\* Search::getPhrasePositions: a result is what PhrasesExact says, and stays so while
\* nothing but contexts is asked for.
LEMMA PhrasesStep ==
  ASSUME Machines, Pending, Calls, Indexed, Apart, PhrasesExact, [Next]_vars
  PROVE  PhrasesExact'
<1>0. qout \in Seq(QueryP!Token)
  BY QueryP!OutTyped DEF Machines
<1>1. CASE Return
  <2>1. /\ posMap' = IF qout = << >> THEN {} ELSE GetPhrasePositions(Bodies)
        /\ UNCHANGED <<index, qout, origin>>
    BY <1>1 DEF Return, query
  <2>2. UNCHANGED <<Bodies, InOneChunk>> /\ \A k : Stands(k)' <=> Stands(k)
    BY <2>1 DEF Bodies, InOneChunk, Stands
  <2> DEFINE bodies   == Bodies
             standing == {k \in DOMAIN index : Stands(k)}
  <2>3. bodies = [k \in 1 .. Len(qout) |-> qout[k].body] /\ Len(qout) \in Nat
    BY <1>0 DEF Bodies
  <2>4. Len(bodies) = Len(qout) /\ DOMAIN bodies = 1 .. Len(bodies) /\ Len(bodies) \in Nat
    BY <2>3
  <2>5. ASSUME Bodies # << >>
        PROVE  standing \subseteq posMap' /\ (InOneChunk => posMap' = standing)
    <3>1. qout # << >> /\ Len(bodies) \in Nat \ {0}
      BY <1>0, <2>3, <2>4, <2>5
    <3>2. posMap' = GetPhrasePositions(bodies)
      BY <2>1, <3>1
    <3>3. \A k \in standing : k \in GetPhrasePositions(bodies)
      BY <2>4, <3>1, StandingIsFound
    <3>4. InOneChunk => \A k \in GetPhrasePositions(bodies) : k \in standing
      BY <2>4, <3>1, FoundIsStanding
    <3> HIDE DEF standing, bodies
    <3> QED
      BY <3>2, <3>3, <3>4
  <2> QED
    BY <2>1, <2>2, <2>5 DEF PhrasesExact
<1>2. CASE stage' # "found"
  BY <1>2 DEF PhrasesExact
<1>3. CASE stage' = stage /\ stage = "found" /\ ~Return
  <2>2. UNCHANGED <<index, qout, origin, posMap>>
    BY <1>3, WhileFound DEF ShowContext, query
  <2>3. UNCHANGED <<Bodies, InOneChunk>> /\ \A k : Stands(k)' <=> Stands(k)
    BY <2>2 DEF Bodies, InOneChunk, Stands
  <2> QED
    BY <1>3, <2>2, <2>3 DEF PhrasesExact
<1>4. stage' # stage /\ stage' = "found" => Return
  BY DEF Next, vars, ProcessText, ProcessStep, AddToken, Find, FindRejected, QueryStep,
         QueryThrows, ShowContext
<1> QED
  BY <1>1, <1>2, <1>3, <1>4


-----------------------------------------------------------------------------
\* returnResultInContext.  The bytes between two blanks of what was read.
LEMMA LastIsGreatest ==
  ASSUME NEW n \in Nat, NEW S, S \subseteq 1 .. n, S # {}
  PROVE  Last(S) \in S /\ \A m \in S : m <= Last(S)
<1> DEFINE T == {k \in 0 .. n : n - k \in S}
           l == n - First(T)
<1>1. T \subseteq Nat /\ T # {}
  <2>1. PICK m \in S : TRUE
    OBVIOUS
  <2> DEFINE k == n - m
  <2>2. k \in 0 .. n /\ n - k = m
    OBVIOUS
  <2> HIDE DEF k
  <2>3. k \in T
    BY <2>2
  <2> QED
    BY <2>3
<1>2. First(T) \in T /\ \A k \in T : First(T) <= k
  <2> HIDE DEF T
  <2> QED
    BY <1>1, FirstIsLeast
<1>3. l \in S
  BY <1>2
<1>4. ASSUME NEW m \in S PROVE m <= l
  <2> DEFINE k == n - m
  <2>1. k \in 0 .. n /\ n - k = m
    OBVIOUS
  <2> HIDE DEF k
  <2>2. k \in T
    BY <2>1
  <2>3. First(T) \in 0 .. n /\ First(T) <= k
    BY <1>2, <2>2
  <2> QED
    BY <2>1, <2>3
<1> HIDE DEF l
<1>5. \E x \in S : \A m \in S : m <= x
  BY <1>3, <1>4
<1> QED
  BY <1>5 DEF Last

Space == " "
Byte  == STRING \cup {Space}
LEMMA BlanksAreSpaces ==
  ASSUME NEW ctx \in Seq(Byte)
  PROVE  /\ Blanks(ctx) \subseteq 1 .. Len(ctx)
         /\ \A k \in 1 .. Len(ctx) : k \in Blanks(ctx) <=> ctx[k] = Space
<1>1. DOMAIN ctx = 1 .. Len(ctx)
  OBVIOUS
<1>2. Blanks(ctx) = {k \in DOMAIN ctx : ctx[k] = Space}
  BY Zenon DEF Blanks, Space
<1> QED
  BY <1>1, <1>2

LEMMA NulIsByte == Nul \in STRING /\ Nul # Space
<1>1. Nul \in STRING
  BY SearchAssumption
<1>2. Nul # " "
  BY SearchAssumption, Zenon
<1> QED
  BY <1>1, <1>2, Zenon DEF Space

LEMMA TrimmedBetween ==
  ASSUME NEW ctx \in Seq(Byte), NEW x \in Blanks(ctx), NEW y \in Blanks(ctx), x < y
  PROVE  \E f \in Blanks(ctx), l \in Blanks(ctx) :
           f <= x /\ y <= l /\ TrimContext(ctx) = SubSeq(ctx, f + 1, l - 1)
<1> DEFINE S    == Blanks(ctx)
           size == Len(ctx)
           f    == First(S)
           l    == Last(S)
<1>1. S \subseteq 1 .. size /\ size \in Nat /\ S # {} /\ S \subseteq Nat
  BY BlanksAreSpaces
<1>2. x \in S /\ y \in S
  OBVIOUS
<1>3. TrimContext(ctx) =
        LET first == f - 1
            end   == l - 1
            start == IF first + 1 < size THEN first + 1 ELSE first
        IN  SubSeq(ctx, start + 1, IF end < start THEN size ELSE end)
  <2> HIDE DEF S, f, l, size
  <2>1. ~ (S = {})
    BY <1>1
  <2> QED
    BY <2>1 DEF TrimContext, S, f, l, size
<1> HIDE DEF S
<1>4. f \in S /\ f <= x
  BY <1>1, <1>2, FirstIsLeast
<1>5. l \in S /\ y <= l
  BY <1>1, <1>2, LastIsGreatest
<1> HIDE DEF f, l, size
<1>6. f - 1 + 1 < size /\ ~ (l - 1 < f - 1 + 1) /\ f - 1 + 1 + 1 = f + 1
  BY <1>1, <1>2, <1>4, <1>5
<1>7. TrimContext(ctx) = SubSeq(ctx, f + 1, l - 1)
  BY <1>3, <1>6
<1> QED
  BY <1>4, <1>5, <1>7 DEF S

LEMMA BytesBetween ==
  ASSUME NEW s \in Seq(Byte), NEW lo \in 1 .. Len(s) + 1, NEW hi \in lo - 1 .. Len(s)
  PROVE  /\ SubSeq(s, lo, hi) \in Seq(Byte) /\ Len(SubSeq(s, lo, hi)) = hi - lo + 1
         /\ \A i \in 1 .. hi - lo + 1 : SubSeq(s, lo, hi)[i] = s[lo + i - 1]
  OBVIOUS

LEMMA SameBytes ==
  ASSUME NEW s \in Seq(Byte), NEW t \in Seq(Byte), NEW n \in 0 .. Len(s), NEW a \in Nat \ {0},
         NEW b \in 0 .. Len(t), b - a + 1 = n, \A i \in 1 .. n : s[i] = t[a + i - 1]
  PROVE  SubSeq(s, 1, n) = SubSeq(t, a, b)
<1>1. SubSeq(s, 1, n) = [i \in 1 .. n |-> s[i]]
  OBVIOUS
<1>2. SubSeq(t, a, b) = [i \in 1 .. n |-> t[a + i - 1]]
  OBVIOUS
<1> QED
  BY <1>1, <1>2

\* What ContextsTrue says of one context: of the bytes shown, of the position of the word in
\* its text, of where the window begins, and of the other files shown.
Truthful(text, start, w, p, context, others) ==
  LET last   == Data!PieceEnd(text, p + 1)
      window == {k \in DOMAIN text : k > start /\ k <= start + w}
  IN  /\ start = 0 \/ \E k \in window : text[k] = Space /\ k <= p
      /\ \E k \in window : text[k] = Space /\ last < k
      => \E a \in 1 .. p + 1, b \in last .. Len(text) :
           /\ a = 1 \/ text[a - 1] = Space
           /\ b = Len(text) \/ text[b + 1] = Space
           /\ IF start + w <= Len(text) \/ others = {} THEN context = SubSeq(text, a, b)
              ELSE SubSeq(context, 1, b - a + 1) = SubSeq(text, a, b)

Window(buf, w, text, start) ==
  IF start = 0 THEN <<Space>> \o Read(buf, w, text, start) ELSE Read(buf, w, text, start)

\* The window in a buffer that holds nothing, or what other files have left and a NUL.
HoldsWindow(ctx, buf, w, text, start, o) ==
  /\ ctx \in Seq(Byte) /\ Len(ctx) = w + 1 + o
  /\ start = 0 => 1 \in Blanks(ctx)
  /\ \A c \in 1 .. w + 1 + o :
       c > o /\ c - o <= w /\ c - o <= Len(text) - start => ctx[c] = text[start + (c - o)]
  /\ \A c \in Blanks(ctx) :
       /\ c - o <= w
       /\ (buf = << >> \/ start + w <= Len(text) => c - o <= Len(text) - start)
LEMMA WindowBytes ==
  ASSUME NEW buf \in Seq(STRING), NEW text \in Seq(STRING), NEW w \in Nat,
         NEW start \in 0 .. Len(text),
         buf = << >> \/ (Len(buf) = w + 1 /\ buf[w + 1] = Nul),
         NEW o, o = IF start = 0 THEN 1 ELSE 0,
         NEW ctx, ctx = Window(buf, w, text, start)
  PROVE  HoldsWindow(ctx, buf, w, text, start, o)
<1> DEFINE left      == Len(text) - start
           bytesRead == IF left < w THEN left ELSE w
           byte(k)   == IF k <= bytesRead THEN text[start + k]
                        ELSE IF k <= Len(buf) THEN buf[k] ELSE Nul
           read      == Read(buf, w, text, start)
<1>1. read = [k \in 1 .. w + 1 |-> byte(k)]
  BY Zenon DEF Read
<1>2. read \in Seq(STRING) /\ Len(read) = w + 1
  BY ReadText
<1>3. /\ left \in Nat /\ bytesRead \in Nat /\ bytesRead <= left /\ bytesRead <= w
      /\ (left < w => bytesRead = left) /\ (~ (left < w) => bytesRead = w)
  OBVIOUS
<1>4. \A k \in 1 .. w + 1 : read[k] = byte(k)
  BY <1>1
<1> HIDE DEF read, bytesRead, left
<1>5. ASSUME NEW k \in 1 .. w + 1, k <= w, k <= left PROVE read[k] = text[start + k]
  <2>1. k <= bytesRead
    BY <1>3, <1>5
  <2> QED
    BY <1>4, <2>1
<1>6. ASSUME NEW k \in 1 .. w + 1, ~ (k <= left), buf = << >> \/ w <= left PROVE read[k] = Nul
  <2>1. ~ (k <= bytesRead)
    BY <1>3, <1>6
  <2>2. read[k] = IF k <= Len(buf) THEN buf[k] ELSE Nul
    BY <1>4, <2>1
  <2>3. CASE buf = << >>
    <3>1. ~ (k <= Len(buf))
      BY <2>3
    <3> QED
      BY <2>2, <3>1
  <2>4. CASE Len(buf) = w + 1 /\ buf[w + 1] = Nul /\ w <= left
    <3>1. k = w + 1
      BY <1>3, <1>6, <2>4
    <3> QED
      BY <2>2, <2>4, <3>1
  <2> QED
    BY <1>6, <2>3, <2>4
<1>7. o \in {0, 1} /\ (start = 0 <=> o = 1)
  OBVIOUS
<1>8. /\ ctx \in Seq(Byte) /\ Len(ctx) = w + 1 + o
      /\ start = 0 => ctx[1] = Space
      /\ \A c \in 1 .. w + 1 + o : c > o => c - o \in 1 .. w + 1 /\ ctx[c] = read[c - o]
  <2>1. CASE start = 0
    <3>1. ctx = <<Space>> \o read /\ o = 1
      BY <1>7, <2>1 DEF Window, read
    <3>2. <<Space>> \in Seq(Byte) /\ read \in Seq(Byte) /\ Len(<<Space>>) = 1 /\ <<Space>>[1] = Space
      BY <1>2 DEF Byte
    <3>3. ctx \in Seq(Byte) /\ Len(ctx) = 1 + (w + 1) /\ ctx[1] = Space
      BY <1>2, <3>1, <3>2
    <3>4. ASSUME NEW c \in 1 .. w + 1 + 1, c > 1 PROVE c - 1 \in 1 .. w + 1 /\ ctx[c] = read[c - 1]
      BY <1>2, <3>1, <3>2, <3>4
    <3> QED
      BY <3>1, <3>3, <3>4
  <2>2. CASE start # 0
    <3>1. ctx = read /\ o = 0
      BY <1>7, <2>2 DEF Window, read
    <3>2. read \in Seq(Byte)
      BY <1>2 DEF Byte
    <3> QED
      BY <1>2, <2>2, <3>1, <3>2
  <2> QED
    BY <2>1, <2>2
<1> HIDE DEF byte
<1>9. ASSUME NEW c \in 1 .. w + 1 + o, c > o, c - o <= w, c - o <= Len(text) - start
      PROVE  ctx[c] = text[start + (c - o)]
  <2> DEFINE k == c - o
  <2>1. k \in 1 .. w + 1 /\ ctx[c] = read[k] /\ k <= w /\ k <= left
    BY <1>8, <1>9 DEF left
  <2> HIDE DEF k
  <2>2. ctx[c] = text[start + k]
    BY <1>5, <2>1
  <2> QED
    BY <2>2 DEF k
<1>10. ASSUME NEW c \in Blanks(ctx), buf = << >> \/ start + w <= Len(text)
       PROVE  c - o <= Len(text) - start
  <2>1. c \in 1 .. w + 1 + o /\ ctx[c] = Space
    BY <1>8, BlanksAreSpaces
  <2>2. CASE c > o
    <3> DEFINE k == c - o
    <3>1. k \in 1 .. w + 1 /\ read[k] = Space
      BY <1>8, <2>1, <2>2
    <3>2. read[k] # Nul
      BY <3>1, NulIsByte
    <3>3. buf = << >> \/ w <= left
      BY <1>10 DEF left
    <3> HIDE DEF k
    <3>4. k <= left
      BY <1>6, <3>1, <3>2, <3>3
    <3> QED
      BY <3>4 DEF k, left
  <2>3. CASE ~ (c > o)
    <3>1. c - o <= 0
      BY <1>7, <2>1, <2>3
    <3> QED
      BY <1>3, <1>7, <2>1, <3>1 DEF left
  <2> QED
    BY <2>2, <2>3
<1>11. start = 0 => 1 \in Blanks(ctx)
  BY <1>7, <1>8, BlanksAreSpaces
<1>12. read[w + 1] = Nul
  <2>1. w + 1 \in 1 .. w + 1 /\ ~ (w + 1 <= bytesRead)
    BY <1>3
  <2>2. read[w + 1] = IF w + 1 <= Len(buf) THEN buf[w + 1] ELSE Nul
    BY <1>4, <2>1 DEF byte
  <2>3. CASE buf = << >>
    <3>1. ~ (w + 1 <= Len(buf))
      BY <2>3
    <3> QED
      BY <2>2, <3>1
  <2>4. CASE Len(buf) = w + 1 /\ buf[w + 1] = Nul
    BY <2>2, <2>4
  <2> QED
    BY <2>3, <2>4
<1>13. ASSUME NEW c \in Blanks(ctx) PROVE c - o <= w
  <2>1. c \in 1 .. w + 1 + o /\ ctx[c] = Space
    BY <1>8, BlanksAreSpaces
  <2>2. ASSUME c - o = w + 1 PROVE FALSE
    <3>1. c > o
      BY <1>7, <2>1, <2>2
    <3>2. ctx[c] = read[w + 1]
      BY <1>8, <2>1, <2>2, <3>1
    <3> QED
      BY <1>12, <2>1, <3>2, NulIsByte
  <2> QED
    BY <1>7, <2>1, <2>2
<1> QED
  BY <1>8, <1>9, <1>10, <1>11, <1>13 DEF HoldsWindow

LEMMA ShownIsTrue ==
  ASSUME NEW buf \in Seq(STRING), NEW text \in Seq(STRING), NEW w \in Nat, NEW p \in Nat,
         p < Len(text), NEW start \in 0 .. p,
         buf = << >> \/ (Len(buf) = w + 1 /\ buf[w + 1] = Nul),
         NEW others, others = {} => buf = << >>
  PROVE  Truthful(text, start, w, p, TrimContext(Window(buf, w, text, start)), others)
<1> DEFINE size    == Len(text)
           o       == IF start = 0 THEN 1 ELSE 0
           ctx     == Window(buf, w, text, start)
           last    == Data!PieceEnd(text, p + 1)
           window  == {k \in DOMAIN text : k > start /\ k <= start + w}
           shorter == start + w <= size \/ others = {}
           context == TrimContext(ctx)
<1>1. size \in Nat /\ DOMAIN text = 1 .. size /\ p < size /\ start \in Nat /\ start <= p
      /\ text \in Seq(Byte)
  BY DEF Byte
<1>2. last \in p + 1 .. size
  <2> DEFINE k == p + 1
  <2>1. k \in DOMAIN text
    BY <1>1
  <2> HIDE DEF k
  <2>2. DataP!PieceEnd(text, k) \in k .. Len(text)
    BY <2>1, TokenizerHypotheses, DataP!PieceEndShape
  <2> QED
    BY <2>2, DataOperators DEF k
<1>3. /\ ctx \in Seq(Byte) /\ Len(ctx) = w + 1 + o
      /\ start = 0 => 1 \in Blanks(ctx)
      /\ \A c \in 1 .. w + 1 + o :
           c > o /\ c - o <= w /\ c - o <= size - start => ctx[c] = text[start + (c - o)]
      /\ \A c \in Blanks(ctx) :
           /\ c - o <= w
           /\ (buf = << >> \/ start + w <= size => c - o <= size - start)
  <2>1. start \in 0 .. Len(text)
    BY <1>1
  <2>2. o = IF start = 0 THEN 1 ELSE 0
    OBVIOUS
  <2>3. ctx = Window(buf, w, text, start)
    OBVIOUS
  <2> HIDE DEF ctx, o
  <2>4. HoldsWindow(ctx, buf, w, text, start, o)
    BY <2>1, <2>2, <2>3, WindowBytes
  <2> QED
    BY <2>4 DEF HoldsWindow
<1>4. o \in {0, 1} /\ (start = 0 <=> o = 1)
  BY <1>1
<1>5. shorter => (buf = << >> \/ start + w <= size)
  OBVIOUS
<1> HIDE DEF ctx, o, last, shorter, size
<1>6. SUFFICES ASSUME start = 0 \/ \E k \in window : text[k] = Space /\ k <= p,
                      NEW y \in window, text[y] = Space, last < y
               PROVE  \E a \in 1 .. p + 1, b \in last .. size :
                        /\ a = 1 \/ text[a - 1] = Space
                        /\ b = size \/ text[b + 1] = Space
                        /\ IF shorter THEN context = SubSeq(text, a, b)
                           ELSE SubSeq(context, 1, b - a + 1) = SubSeq(text, a, b)
  BY Zenon DEF Truthful, ctx, last, shorter, size
<1>7. ASSUME NEW k \in window, text[k] = Space
      PROVE  /\ k - start + o \in Blanks(ctx) /\ k \in 1 .. size
             /\ start < k /\ k <= start + w
  <2> DEFINE c == k - start + o
  <2>1. k \in 1 .. size /\ start < k /\ k <= start + w
    BY <1>1, <1>7
  <2>2. c \in 1 .. w + 1 + o /\ c > o /\ c - o <= w /\ c - o <= size - start /\ start + (c - o) = k
    BY <1>1, <1>4, <2>1
  <2> HIDE DEF c
  <2>3. ctx[c] = Space
    BY <1>3, <1>7, <2>2
  <2>4. c \in Blanks(ctx)
    BY <1>3, <2>2, <2>3, BlanksAreSpaces
  <2> QED
    BY <2>1, <2>4 DEF c
<1> DEFINE cy == y - start + o
<1>8. cy \in Blanks(ctx) /\ y \in 1 .. size /\ start < y /\ y <= start + w
  BY <1>6, <1>7
<1>9. PICK x \in Blanks(ctx) : x < cy /\ x \in Nat /\ start + x - o <= p
                              /\ (start = 0 => x = 1)
  <2>1. CASE start = 0
    <3>1. 1 \in Blanks(ctx) /\ o = 1
      BY <1>3, <1>4, <2>1
    <3>2. 1 < cy /\ start + 1 - o <= p
      BY <1>1, <1>8, <2>1, <3>1
    <3> QED
      BY <3>1, <3>2
  <2>2. CASE start # 0
    <3>1. PICK k \in window : text[k] = Space /\ k <= p
      BY <1>6, <2>2
    <3> DEFINE x == k - start + o
    <3>2. x \in Blanks(ctx) /\ k \in 1 .. size /\ start < k
      BY <1>7, <3>1
    <3>3. k < y
      BY <1>1, <1>2, <1>6, <1>8, <3>1, <3>2
    <3>4. x < cy /\ x \in Nat /\ start + x - o <= p
      BY <1>1, <1>4, <1>8, <3>1, <3>2, <3>3
    <3> HIDE DEF x, cy
    <3> QED
      BY <2>2, <3>2, <3>4
  <2> QED
    BY <2>1, <2>2
<1> HIDE DEF cy
<1>10. PICK f \in Blanks(ctx), l \in Blanks(ctx) :
         f <= x /\ cy <= l /\ context = SubSeq(ctx, f + 1, l - 1)
  BY <1>3, <1>8, <1>9, TrimmedBetween
<1>11. f \in 1 .. w + 1 + o /\ l \in 1 .. w + 1 + o
  BY <1>3, BlanksAreSpaces
<1> DEFINE a == start + f - o + 1
           e == start + l - o - 1
           b == IF e <= size THEN e ELSE size
           n == b - a + 1
<1>12. a \in 1 .. p + 1 /\ last <= e /\ e \in Nat /\ f < l
  <2>1. cy \in Nat /\ y = cy + start - o
    BY <1>1, <1>4, <1>8 DEF cy
  <2>2. start = 0 => f = 1 /\ o = 1
    BY <1>4, <1>9, <1>10, <1>11
  <2>3. start # 0 => start >= 1 /\ o = 0
    BY <1>1, <1>4
  <2>4. a \in 1 .. p + 1
    <3>1. CASE start = 0
      <4>1. a = 1
        BY <2>2, <3>1
      <4> QED
        BY <4>1
    <3>2. CASE start # 0
      <4>1. a = start + f + 1 /\ start + x <= p /\ x \in Nat /\ f \in Nat /\ f <= x
        BY <1>9, <1>10, <1>11, <2>3, <3>2
      <4> HIDE DEF a
      <4> QED
        BY <1>1, <4>1
    <3> QED
      BY <3>1, <3>2
  <2>5. last \in Nat /\ last < y
    BY <1>1, <1>2, <1>6
  <2>6. last <= e /\ e \in Nat
    BY <1>1, <1>4, <1>10, <1>11, <2>1, <2>5
  <2> QED
    BY <1>9, <1>10, <1>11, <2>1, <2>4, <2>6
<1>13. b \in last .. size /\ b <= e
  BY <1>1, <1>2, <1>12
<1>14. context \in Seq(Byte) /\ Len(context) = l - 1 - f /\ l - 1 - f \in Nat
       /\ \A i \in 1 .. l - 1 - f : context[i] = ctx[f + i]
  <2> DEFINE lo == f + 1
             hi == l - 1
  <2>1. /\ lo \in 1 .. Len(ctx) + 1 /\ hi \in lo - 1 .. Len(ctx) /\ hi - lo + 1 = l - 1 - f
        /\ \A i \in Int : lo + i - 1 = f + i
    BY <1>3, <1>4, <1>11, <1>12
  <2>2. context = SubSeq(ctx, lo, hi)
    BY <1>10
  <2> HIDE DEF lo, hi, context
  <2>3. /\ context \in Seq(Byte) /\ Len(context) = hi - lo + 1
        /\ \A i \in 1 .. hi - lo + 1 : context[i] = ctx[lo + i - 1]
    BY <1>3, <2>1, <2>2, BytesBetween
  <2>4. l - 1 - f \in Nat
    BY <1>11, <1>12
  <2>5. Len(context) = l - 1 - f
    BY <2>1, <2>3
  <2>6. ASSUME NEW i \in 1 .. l - 1 - f PROVE context[i] = ctx[f + i]
    <3>1. i \in 1 .. hi - lo + 1 /\ lo + i - 1 = f + i
      BY <2>1
    <3>2. context[i] = ctx[lo + i - 1]
      BY <2>3, <3>1
    <3> QED
      BY <3>1, <3>2
  <2> QED
    BY <2>3, <2>4, <2>5, <2>6
<1>15. n \in Nat /\ n <= l - 1 - f /\ (e <= size => n = l - 1 - f)
  <2>1. a \in Nat /\ b \in Nat /\ a <= b
    BY <1>1, <1>2, <1>12, <1>13
  <2>2. e - a + 1 = l - 1 - f
    BY <1>1, <1>4, <1>11
  <2>3. e <= size => b = e
    OBVIOUS
  <2> HIDE DEF a, e, b
  <2> QED
    BY <1>11, <1>12, <1>13, <2>1, <2>2, <2>3
<1>16. ASSUME NEW i \in 1 .. n PROVE context[i] = text[a + i - 1]
  <2> DEFINE c == f + i
  <2>1. i \in 1 .. l - 1 - f /\ i \in Nat
    BY <1>14, <1>15
  <2>2. a + i - 1 <= size
    <3>1. a + i - 1 <= b /\ b <= size
      BY <1>1, <1>2, <1>12, <1>13, <2>1
    <3> QED
      BY <1>1, <1>2, <1>12, <1>13, <2>1, <3>1
  <2>3. c \in 1 .. w + 1 + o /\ c <= w + o /\ start + (c - o) = a + i - 1
    BY <1>1, <1>4, <1>11, <2>1
  <2>4. c - o <= w /\ c - o <= size - start
    BY <1>1, <1>4, <2>1, <2>2, <2>3
  <2>5. c > o
    BY <1>4, <1>11, <2>1
  <2>6. context[i] = ctx[c]
    BY <1>14, <2>1
  <2> HIDE DEF c, a
  <2> QED
    BY <1>3, <2>3, <2>4, <2>5, <2>6
<1>19. a = 1 \/ text[a - 1] = Space
  <2>1. CASE start = 0
    <3>1. f = 1 /\ o = 1
      BY <1>4, <1>9, <1>10, <1>11, <2>1
    <3> QED
      BY <2>1, <3>1
  <2>2. CASE start # 0
    <3>1. o = 0 /\ f > o /\ f - o <= w
      BY <1>3, <1>4, <1>10, <1>11, <2>2
    <3>2. f - o <= size - start /\ start + (f - o) = a - 1
      BY <1>1, <1>9, <1>10, <1>11, <3>1
    <3>3. ctx[f] = text[start + (f - o)] /\ ctx[f] = Space
      BY <1>3, <1>10, <1>11, <3>1, <3>2, BlanksAreSpaces
    <3> QED
      BY <3>2, <3>3
  <2> QED
    BY <2>1, <2>2
<1>20. b = size \/ text[b + 1] = Space
  <2>1. CASE e < size
    <3>4. l - o <= w
      BY <1>3, <1>10
    <3>5. l > o
      BY <1>4, <1>11, <1>12
    <3>1. l - o <= w /\ l > o
      BY <3>4, <3>5
    <3>2. l - o <= size - start /\ start + (l - o) = b + 1
      BY <1>1, <1>4, <1>11, <2>1
    <3>3. ctx[l] = text[start + (l - o)] /\ ctx[l] = Space
      BY <1>3, <1>10, <1>11, <3>1, <3>2, BlanksAreSpaces
    <3> QED
      BY <3>2, <3>3
  <2>2. CASE ~ (e < size)
    BY <1>1, <1>12, <2>2
  <2> QED
    BY <2>1, <2>2
<1> HIDE DEF n, a, e
<1>17. SubSeq(context, 1, n) = SubSeq(text, a, b)
  <2>1. n \in 0 .. Len(context) /\ a \in Nat \ {0} /\ b \in 0 .. Len(text) /\ b - a + 1 = n
    BY <1>1, <1>2, <1>12, <1>13, <1>14, <1>15 DEF n, size
  <2> HIDE DEF b, context
  <2> QED
    BY <1>1, <1>14, <1>16, <2>1, SameBytes
<1>18. shorter => context = SubSeq(text, a, b)
  <2> SUFFICES ASSUME shorter PROVE context = SubSeq(text, a, b)
    OBVIOUS
  <2>1. l - o <= size - start
    BY <1>3, <1>5, <1>10
  <2>2. e <= size
    BY <1>1, <1>4, <1>11, <2>1 DEF e
  <2>3. n = Len(context)
    BY <1>14, <1>15, <2>2
  <2>4. SubSeq(context, 1, Len(context)) = context
    <3> HIDE DEF context
    <3> QED
      BY <1>14
  <2> QED
    BY <1>17, <2>3, <2>4
<1> HIDE DEF b, context
<1> QED
  BY <1>12, <1>13, <1>17, <1>18, <1>19, <1>20 DEF n

\* When more files have been shown, no less is true of an earlier one.
LEMMA TruthfulLater ==
  ASSUME NEW text \in Seq(STRING), NEW start, NEW w, NEW p \in Nat, p < Len(text), NEW context,
         NEW others, NEW more, more # {}, Truthful(text, start, w, p, context, others)
  PROVE  Truthful(text, start, w, p, context, more)
<1> DEFINE last   == Data!PieceEnd(text, p + 1)
           window == {k \in DOMAIN text : k > start /\ k <= start + w}
           opened == start = 0 \/ \E k \in window : text[k] = Space /\ k <= p
           closed == \E k \in window : text[k] = Space /\ last < k
           fits   == start + w <= Len(text)
<1>1. SUFFICES ASSUME opened, closed
               PROVE  \E a \in 1 .. p + 1, b \in last .. Len(text) :
                        /\ a = 1 \/ text[a - 1] = Space
                        /\ b = Len(text) \/ text[b + 1] = Space
                        /\ IF fits \/ more = {} THEN context = SubSeq(text, a, b)
                           ELSE SubSeq(context, 1, b - a + 1) = SubSeq(text, a, b)
  BY Zenon DEF Truthful
<1>2. PICK a \in 1 .. p + 1, b \in last .. Len(text) :
        /\ a = 1 \/ text[a - 1] = Space
        /\ b = Len(text) \/ text[b + 1] = Space
        /\ IF fits \/ others = {} THEN context = SubSeq(text, a, b)
           ELSE SubSeq(context, 1, b - a + 1) = SubSeq(text, a, b)
  BY <1>1, Zenon DEF Truthful
<1>3. last \in p + 1 .. Len(text)
  <2> DEFINE k == p + 1
  <2>1. k \in DOMAIN text
    OBVIOUS
  <2> HIDE DEF k
  <2>2. DataP!PieceEnd(text, k) \in k .. Len(text)
    BY <2>1, TokenizerHypotheses, DataP!PieceEndShape
  <2> QED
    BY <2>2, DataOperators DEF k
<1>6. a \in 1 .. p + 1 /\ b \in last .. Len(text)
  OBVIOUS
<1> HIDE DEF last, fits
<1>4. CASE context = SubSeq(text, a, b)
  <2> DEFINE n == b - a + 1
  <2>1. text \in Seq(Byte) /\ a \in Nat \ {0} /\ b \in 0 .. Len(text) /\ n \in Nat
        /\ a \in 1 .. Len(text) + 1 /\ b \in a - 1 .. Len(text)
    BY <1>3, <1>6 DEF Byte
  <2>2. context \in Seq(Byte) /\ Len(context) = n /\ \A i \in 1 .. n : context[i] = text[a + i - 1]
    BY <1>4, <2>1, BytesBetween
  <2> HIDE DEF n
  <2>3. n \in 0 .. Len(context) /\ b - a + 1 = n
    BY <2>1, <2>2 DEF n
  <2>4. SubSeq(context, 1, n) = SubSeq(text, a, b)
    BY <2>1, <2>2, <2>3, SameBytes
  <2> QED
    BY <1>2, <1>4, <2>4 DEF n
<1>5. CASE ~ fits /\ SubSeq(context, 1, b - a + 1) = SubSeq(text, a, b)
  BY <1>2, <1>5
<1> QED
  BY <1>2, <1>4, <1>5

\* Contexts are shown after a search only; the buffer is empty before the first, and then
\* ends with the NUL it was given when it grew.
Held ==
  /\ stage # "found" => buffer = << >> /\ DOMAIN shown = {}
  /\ DOMAIN shown = {} => buffer = << >>
  /\ buffer = << >> \/ (Len(buffer) = WindowSize + 1 /\ buffer[WindowSize + 1] = Nul)
  /\ \A id \in DOMAIN shown :
       Truthful(contents[id], WindowStart(id), WindowSize, index[FirstIn(id)].pos, shown[id],
                DOMAIN shown \ {id})

LEMMA HeldEmpty == buffer = << >> /\ DOMAIN shown = {} => Held
  BY DEF Held

LEMMA ReadEndsWithNul ==
  ASSUME NEW buf \in Seq(STRING), NEW text \in Seq(STRING), NEW w \in Nat,
         NEW start \in 0 .. Len(text), buf = << >> \/ (Len(buf) = w + 1 /\ buf[w + 1] = Nul)
  PROVE  Len(Read(buf, w, text, start)) = w + 1 /\ Read(buf, w, text, start)[w + 1] = Nul
<1> DEFINE left      == Len(text) - start
           bytesRead == IF left < w THEN left ELSE w
           last      == w + 1
           byte(k)   == IF k <= bytesRead THEN text[start + k]
                        ELSE IF k <= Len(buf) THEN buf[k] ELSE Nul
<1>1. Read(buf, w, text, start) = [k \in 1 .. w + 1 |-> byte(k)]
  BY Zenon DEF Read
<1>2. ~ (last <= bytesRead) /\ last \in 1 .. w + 1
  OBVIOUS
<1>3. IF last <= Len(buf) THEN buf[last] = Nul ELSE TRUE
  OBVIOUS
<1> HIDE DEF bytesRead
<1>4. byte(last) = Nul
  BY <1>2, <1>3
<1>5. Len(Read(buf, w, text, start)) = w + 1
  BY ReadText
<1> QED
  BY <1>1, <1>2, <1>4, <1>5

LEMMA HeldShowContext ==
  ASSUME Machines, Indexed, Stored, Results, Held, NEW id \in Files, ShowContext(id)
  PROVE  Held'
<1> DEFINE text  == contents[id]
           start == WindowStart(id)
           w     == WindowSize
           p     == index[FirstIn(id)].pos
           read  == Read(buffer, w, text, start)
           given == TrimContext(Window(buffer, w, text, start))
<1>1. /\ stage = "found" /\ id \notin DOMAIN shown /\ buffer' = read
      /\ shown' = [i \in DOMAIN shown \cup {id} |-> IF i # id THEN shown[i] ELSE given]
      /\ UNCHANGED <<data, query, index, stage, posMap, contents>>
  BY Zenon DEF ShowContext, Window, Space
<1>2. UNCHANGED <<qtk, qout>>
  BY <1>1 DEF query
<1>3. posMap \subseteq DOMAIN index /\ buffer \in Seq(STRING) /\ DOMAIN shown \subseteq Files
  BY DEF Results
<1>4. \A i \in Files : contents[i] \in Seq(STRING) /\ index[FirstIn(i)].pos < Len(contents[i])
  <2> TAKE i \in Files
  <2>1. FirstIn(i) \in DOMAIN index /\ index[FirstIn(i)].fileId = i
    BY <1>3, WindowTyped
  <2> QED
    BY <2>1 DEF Stored
<1>5. /\ w \in Nat
      /\ \A i \in Files : /\ index[FirstIn(i)].pos \in Nat /\ WindowStart(i) \in Nat
                          /\ WindowStart(i) <= index[FirstIn(i)].pos
  BY <1>3, WindowTyped
<1>6. buffer = << >> \/ (Len(buffer) = w + 1 /\ buffer[w + 1] = Nul)
  BY DEF Held
<1>7. start \in 0 .. p /\ start \in 0 .. Len(text) /\ text \in Seq(STRING) /\ p \in Nat /\ p < Len(text)
  BY <1>4, <1>5
<1> HIDE DEF text, start, w, p
<1>8. Truthful(text, start, w, p, given, DOMAIN shown)
  <2>1. DOMAIN shown = {} => buffer = << >>
    BY DEF Held
  <2> QED
    BY <1>3, <1>5, <1>6, <1>7, <2>1, ShownIsTrue
<1>9. Len(read) = w + 1 /\ read[w + 1] = Nul
  BY <1>3, <1>5, <1>6, <1>7, ReadEndsWithNul
<1> HIDE DEF read, given
<1>10. /\ DOMAIN shown' = DOMAIN shown \cup {id} /\ shown'[id] = given
       /\ \A i \in DOMAIN shown : shown'[i] = shown[i]
  BY <1>1
<1>11. WindowSize' = w /\ \A i : FirstIn(i)' = FirstIn(i) /\ WindowStart(i)' = WindowStart(i)
  <2>1. Symbols' = Symbols
    BY <1>2 DEF Symbols, IsRussian, Bodies
  <2>2. \A i : FirstIn(i)' = FirstIn(i)
    BY <1>1 DEF FirstIn
  <2> QED
    BY <1>1, <1>2, <2>1, <2>2 DEF WindowSize, WindowStart, w
<1>12. ASSUME NEW i \in DOMAIN shown'
       PROVE  Truthful(contents[i], WindowStart(i), w, index[FirstIn(i)].pos, shown'[i],
                       DOMAIN shown' \ {i})
  <2>1. CASE i = id
    <3>1. DOMAIN shown' \ {i} = DOMAIN shown
      BY <1>1, <1>10, <2>1
    <3> QED
      BY <1>8, <1>10, <2>1, <3>1 DEF text, start, p
  <2>2. CASE i # id
    <3>1. i \in DOMAIN shown /\ shown'[i] = shown[i] /\ DOMAIN shown' \ {i} # {} /\ i \in Files
      BY <1>3, <1>10, <2>2
    <3>2. Truthful(contents[i], WindowStart(i), w, index[FirstIn(i)].pos, shown[i],
                   DOMAIN shown \ {i})
      BY <3>1 DEF Held, w
    <3> QED
      BY <1>4, <1>5, <3>1, <3>2, TruthfulLater
  <2> QED
    BY <2>1, <2>2
<1>13. \A i \in DOMAIN shown' :
         Truthful(contents[i], WindowStart(i), WindowSize, index[FirstIn(i)].pos, shown[i],
                  DOMAIN shown \ {i})'
  BY <1>1, <1>11, <1>12
<1>14. stage' = "found" /\ DOMAIN shown' # {}
  BY <1>1, <1>10
<1> QED
  BY <1>1, <1>9, <1>11, <1>13, <1>14 DEF Held

LEMMA HeldStep ==
  ASSUME Machines, Calls, Indexed, Stored, Results, Held, [Next]_vars
  PROVE  Held'
<1>1. CASE ProcessText \/ \E text \in Queries : Find(text) \/ FindRejected(text)
  <2>1. buffer' = << >> /\ shown' = NoTexts
    BY <1>1 DEF ProcessText, Find, FindRejected
  <2>2. DOMAIN shown' = {}
    BY <2>1 DEF NoTexts
  <2> QED
    BY <2>1, <2>2, HeldEmpty DEF Held
<1>2. CASE stage # "found" /\ UNCHANGED shows
  <2>1. buffer' = << >> /\ DOMAIN shown' = {}
    BY <1>2 DEF Held, shows
  <2> QED
    BY <2>1 DEF Held
<1>3. CASE stage = "found" /\ stage' = "found"
  <2>1. CASE \E id \in Files : ShowContext(id)
    BY <2>1, HeldShowContext
  <2>2. CASE UNCHANGED <<index, qtk, qout, origin, posMap, contents, shown, buffer>>
    <3>1. Symbols' = Symbols
      BY <2>2 DEF Symbols, IsRussian, Bodies
    <3>2. \A i : FirstIn(i)' = FirstIn(i)
      BY <2>2 DEF FirstIn
    <3>3. WindowSize' = WindowSize /\ \A i : WindowStart(i)' = WindowStart(i)
      BY <2>2, <3>1, <3>2 DEF WindowSize, WindowStart
    <3>4. \A i \in DOMAIN shown' :
            Truthful(contents[i], WindowStart(i), WindowSize, index[FirstIn(i)].pos, shown[i],
                     DOMAIN shown \ {i})'
      BY <2>2, <3>2, <3>3 DEF Held
    <3> QED
      BY <1>3, <2>2, <3>3, <3>4 DEF Held
  <2> QED
    BY <1>3, <2>1, <2>2, WhileFound
<1>4. CASE stage = "found" /\ stage' # "found"
  <2>1. qpc = "rest" /\ dpc = "rest"
    BY <1>4 DEF Calls
  <2>2. ProcessText \/ \E text \in Queries : Find(text) \/ FindRejected(text)
    <3>1. ~QueryThrows
      BY <2>1 DEF QueryThrows, Query!FilterThrows
    <3> QED
      BY <1>4, <3>1 DEF Next, vars, ProcessStep, AddToken, QueryStep, Return, ShowContext
  <2> QED
    BY <1>1, <2>2
<1>5. stage # "found" => \/ UNCHANGED shows \/ ProcessText
                         \/ \E text \in Queries : Find(text) \/ FindRejected(text)
  BY DEF Next, vars, ProcessStep, AddToken, QueryStep, QueryThrows, Return, ShowContext
<1> QED
  BY <1>1, <1>2, <1>3, <1>4, <1>5


-----------------------------------------------------------------------------
\* The inductive invariant.
IInv ==
  /\ Machines /\ Pending /\ Calls /\ Indexed /\ Stored /\ Results
  /\ Recent /\ Earlier /\ Coming /\ Apart /\ PhrasesExact /\ Held

LEMMA Initially == Init => IInv
<1> SUFFICES ASSUME Init PROVE IInv
  OBVIOUS
<1>1. Machines /\ Pending
  BY MachinesInit, PendingInit
<1>2. /\ index = << >> /\ origin = << >> /\ stage = "idle" /\ posMap = {} /\ offset = 0
      /\ contents = NoTexts /\ buffer = << >> /\ shown = NoTexts
  BY DEF Init
<1>3. /\ dpc = "rest" /\ qpc = "rest" /\ dout = << >> /\ dtk.text = << >> /\ dtk.fileId = 0
  BY DEF Init, Data!Constructed, Query!Constructed, Data!NewTokenizer
<1>4. DOMAIN index = {} /\ DOMAIN NoTexts = {} /\ Len(index) = 0 /\ Len(dtk.text) = 0 /\ Len(dout) = 0
  BY <1>2, <1>3 DEF NoTexts
<1>5. Calls /\ Indexed /\ Apart /\ PhrasesExact
  BY <1>2, <1>3, <1>4 DEF Calls, Indexed, Apart, PhrasesExact
<1>6. Stored /\ Results
  BY <1>2, <1>3, <1>4 DEF Stored, Results, Files
<1>7. Recent /\ Earlier
  BY <1>2, <1>3, <1>4 DEF Recent, Earlier, Base
<1>8. Coming
  <2>1. \A c \in DOMAIN chunks : chunks[c] \in Chunk
    BY <1>1 DEF Pending
  <2>2. \A c \in DOMAIN chunks : chunks[c].offset \in Nat
    BY <2>1 DEF Chunk
  <2> QED
    BY <1>2, <1>3, <1>4, <2>2 DEF Coming
<1>9. Held
  BY <1>2, <1>4, HeldEmpty
<1> QED
  BY <1>1, <1>5, <1>6, <1>7, <1>8, <1>9 DEF IInv

LEMMA Inductive == IInv /\ [Next]_vars => IInv'
<1> SUFFICES ASSUME IInv, [Next]_vars PROVE IInv'
  OBVIOUS
<1>1. /\ Machines /\ Pending /\ Calls /\ Indexed /\ Stored /\ Results
      /\ Recent /\ Earlier /\ Coming /\ Apart /\ PhrasesExact /\ Held /\ offset \in Nat
  BY DEF IInv, Stored
<1>2. Machines' /\ Pending' /\ Calls'
  BY <1>1, MachinesStep, PendingStep, CallsStep
<1>3. Indexed' /\ Stored' /\ Results'
  BY <1>1, IndexedStep, StoredStep, ResultsStep
<1>4. Recent' /\ Earlier' /\ Coming' /\ Apart'
  BY <1>1, RecentStep, EarlierStep, ComingStep, ApartStep
<1>5. PhrasesExact' /\ Held'
  BY <1>1, PhrasesStep, HeldStep
<1> QED
  BY <1>2, <1>3, <1>4, <1>5 DEF IInv

LEMMA InvariantTypeOK == IInv => TypeOK
<1> SUFFICES ASSUME IInv PROVE TypeOK
  OBVIOUS
<1>1. Machines /\ Calls /\ Indexed /\ Stored /\ Results
  BY DEF IInv
<1>2. Data!TypeOK /\ Query!TypeOK
  BY <1>1, DataPredicates, QueryPredicates, DataP!InvImplies, QueryP!InvImplies DEF Machines
<1>3. \A k \in DOMAIN index : Data!IsToken(index[k])
  <2>1. \A t \in DataP!Token : Data!IsToken(t)
    BY DEF DataP!Token, Data!IsToken
  <2> QED
    BY <1>1, <2>1, IndexedTokens
<1>4. posMap \subseteq DOMAIN index /\ origin \in Seq(Nat) /\ Len(origin) = Len(index)
  BY <1>1 DEF Results, Indexed
<1>5. DOMAIN shown \subseteq Files /\ Files \subseteq DOMAIN contents
  BY <1>1 DEF Results, Stored, Files
<1>6. \A text \in {buffer} \cup {contents[i] : i \in DOMAIN contents} : text \in Seq(STRING)
  BY <1>1 DEF Results, Stored
<1> QED
  BY <1>1, <1>2, <1>3, <1>4, <1>5, <1>6 DEF TypeOK, Calls

\* A piece is one of the pieces with its ends.
LEMMA PieceBetween ==
  ASSUME NEW text, NEW A \in SUBSET Int, NEW B \in SUBSET Int, NEW a \in A, NEW b \in B
  PROVE  SubSeq(text, a, b) \in {SubSeq(text, x, y) : x \in A, y \in B}
  OBVIOUS

LEMMA InvariantContexts == IInv => ContextsTrue
<1> SUFFICES ASSUME IInv PROVE ContextsTrue
  OBVIOUS
<1>1. Machines /\ Indexed /\ Stored /\ Results /\ Held
  BY DEF IInv
<1>2. posMap \subseteq DOMAIN index /\ DOMAIN shown \subseteq Files
  BY <1>1 DEF Results
<1>3. ASSUME NEW id \in Files
      PROVE  /\ contents[id] \in Seq(STRING) /\ index[FirstIn(id)].pos \in Nat
             /\ index[FirstIn(id)].pos < Len(contents[id])
             /\ WindowStart(id) \in Nat /\ WindowStart(id) <= index[FirstIn(id)].pos
  <2>1. /\ FirstIn(id) \in DOMAIN index /\ index[FirstIn(id)].fileId = id
        /\ index[FirstIn(id)].pos \in Nat
        /\ WindowStart(id) \in Nat /\ WindowStart(id) <= index[FirstIn(id)].pos
    BY <1>1, <1>2, WindowTyped
  <2> QED
    BY <1>1, <2>1 DEF Stored
<1>4. ASSUME NEW id \in Files PROVE WindowStart(id) < Len(contents[id])
  <2> DEFINE p == index[FirstIn(id)].pos
             n == Len(contents[id])
             m == WindowStart(id)
  <2>1. p \in Nat /\ m \in Nat /\ n \in Nat /\ m <= p /\ p < n
    BY <1>3
  <2> HIDE DEF p, n, m
  <2>2. m < n
    BY <2>1
  <2> QED
    BY <2>2 DEF m, n
<1>5. ASSUME NEW id \in DOMAIN shown
      PROVE  LET text   == contents[id]
                 start  == WindowStart(id)
                 window == {k \in DOMAIN text : k > start /\ k <= start + WindowSize}
                 Blank(k) == text[k] = " "
                 opened == start = 0 \/ \E k \in window : Blank(k) /\ \A j \in WordOf(id) : k < j
                 closed == \E k \in window : Blank(k) /\ \A j \in WordOf(id) : j < k
                 filled == start + WindowSize <= Len(text)
                 Begins(whole, piece) == SubSeq(whole, 1, Len(piece)) = piece
             IN  opened /\ closed =>
                   \E piece \in Around(id) :
                     IF filled \/ DOMAIN shown = {id} THEN shown[id] = piece
                     ELSE Begins(shown[id], piece)
  <2> DEFINE text   == contents[id]
             start  == WindowStart(id)
             w      == WindowSize
             p      == index[FirstIn(id)].pos
             first  == p + 1
             last   == Data!PieceEnd(text, first)
             window == {k \in DOMAIN text : k > start /\ k <= start + w}
             fits   == start + w <= Len(text)
  <2>1. /\ text \in Seq(STRING) /\ p \in Nat /\ p < Len(text) /\ id \in Files
        /\ Len(text) \in Nat /\ DOMAIN text = 1 .. Len(text)
    BY <1>2, <1>3
  <2>2. last \in first .. Len(text) /\ first \in Nat
    <3>1. first \in DOMAIN text
      BY <2>1
    <3> HIDE DEF first, text
    <3>2. DataP!PieceEnd(text, first) \in first .. Len(text)
      BY <2>1, <3>1, TokenizerHypotheses, DataP!PieceEndShape
    <3>3. first \in Nat
      BY <2>1, <3>1
    <3> QED
      BY <3>2, <3>3, DataOperators
  <2>3. WordOf(id) = first .. last
    BY DEF WordOf
  <2>4. \A a \in 1 .. first, b \in last .. Len(text) :
          (a = 1 \/ text[a - 1] = Space) /\ (b = Len(text) \/ text[b + 1] = Space)
          => SubSeq(text, a, b) \in Around(id)
    <3> DEFINE begin == {a \in 1 .. first : a = 1 \/ text[a - 1] = Space}
               end   == {b \in last .. Len(text) : b = Len(text) \/ text[b + 1] = Space}
    <3> DEFINE pieces == {SubSeq(text, x, y) : x \in begin, y \in end}
    <3>1. Around(id) = pieces
      BY DEF Around, Space
    <3>2. \A a \in 1 .. first, b \in last .. Len(text) :
            (a = 1 \/ text[a - 1] = Space) /\ (b = Len(text) \/ text[b + 1] = Space)
            => a \in begin /\ b \in end
      OBVIOUS
    <3>4. begin \in SUBSET Int /\ end \in SUBSET Int
      BY <2>1, <2>2
    <3> HIDE DEF begin, end
    <3>3. ASSUME NEW a \in begin, NEW b \in end PROVE SubSeq(text, a, b) \in Around(id)
      <4>1. SubSeq(text, a, b) \in pieces
        <5> HIDE DEF text
        <5> QED
          BY <3>4, PieceBetween
      <4> HIDE DEF pieces
      <4> QED
        BY <3>1, <4>1
    <3> QED
      BY <3>2, <3>3
  <2>5. Truthful(text, start, w, p, shown[id], DOMAIN shown \ {id})
    BY <1>1 DEF Held
  <2> HIDE DEF text, start, w, p, last
  <2> SUFFICES ASSUME start = 0 \/ \E k \in window : text[k] = Space /\ \A j \in first .. last : k < j,
                      \E k \in window : text[k] = Space /\ \A j \in first .. last : j < k
               PROVE  \E piece \in Around(id) :
                        IF fits \/ DOMAIN shown = {id} THEN shown[id] = piece
                        ELSE SubSeq(shown[id], 1, Len(piece)) = piece
    BY <2>3, Zenon DEF text, start, w, Space
  <2> HIDE DEF fits
  <2>6. start = 0 \/ \E k \in window : text[k] = Space /\ k <= p
    <3>1. first \in first .. last
      BY <2>2
    <3>2. \A k \in window : k < first => k <= p
      BY <2>1
    <3> HIDE DEF window, first
    <3> QED
      BY <3>1, <3>2
  <2>7. \E k \in window : text[k] = Space /\ last < k
    <3>1. last \in first .. last
      BY <2>2
    <3> HIDE DEF window, first
    <3> QED
      BY <3>1
  <2>8. PICK a \in 1 .. first, b \in last .. Len(text) :
          /\ a = 1 \/ text[a - 1] = Space
          /\ b = Len(text) \/ text[b + 1] = Space
          /\ IF fits \/ DOMAIN shown \ {id} = {} THEN shown[id] = SubSeq(text, a, b)
             ELSE SubSeq(shown[id], 1, b - a + 1) = SubSeq(text, a, b)
    BY <2>5, <2>6, <2>7, Zenon DEF Truthful, last, fits
  <2> DEFINE piece == SubSeq(text, a, b)
  <2>14. a \in 1 .. first /\ b \in last .. Len(text)
    OBVIOUS
  <2>9. Len(piece) = b - a + 1
    <3>1. text \in Seq(Byte) /\ a \in 1 .. Len(text) + 1 /\ b \in a - 1 .. Len(text)
      BY <2>1, <2>2, <2>14 DEF Byte
    <3> QED
      BY <3>1, BytesBetween
  <2>10. piece \in Around(id)
    BY <2>4, <2>8
  <2>11. DOMAIN shown = {id} => DOMAIN shown \ {id} = {}
    OBVIOUS
  <2>12. DOMAIN shown \ {id} = {} => DOMAIN shown = {id}
    OBVIOUS
  <2>13. IF fits \/ DOMAIN shown = {id} THEN shown[id] = piece
         ELSE SubSeq(shown[id], 1, Len(piece)) = piece
    <3> HIDE DEF piece
    <3> QED
      BY <2>8, <2>9, <2>11, <2>12 DEF piece
  <2> QED
    BY <2>10, <2>13
<1> QED
  BY <1>4, <1>5, Zenon DEF ContextsTrue

LEMMA Always == Spec => []IInv
  BY Initially, Inductive, PTL DEF Spec

\* The variables of Search keep their types.
THEOREM TypeCorrect == Spec => []TypeOK
  BY Always, InvariantTypeOK, PTL

\* Tokenizer::prepareNext, in the data's and in the query's tokenizer: the pieces taken
\* from a text cover it.
THEOREM PiecesAlwaysCover == Spec => []PiecesCover
<1>1. IInv => PiecesCover
  BY DataPredicates, QueryPredicates, DataP!InvImplies, QueryP!InvImplies
     DEF IInv, Machines, PiecesCover
<1> QED
  BY <1>1, Always, PTL

\* Tokenizer::next: tokens are returned once, in order, under their positions.
THEOREM TokensStayInPlace == Spec => []TokensInPlace
<1>1. IInv => TokensInPlace
  BY DataPredicates, QueryPredicates, DataP!InvImplies, QueryP!InvImplies
     DEF IInv, Machines, TokensInPlace
<1> QED
  BY <1>1, Always, PTL

LEMMA ScansStep ==
  IInv /\ [Next]_vars => /\ dpc # "rest" => DataP!MovesOn \/ UNCHANGED data
                         /\ qpc # "rest" => QueryP!MovesOn \/ UNCHANGED query
<1> SUFFICES ASSUME IInv, [Next]_vars
             PROVE  /\ dpc # "rest" => DataP!MovesOn \/ UNCHANGED data
                    /\ qpc # "rest" => QueryP!MovesOn \/ UNCHANGED query
  OBVIOUS
<1>1. DataP!Inv /\ QueryP!Inv
  BY DEF IInv, Machines
<1>2. CASE ProcessText
  <2>1. dpc = "rest" /\ UNCHANGED query
    BY <1>2 DEF ProcessText, Data!Tokenize
  <2> QED
    BY <2>1
<1>3. CASE ProcessStep \/ AddToken
  <2>1. /\ DataP!HasNext \/ DataP!PrepareNext \/ DataP!FilterThrows \/ DataP!ScanEnds \/ DataP!Next
        /\ UNCHANGED query
    BY <1>3, DataOperations DEF ProcessStep, AddToken
  <2> QED
    BY <1>1, <2>1, DataP!StepMovesOn
<1>4. ASSUME NEW text \in Queries, Find(text) PROVE qpc = "rest" /\ UNCHANGED data
  BY <1>4 DEF Find, Query!Tokenize
<1>5. CASE QueryStep \/ QueryThrows
  <2>1. /\ QueryP!HasNext \/ QueryP!PrepareNext \/ QueryP!FilterThrows \/ QueryP!ScanEnds \/ QueryP!Next
        /\ UNCHANGED data
    BY <1>5, QueryOperations DEF QueryStep, QueryThrows
  <2> QED
    BY <1>1, <2>1, QueryP!StepMovesOn
<1>6. CASE \/ \E text \in Queries : FindRejected(text)
           \/ Return \/ (\E id \in Files : ShowContext(id)) \/ UNCHANGED vars
  <2>1. UNCHANGED data /\ UNCHANGED query
    BY <1>6 DEF FindRejected, Return, ShowContext, vars
  <2> QED
    BY <2>1
<1> QED
  BY <1>2, <1>3, <1>4, <1>5, <1>6 DEF Next

\* Tokenizer::hasNext and next: neither tokenizer ever stands still in a text, goes back in
\* it or offers a token twice, whatever the filters drop and wherever they throw.
THEOREM ScansKeepAdvancing == Spec => ScansAdvance
<1>1. IInv /\ [Next]_vars => [dpc # "rest" => Data!MovesOn]_(Data!vars)
  BY ScansStep DEF data, Data!vars, Data!MovesOn, DataP!MovesOn
<1>2. IInv /\ [Next]_vars => [qpc # "rest" => Query!MovesOn]_(Query!vars)
  BY ScansStep DEF query, Query!vars, Query!MovesOn, QueryP!MovesOn
<1>3. Spec => Data!ScanAdvances
  BY <1>1, Always, PTL DEF Spec, Data!ScanAdvances
<1>4. Spec => Query!ScanAdvances
  BY <1>2, Always, PTL DEF Spec, Query!ScanAdvances
<1> QED
  BY <1>3, <1>4, PTL DEF ScansAdvance

\* Search::getPhrasePositions: phrases are found where they stand, and only there.
THEOREM PhrasesFound == Spec => []PhrasesExact
<1>1. IInv => PhrasesExact
  BY DEF IInv
<1> QED
  BY <1>1, Always, PTL

\* Engine::returnResultInContext: a context shows the word, and whole words about it.
THEOREM ContextsShown == Spec => []ContextsTrue
  BY Always, InvariantContexts, PTL

=============================================================================
