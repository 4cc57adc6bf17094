----------------------------- MODULE Tokenizer -----------------------------
(***************************************************************************)
(* Class Tokenizer with its filters: the loop                              *)
(*     tokenize(text); while (hasNext()) next();                           *)
(* that DataHandler and Search run.  hasNext skips blanks and prepares     *)
(* tokens until the filters leave one; next moves it out.  A filter may    *)
(* throw in the middle, and the object is used again for the next text.    *)
(*                                                                         *)
(* A text is a sequence of symbols, each standing for one byte: Latin      *)
(* letters and digits, the two bytes of a Cyrillic letter, a blank, the    *)
(* brackets and the slash of a tag; any other symbol is punctuation.       *)
(***************************************************************************)
EXTENDS Integers, Sequences, FiniteSets

CONSTANTS
  Latin,          \* letters and digits of one byte
  LowerOf,        \* upper-case letters -> their lower case
  StopWords,      \* bodies of stop words
  Unstemmable,    \* bodies on which the English stemmer throws (Stemmers)
  HtmlLimit       \* htmlPatternLimit: bytes searched for the end of a tag, at least one

VARIABLES
  tk,     \* the object: its filters, its mode, its text and where it stands
  pc,     \* "rest" no call, "asked" hasNext is called, "scan" it prepares tokens,
          \* "ready" it has returned true
  out,    \* observer: the tokens of this text so far
  pieces  \* observer: the pieces of this text so far: where, and what was left of them

vars == <<tk, pc, out, pieces>>

\* The least element of a set of numbers.
Least(S) == CHOOSE n \in S : \A m \in S : n <= m

NoToken == [body |-> << >>, pos |-> 0, wordPos |-> 0, fileId |-> 0]

-----------------------------------------------------------------------------
Lowercase(body) ==
  [k \in DOMAIN body |-> IF body[k] \in DOMAIN LowerOf THEN LowerOf[body[k]] ELSE body[k]]

Process(filter, body) ==
  CASE filter = "Lowercaser" -> Lowercase(body)
    [] filter = "Htmler"     -> IF body[1] = "<" /\ Len(body) > 1 THEN << >> ELSE body
    [] filter = "Punctuator" -> IF Len(body) = 1 /\ body[1] \notin Latin THEN << >> ELSE body
    [] filter = "StopWords"  -> IF body \in StopWords THEN << >> ELSE body

\* applyFilters: in the order of their enumeration, whatever order they are given in,
\* and no further when a filter has emptied the token.
ApplyFilters(filters, raw) ==
  LET Filtered(filter, body) ==
        IF body = << >> \/ filter \notin filters THEN body ELSE Process(filter, body)
      lowered  == Filtered("Lowercaser", raw)
      untagged == Filtered("Htmler", lowered)
      bare     == Filtered("Punctuator", untagged)
  IN  Filtered("StopWords", bare)

\* Last of all the English stemmer, which changes no body here and may throw.
Throws(filters, raw) ==
  "EnglishStemmer" \in filters /\ ApplyFilters(filters, raw) \in Unstemmable

-----------------------------------------------------------------------------
\* isCyrillicChar, isAlnumCustom; a byte of a letter.  Variant: a lead byte alone will do.
IsLetterLoose(text, k) == text[k] \in Latin \cup {"D"} \/ (k > 1 /\ text[k] = "T" /\ text[k - 1] = "D")
IsCyrillic(text, k) == k < Len(text) /\ text[k] = "D" /\ text[k + 1] = "T"
IsLetter(text, k) ==
  \/ text[k] \in Latin
  \/ IsCyrillic(text, k)
  \/ k > 1 /\ IsCyrillic(text, k - 1)

\* The regular expression <\/?\w+.*?> at place k: where the tag ends, or k.
TagEnd(text, k) ==
  LET window == {j \in DOMAIN text : k <= j /\ j < k + HtmlLimit}
      name   == IF k + 1 \in window /\ text[k + 1] = "/" THEN k + 2 ELSE k + 1
      closed == {j \in window : j > name /\ text[j] = ">"}
  IN  IF name \in window /\ text[name] \in Latin /\ closed # {} THEN Least(closed) ELSE k

\* The end of the piece that begins at k: a tag, a word, or one byte.
PieceEnd(text, k) ==
  IF text[k] = "<" THEN TagEnd(text, k)
  ELSE IF IsLetter(text, k)
       THEN Least({j \in k .. Len(text) : j = Len(text) \/ ~IsLetter(text, j + 1)})
       ELSE k

\* What currentPos moves by: in a word a Cyrillic letter counts two bytes or one, as the
\* mode says; in a tag it is always the bytes.  And the letters in both.
LettersIn(text, from, to) == Cardinality({k \in from .. to : IsCyrillic(text, k)})
AdvanceByLetters(mode, text, from, to) ==
  to - from + 1 - (IF mode = "CLEAR_POSES" THEN LettersIn(text, from, to) ELSE 0)
Advance(mode, text, from, to) ==
  to - from + 1
    - (IF mode = "CLEAR_POSES" /\ text[from] # "<" THEN LettersIn(text, from, to) ELSE 0)

-----------------------------------------------------------------------------
NewTokenizer(filters, mode) ==
  [filters |-> filters, mode |-> mode, text |-> << >>, fileId |-> 0,
   i |-> 1, currentPos |-> 0, wordPos |-> 0, preparedToken |-> NoToken]

Constructed(filters, mode) ==
  tk = NewTokenizer(filters, mode) /\ pc = "rest" /\ out = << >> /\ pieces = << >>

\* What a call of tokenize sets; and one that goes on counting.
ResetText(text, id) == [tk EXCEPT !.text = text, !.fileId = id, !.i = 1]
Reset(text, id) ==
  [tk EXCEPT !.text = text, !.fileId = id, !.i = 1, !.currentPos = 0, !.wordPos = 0]

Tokenize(text, id) ==
  /\ pc = "rest"
  /\ tk' = Reset(text, id)
  /\ pc' = "asked"
  /\ out' = << >> /\ pieces' = << >>

\* hasNext: blanks first.
HasNext ==
  LET stop == Least({k \in tk.i .. Len(tk.text) : tk.text[k] # " "} \cup {Len(tk.text) + 1})
  IN  /\ pc = "asked"
      /\ tk' = [tk EXCEPT !.i = stop, !.currentPos = @ + stop - tk.i]
      /\ pc' = "scan"
      /\ UNCHANGED <<out, pieces>>

\* prepareNext: one piece; a token the filters have emptied is no token.  Blanks are
\* not skipped again before the piece after it.
PrepareNext ==
  LET last  == PieceEnd(tk.text, tk.i)
      raw   == SubSeq(tk.text, tk.i, last)
      body  == ApplyFilters(tk.filters, raw)
      moved == [tk EXCEPT !.i = last + 1,
                          !.currentPos = @ + Advance(tk.mode, tk.text, tk.i, last)]
      token == [body |-> body, pos |-> tk.currentPos, wordPos |-> tk.wordPos, fileId |-> tk.fileId]
  IN  /\ pc = "scan" /\ tk.i <= Len(tk.text)
      /\ ~Throws(tk.filters, raw)
      /\ pieces' = Append(pieces, [from |-> tk.i, to |-> last, body |-> body])
      /\ IF body = << >>
         THEN tk' = moved /\ pc' = pc
         ELSE tk' = [moved EXCEPT !.preparedToken = token, !.wordPos = @ + 1] /\ pc' = "ready"
      /\ UNCHANGED out

\* A filter throws out of prepareNext, and with it the loop of the caller ends.
FilterThrows ==
  LET last == PieceEnd(tk.text, tk.i)
  IN  /\ pc = "scan" /\ tk.i <= Len(tk.text)
      /\ Throws(tk.filters, SubSeq(tk.text, tk.i, last))
      /\ tk' = [tk EXCEPT !.i = last + 1,
                          !.currentPos = @ + Advance(tk.mode, tk.text, tk.i, last)]
      /\ pc' = "rest"
      /\ pieces' = Append(pieces, [from |-> tk.i, to |-> last, body |-> << >>])
      /\ UNCHANGED out

\* hasNext at the end of the text answers from preparedToken.
ScanEnds ==
  /\ pc = "scan" /\ tk.i > Len(tk.text)
  /\ pc' = IF tk.preparedToken.body = << >> THEN "rest" ELSE "ready"
  /\ UNCHANGED <<tk, out, pieces>>

\* next moves the token out and leaves an empty body; and one that copies it.
TakenCopy == tk
Taken == [tk EXCEPT !.preparedToken = NoToken]

Next ==
  /\ pc = "ready"
  /\ out' = Append(out, tk.preparedToken)
  /\ tk' = Taken
  /\ pc' = "asked"
  /\ UNCHANGED pieces

Step == HasNext \/ PrepareNext \/ FilterThrows \/ ScanEnds \/ Next

-----------------------------------------------------------------------------
\* The object and its tokens have the types the code gives them.
IsToken(t) == t.body \in Seq(STRING) /\ {t.pos, t.wordPos, t.fileId} \subseteq Nat
TypeOK ==
  /\ tk.text \in Seq(STRING) /\ tk.fileId \in Nat
  /\ tk.i \in 1 .. Len(tk.text) + 1 /\ tk.currentPos \in 0 .. tk.i - 1 /\ tk.wordPos \in Nat
  /\ IsToken(tk.preparedToken)
  /\ pc \in {"rest", "asked", "scan", "ready"}
  /\ \A k \in DOMAIN out : IsToken(out[k])

\* The pieces are the text again, in order: nothing is skipped but blanks, no word is cut
\* or joined to another, no Cyrillic letter is split, half a letter is no letter; and a
\* blank is a piece of its own only directly after a piece that the filters have emptied.
\* (prepareNext, hasNext, isAlnumCustom, tokenizer.cpp:10-112.)
LetterBytes(text) ==
  LET letters == {k \in 1 .. Len(text) - 1 : text[k] = "D" /\ text[k + 1] = "T"}
  IN  {k \in DOMAIN text : text[k] \in Latin} \cup letters \cup {k + 1 : k \in letters}
IsWord(text, from, to) == from .. to \subseteq LetterBytes(text) /\ to + 1 \notin LetterBytes(text)
Reached(k) == IF k = 0 THEN 0 ELSE pieces[k].to
PiecesCover ==
  LET text == tk.text
      Blank(from, to) == \A j \in from .. to : text[j] = " "
  IN  /\ \A k \in DOMAIN pieces :
           LET from == pieces[k].from
               to   == pieces[k].to
           IN  /\ Reached(k - 1) < from /\ Blank(Reached(k - 1) + 1, from - 1)
               /\ \/ text[from] = "<" /\ (from = to \/ text[to] = ">")
                  \/ IsWord(text, from, to)
                  \/ from = to /\ from \notin LetterBytes(text)
               /\ text[from] = " " => k > 1 /\ pieces[k - 1].body = << >>
      /\ Blank(Reached(Len(pieces)) + 1, tk.i - 1)

\* Each token is returned once, in order, under the position of its first byte and with
\* the number of tokens before it: whatever the filters drop, whatever was left when an
\* earlier text was given up, and no token is made up at the end of the text.  Where
\* positions are those of letters, a Cyrillic letter before the token counts once in a
\* word, and still twice in a tag.  (tokenizer.cpp:50-126.)
Tagged == UNION {pieces[n].from .. pieces[n].to :
                   n \in {m \in DOMAIN pieces : tk.text[pieces[m].from] = "<"}}
Before(text, from) ==
  LET letters == {k \in 1 .. from - 2 : text[k] = "D" /\ text[k + 1] = "T"}
  IN  from - 1 - (IF tk.mode = "CLEAR_POSES" THEN Cardinality(letters \ Tagged) ELSE 0)
TokensInPlace ==
  LET all     == IF pc = "ready" THEN Append(out, tk.preparedToken) ELSE out
      Kept(k) == Cardinality({n \in 1 .. k : pieces[n].body # << >>})
  IN  /\ Len(all) = Kept(Len(pieces))
      /\ \A k \in DOMAIN pieces :
           pieces[k].body # << >> =>
             all[Kept(k)] = [body |-> pieces[k].body, pos |-> Before(tk.text, pieces[k].from),
                             wordPos |-> Kept(k) - 1, fileId |-> tk.fileId]

\* The loop `while (hasNext()) next()` gets on: each step of it leaves the place in the text
\* behind or, where it stays, goes on from next to hasNext to the scan to its end; in
\* particular a token that was taken is not offered again at the end of the text.  The
\* text has an end, so the loop has one.  (tokenizer.cpp:50-126.)
MovesOn ==
  /\ tk'.text = tk.text
  /\ \/ tk'.i > tk.i
     \/ /\ tk'.i = tk.i
        /\ \/ pc = "ready" /\ pc' = "asked"
           \/ pc = "asked" /\ pc' = "scan"
           \/ pc = "scan"  /\ pc' = "rest"
ScanAdvances == [][pc # "rest" => MovesOn]_vars

=============================================================================
