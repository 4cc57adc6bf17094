------------------------------ MODULE Context -------------------------------
(***************************************************************************)
(* The text shown around a search result: Engine::returnResultInContext    *)
(* reads a window of each file into one buffer and cuts it at blanks.      *)
(* Places in a text begin at zero, as in the code.                         *)
(***************************************************************************)
EXTENDS Integers, Sequences

CONSTANT Nul   \* the byte a buffer is filled with when it grows

\* The first and the last of some places.
First(S) == CHOOSE n \in S : \A m \in S : n <= m
Last(S)  == CHOOSE n \in S : \A m \in S : m <= n

\* The window: from so many bytes before the phrase, or from the beginning.
ContextStart(phraseStart, symbols) == IF phraseStart >= symbols THEN phraseStart - symbols ELSE 0
ContextSize(symbols, querySize)    == symbols * 2 + querySize

\* FileStorage::read(buffer, bytesToRead, startPos): the buffer gets its size and one
\* more, and keeps behind what was read whatever it held before.
Read(buffer, bytesToRead, text, startPos) ==
  LET left      == Len(text) - startPos
      bytesRead == IF left < bytesToRead THEN left ELSE bytesToRead
  IN  [k \in 1 .. bytesToRead + 1 |->
         IF k <= bytesRead THEN text[startPos + k]
         ELSE IF k <= Len(buffer) THEN buffer[k] ELSE Nul]

\* trimContext: what is between the first and the last blank; with one blank, what is
\* behind it (a length below zero wraps); without one, nothing.  And one that takes the
\* bytes at both ends for the blanks.
Blanks(context) == {k \in DOMAIN context : context[k] = " "}
TrimEnds(context) == SubSeq(context, 2, Len(context) - 1)
TrimContext(context) ==
  LET size  == Len(context)
      first == IF Blanks(context) = {} THEN size ELSE First(Blanks(context)) - 1
      end   == IF Blanks(context) = {} THEN 0 ELSE Last(Blanks(context)) - 1
      start == IF first + 1 < size THEN first + 1 ELSE first
  IN  SubSeq(context, start + 1, IF end < start THEN size ELSE end)

=============================================================================
