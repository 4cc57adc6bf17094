--------------------------- MODULE TokenizerProofs ---------------------------
(***************************************************************************)
(* What one tokenizer does with one text.                                  *)
(***************************************************************************)
EXTENDS Tokenizer, FiniteSetTheorems, WellFoundedInduction, TLAPS

\* A non-empty set of naturals has a least element.
LEMMA LeastNat ==
  ASSUME NEW S, S \subseteq Nat, S # {}
  PROVE  Least(S) \in S /\ \A n \in S : Least(S) <= n
<1> DEFINE R == {ss \in Nat \X Nat : ss[1] < ss[2]}
<1>1. R = OpToRel(<, Nat)
  BY Zenon DEF OpToRel
<1>2. IsWellFoundedOn(R, Nat)
  BY <1>1, NatLessThanWellFounded, Zenon
<1>3. PICK m \in S : \A n \in S : ~ (<<n, m>> \in R)
  <2> HIDE DEF R
  <2> QED
    BY <1>2, WFMin, Zenon
<1>4. \A n \in S : m <= n
  <2> TAKE n \in S
  <2>1. m \in Nat /\ n \in Nat /\ ~ (n < m)
    BY <1>3
  <2> QED
    BY <2>1
<1> QED
  BY <1>4 DEF Least

-----------------------------------------------------------------------------
\* The letters of a text as bytes of the text, and as isAlnumCustom sees them.
LEMMA LettersAreBytes ==
  ASSUME NEW text \in Seq(STRING), NEW k \in Nat
  PROVE  /\ k \in LetterBytes(text) => k \in DOMAIN text
         /\ k \in DOMAIN text => (IsLetter(text, k) <=> k \in LetterBytes(text))
<1>1. DOMAIN text = 1 .. Len(text) /\ Len(text) \in Nat
  OBVIOUS
<1> DEFINE letters == {n \in 1 .. Len(text) - 1 : text[n] = "D" /\ text[n + 1] = "T"}
<1>2. \A n \in Nat \ {0} : IsCyrillic(text, n) <=> n \in letters
  BY <1>1 DEF IsCyrillic
<1>3. letters \subseteq DOMAIN text /\ \A n \in letters : n + 1 \in DOMAIN text
  BY <1>1
<1>4. k \in {n + 1 : n \in letters} <=> k > 1 /\ IsCyrillic(text, k - 1)
  <2>1. ASSUME k \in {n + 1 : n \in letters}
        PROVE  k > 1 /\ IsCyrillic(text, k - 1)
    <3>1. PICK n \in letters : k = n + 1
      BY <2>1
    <3>2. n \in Nat \ {0} /\ k - 1 = n
      BY <3>1, <1>1
    <3> HIDE DEF letters
    <3> QED
      BY <3>1, <3>2, <1>2
  <2>2. ASSUME k > 1, IsCyrillic(text, k - 1)
        PROVE  k \in {n + 1 : n \in letters}
    <3> DEFINE n == k - 1
    <3>1. n \in Nat \ {0} /\ k = n + 1
      BY <2>2
    <3>2. n \in letters
      <4> HIDE DEF letters, n
      <4> QED
        BY <3>1, <1>2, <2>2 DEF n
    <3> QED
      BY <3>1, <3>2
  <2> QED
    BY <2>1, <2>2
<1>5. LetterBytes(text) = {n \in DOMAIN text : text[n] \in Latin} \cup letters \cup {n + 1 : n \in letters}
  BY DEF LetterBytes
<1>6. k \in LetterBytes(text) =>
        k \in DOMAIN text /\ (text[k] \in Latin \/ k \in letters \/ k \in {n + 1 : n \in letters})
  BY <1>5, <1>3
<1>7. k \in DOMAIN text /\ (text[k] \in Latin \/ k \in letters \/ k \in {n + 1 : n \in letters})
        => k \in LetterBytes(text)
  BY <1>5
<1>8. k \in DOMAIN text => k \in Nat \ {0}
  BY <1>1
<1> HIDE DEF letters
<1> QED
  BY <1>2, <1>4, <1>6, <1>7, <1>8 DEF IsLetter

\* A tag ends where it begins, if it is none, or at a closing bracket.
LEMMA TagEndShape ==
  ASSUME NEW text \in Seq(STRING), NEW k \in DOMAIN text
  PROVE  /\ TagEnd(text, k) \in k .. Len(text)
         /\ TagEnd(text, k) = k \/ text[TagEnd(text, k)] = ">"
<1> DEFINE window == {j \in DOMAIN text : k <= j /\ j < k + HtmlLimit}
           name   == IF k + 1 \in window /\ text[k + 1] = "/" THEN k + 2 ELSE k + 1
           closed == {j \in window : j > name /\ text[j] = ">"}
<1>1. DOMAIN text = 1 .. Len(text) /\ Len(text) \in Nat
  OBVIOUS
<1>2. TagEnd(text, k) = IF name \in window /\ text[name] \in Latin /\ closed # {}
                        THEN Least(closed) ELSE k
  BY DEF TagEnd
<1>3. \A j \in closed : j \in k .. Len(text) /\ text[j] = ">"
  BY <1>1
<1>4. closed # {} => Least(closed) \in closed
  <2>1. closed \subseteq Nat
    BY <1>1
  <2> HIDE DEF closed
  <2> QED
    BY <2>1, LeastNat
<1>5. k \in k .. Len(text)
  BY <1>1
<1> HIDE DEF closed, name, window
<1> QED
  BY <1>2, <1>3, <1>4, <1>5

\* A word goes on to the last of the letters that follow one another.
WordEnd(text, k) == Least({j \in k .. Len(text) : j = Len(text) \/ ~IsLetter(text, j + 1)})
LEMMA WordEndShape ==
  ASSUME NEW text \in Seq(STRING), NEW k \in DOMAIN text, IsLetter(text, k)
  PROVE  WordEnd(text, k) \in k .. Len(text) /\ IsWord(text, k, WordEnd(text, k))
<1> DEFINE ends == {j \in k .. Len(text) : j = Len(text) \/ ~IsLetter(text, j + 1)}
           e    == WordEnd(text, k)
<1>1. DOMAIN text = 1 .. Len(text) /\ Len(text) \in Nat /\ k \in 1 .. Len(text)
  OBVIOUS
<1>2. e \in ends /\ \A n \in ends : e <= n
  <2>1. ends \subseteq Nat /\ Len(text) \in ends
    BY <1>1
  <2>2. e = Least(ends)
    BY DEF WordEnd
  <2> HIDE DEF ends, e
  <2> QED
    BY <2>1, <2>2, LeastNat
<1>3. e \in k .. Len(text) /\ (e = Len(text) \/ ~IsLetter(text, e + 1))
  BY <1>2
<1>4. ASSUME NEW j \in k .. e PROVE j \in LetterBytes(text)
  <2>1. j \in Nat /\ j \in DOMAIN text
    BY <1>1, <1>3
  <2>2. IsLetter(text, j)
    <3>1. CASE j = k
      BY <3>1
    <3>2. CASE j # k
      <4> DEFINE i == j - 1
      <4>1. i \in k .. Len(text) /\ i < e /\ i + 1 = j /\ i # Len(text)
        BY <3>2, <1>1, <1>3
      <4>2. i \notin ends
        <5> HIDE DEF ends, e, i
        <5>1. k \in Int /\ i \in Int /\ e \in Int
          <6>1. k \in Int
            BY <1>1
          <6> QED
            BY <4>1, <1>3, <6>1
        <5> QED
          BY <5>1, <4>1, <1>2
      <4> QED
        BY <4>1, <4>2
    <3> QED
      BY <3>1, <3>2
  <2> QED
    BY <2>1, <2>2, LettersAreBytes
<1>5. e + 1 \notin LetterBytes(text)
  <2> DEFINE n == e + 1
  <2>1. n \in Nat /\ (n \notin DOMAIN text \/ ~IsLetter(text, n))
    BY <1>1, <1>3
  <2> HIDE DEF n
  <2>2. n \notin LetterBytes(text)
    BY <2>1, LettersAreBytes
  <2> QED
    BY <2>2 DEF n
<1> QED
  BY <1>3, <1>4, <1>5 DEF IsWord

\* What a piece of a text may be, whatever begins it: it ends inside the text and never
\* between the two bytes of a letter.
IsPiece(text, from, to) ==
  \/ text[from] = "<" /\ (from = to \/ text[to] = ">")
  \/ IsWord(text, from, to)
  \/ from = to /\ from \notin LetterBytes(text)
LEMMA PieceEndShape ==
  ASSUME NEW text \in Seq(STRING), NEW k \in DOMAIN text
  PROVE  /\ PieceEnd(text, k) \in k .. Len(text)
         /\ IsPiece(text, k, PieceEnd(text, k))
         /\ ~IsCyrillic(text, PieceEnd(text, k))
<1>1. DOMAIN text = 1 .. Len(text) /\ Len(text) \in Nat /\ k \in 1 .. Len(text) /\ k \in Nat
  OBVIOUS
<1>2. CASE text[k] = "<"
  <2>1. PieceEnd(text, k) = TagEnd(text, k)
    BY <1>2 DEF PieceEnd
  <2> DEFINE e == TagEnd(text, k)
  <2>2. e \in k .. Len(text) /\ (e = k \/ text[e] = ">")
    BY TagEndShape
  <2>3. text[e] # "D"
    BY <2>2, <1>2
  <2> HIDE DEF e
  <2> QED
    BY <1>2, <2>1, <2>2, <2>3 DEF e, IsPiece, IsCyrillic
<1>3. CASE text[k] # "<" /\ IsLetter(text, k)
  <2>1. PieceEnd(text, k) = WordEnd(text, k)
    BY <1>3 DEF PieceEnd, WordEnd
  <2> DEFINE e == WordEnd(text, k)
             n == e + 1
  <2>2. e \in k .. Len(text) /\ IsWord(text, k, e)
    BY <1>3, WordEndShape
  <2>3. ~IsCyrillic(text, e)
    <3>1. SUFFICES ASSUME IsCyrillic(text, e) PROVE FALSE
      OBVIOUS
    <3>2. e < Len(text) /\ n \in Nat /\ n - 1 = e /\ n > 1 /\ n \in DOMAIN text
      <4> HIDE DEF e
      <4> QED
        BY <3>1, <2>2, <1>1 DEF IsCyrillic
    <3>3. n \notin LetterBytes(text)
      BY <2>2 DEF IsWord
    <3> HIDE DEF n, e
    <3>4. IsLetter(text, n)
      BY <3>1, <3>2 DEF IsLetter
    <3> QED
      BY <3>2, <3>3, <3>4, LettersAreBytes
  <2> HIDE DEF e
  <2> QED
    BY <2>1, <2>2, <2>3 DEF e, IsPiece
<1>4. CASE text[k] # "<" /\ ~IsLetter(text, k)
  <2>1. PieceEnd(text, k) = k
    BY <1>4 DEF PieceEnd
  <2>2. k \notin LetterBytes(text)
    BY <1>1, <1>4, LettersAreBytes
  <2>3. ~IsCyrillic(text, k)
    BY <1>4 DEF IsLetter
  <2> QED
    BY <1>1, <2>1, <2>2, <2>3 DEF IsPiece
<1> QED
  BY <1>2, <1>3, <1>4

-----------------------------------------------------------------------------
\* Positions: the bytes before a place, with the letters among them counted as the
\* mode says, but those of tags as bytes: tags is the set of places inside tags.  A place
\* does not cut a letter when none begins right before it.
CyrillicIn(text, tags, a, b) == {k \in a .. b : IsCyrillic(text, k)} \ tags
BeforeIn(mode, text, tags, from) ==
  from - 1
    - (IF mode = "CLEAR_POSES" THEN Cardinality(CyrillicIn(text, tags, 1, from - 2)) ELSE 0)
Blank(text, a, b) == \A k \in a .. b : text[k] = " "
Uncut(text, k) == ~ (k > 1 /\ IsCyrillic(text, k - 1))

LEMMA CyrillicCount ==
  ASSUME NEW text, NEW tags, NEW a \in Int, NEW b \in Int
  PROVE  /\ IsFiniteSet(CyrillicIn(text, tags, a, b))
         /\ Cardinality(CyrillicIn(text, tags, a, b)) \in Nat
         /\ Cardinality(CyrillicIn(text, tags, a, b)) <= IF a > b THEN 0 ELSE b - a + 1
<1>1. CyrillicIn(text, tags, a, b) \in SUBSET (a .. b)
  BY DEF CyrillicIn
<1>2. IsFiniteSet(a .. b) /\ Cardinality(a .. b) = IF a > b THEN 0 ELSE b - a + 1
  BY FS_Interval
<1>3. /\ IsFiniteSet(CyrillicIn(text, tags, a, b))
      /\ Cardinality(CyrillicIn(text, tags, a, b)) <= Cardinality(a .. b)
  BY <1>1, <1>2, FS_Subset
<1> QED
  BY <1>2, <1>3, FS_CardinalityType

\* The places inside the tags among some pieces.
TaggedIn(text, ps) ==
  UNION {ps[n].from .. ps[n].to : n \in {m \in DOMAIN ps : text[ps[m].from] = "<"}}

LEMMA BeforeIsBeforeIn ==
  ASSUME NEW text \in Seq(STRING), text = tk.text, NEW from \in 1 .. Len(text) + 1
  PROVE  Before(text, from) = BeforeIn(tk.mode, text, TaggedIn(text, pieces), from)
<1>1. Len(text) \in Nat
  OBVIOUS
<1>2. \A k \in 1 .. from - 2 : IsCyrillic(text, k) <=> text[k] = "D" /\ text[k + 1] = "T"
  BY <1>1 DEF IsCyrillic
<1>3. {k \in 1 .. from - 2 : text[k] = "D" /\ text[k + 1] = "T"}
        = {k \in 1 .. from - 2 : IsCyrillic(text, k)}
  BY <1>2
<1>4. Tagged = TaggedIn(text, pieces)
  BY DEF Tagged, TaggedIn
<1> QED
  BY <1>3, <1>4 DEF Before, BeforeIn, CyrillicIn

LEMMA BeforeBound ==
  ASSUME NEW mode, NEW text, NEW tags, NEW from \in Nat \ {0}
  PROVE  BeforeIn(mode, text, tags, from) \in 0 .. from - 1
<1> DEFINE n == Cardinality(CyrillicIn(text, tags, 1, from - 2))
<1>1. n \in Nat /\ n <= IF 1 > from - 2 THEN 0 ELSE from - 2 - 1 + 1
  <2>1. 1 \in Int /\ from - 2 \in Int
    OBVIOUS
  <2> QED
    BY <2>1, CyrillicCount
<1> HIDE DEF n
<1> QED
  BY <1>1 DEF BeforeIn, n

\* What stands before a place does not depend on tags behind it.
LEMMA BeforeSameTags ==
  ASSUME NEW mode, NEW text, NEW from \in Nat \ {0}, NEW tags, NEW more,
         \A k \in 1 .. from - 1 : k \in tags <=> k \in more
  PROVE  BeforeIn(mode, text, tags, from) = BeforeIn(mode, text, more, from)
<1>1. \A k \in 1 .. from - 2 : k \in tags <=> k \in more
  OBVIOUS
<1>2. CyrillicIn(text, tags, 1, from - 2) = CyrillicIn(text, more, 1, from - 2)
  BY <1>1 DEF CyrillicIn
<1> QED
  BY <1>2 DEF BeforeIn

\* Over blanks every byte counts, and no letter begins in them.
LEMMA BeforeOverBlanks ==
  ASSUME NEW mode, NEW text, NEW tags, NEW from \in Nat \ {0}, NEW to \in Nat, from <= to,
         Uncut(text, from), Blank(text, from, to - 1)
  PROVE  /\ BeforeIn(mode, text, tags, to) = BeforeIn(mode, text, tags, from) + to - from
         /\ Uncut(text, to)
<1>1. \A k \in from .. to - 1 : ~IsCyrillic(text, k)
  BY DEF IsCyrillic, Blank
<1>2. from > 1 => ~IsCyrillic(text, from - 1)
  BY DEF Uncut
<1>3. \A k \in 1 .. to - 2 : IsCyrillic(text, k) => k \in 1 .. from - 2
  <2> TAKE k \in 1 .. to - 2
  <2>1. k \in 1 .. from - 2 \/ (from > 1 /\ k = from - 1) \/ k \in from .. to - 1
    OBVIOUS
  <2> QED
    BY <2>1, <1>1, <1>2
<1>4. CyrillicIn(text, tags, 1, to - 2) = CyrillicIn(text, tags, 1, from - 2)
  <2>1. CyrillicIn(text, tags, 1, to - 2) \subseteq CyrillicIn(text, tags, 1, from - 2)
    BY <1>3 DEF CyrillicIn
  <2>2. CyrillicIn(text, tags, 1, from - 2) \subseteq CyrillicIn(text, tags, 1, to - 2)
    BY DEF CyrillicIn
  <2> QED
    BY <2>1, <2>2
<1>5. Cardinality(CyrillicIn(text, tags, 1, from - 2)) \in Nat
  <2>1. 1 \in Int /\ from - 2 \in Int
    OBVIOUS
  <2> QED
    BY <2>1, CyrillicCount
<1>6. BeforeIn(mode, text, tags, to) = BeforeIn(mode, text, tags, from) + to - from
  BY <1>4, <1>5 DEF BeforeIn
<1>7. Uncut(text, to)
  <2>1. CASE to = from
    BY <2>1
  <2>2. CASE to # from
    <3>1. to - 1 \in from .. to - 1
      BY <2>2
    <3> QED
      BY <3>1, <1>1 DEF Uncut
  <2> QED
    BY <2>1, <2>2
<1> QED
  BY <1>6, <1>7

\* currentPos moves over a piece by what is counted between its ends: letters as the mode
\* says, but in a tag, whose places are then those of a tag, the bytes.
WithTag(text, tags, from, to) == IF text[from] = "<" THEN tags \cup (from .. to) ELSE tags
LEMMA BeforeOverPiece ==
  ASSUME NEW mode, NEW text, NEW tags, NEW from \in Nat \ {0}, NEW to \in Nat, from <= to,
         \A k \in tags : k < from, tags \subseteq Int,
         Uncut(text, from), ~IsCyrillic(text, to)
  PROVE  /\ BeforeIn(mode, text, WithTag(text, tags, from, to), to + 1)
              = BeforeIn(mode, text, tags, from) + Advance(mode, text, from, to)
         /\ Advance(mode, text, from, to) \in Int
         /\ Uncut(text, to + 1)
<1> DEFINE more  == WithTag(text, tags, from, to)
           A     == CyrillicIn(text, tags, 1, from - 2)
           B     == CyrillicIn(text, more, from, to)
           C     == CyrillicIn(text, more, 1, to - 1)
           count == IF text[from] # "<" THEN LettersIn(text, from, to) ELSE 0
<1>1. from > 1 => ~IsCyrillic(text, from - 1)
  BY DEF Uncut
<1>0. \A k \in 1 .. from - 1 : k \in tags <=> k \in more
  BY DEF WithTag
<1>2. C = A \cup B
  <2>1. ASSUME NEW k \in C PROVE k \in A \cup B
    <3>1. k \in 1 .. to - 1 /\ IsCyrillic(text, k) /\ k \notin more
      BY <2>1 DEF CyrillicIn
    <3>2. k \in 1 .. from - 2 \/ (from > 1 /\ k = from - 1) \/ k \in from .. to
      BY <3>1
    <3> HIDE DEF more
    <3> QED
      BY <3>1, <3>2, <1>0, <1>1 DEF CyrillicIn
  <2>2. ASSUME NEW k \in A PROVE k \in C
    <3>1. k \in 1 .. from - 2 /\ IsCyrillic(text, k) /\ k \notin tags
      BY <2>2 DEF CyrillicIn
    <3>2. k \in 1 .. to - 1 /\ k \in 1 .. from - 1
      BY <3>1
    <3> HIDE DEF more
    <3> QED
      BY <3>1, <3>2, <1>0 DEF CyrillicIn
  <2>3. ASSUME NEW k \in B PROVE k \in C
    <3>1. k \in from .. to /\ IsCyrillic(text, k) /\ k \notin more
      BY <2>3 DEF CyrillicIn
    <3>2. k \in 1 .. to - 1
      BY <3>1
    <3> HIDE DEF more
    <3> QED
      BY <3>1, <3>2 DEF CyrillicIn
  <2> QED
    BY <2>1, <2>2, <2>3
<1>3. A \cap B = {}
  BY DEF CyrillicIn
<1>4. /\ IsFiniteSet(A) /\ IsFiniteSet(B)
      /\ Cardinality(A) \in Nat /\ Cardinality(B) \in Nat
  <2>1. 1 \in Int /\ from - 2 \in Int /\ from \in Int /\ to \in Int
    OBVIOUS
  <2> QED
    BY <2>1, CyrillicCount
<1>5. Cardinality(C) = Cardinality(A) + Cardinality(B)
  <2> HIDE DEF A, B, C
  <2>1. Cardinality(A \cup B) = Cardinality(A) + Cardinality(B) - Cardinality(A \cap B)
    BY <1>4, FS_Union
  <2>2. Cardinality(A \cap B) = 0
    BY <1>3, FS_EmptySet
  <2> QED
    BY <1>2, <1>4, <2>1, <2>2
<1>10. count = Cardinality(B)
  <2>1. CASE text[from] = "<"
    <3>1. B = {}
      BY <2>1 DEF CyrillicIn, WithTag
    <3> QED
      BY <2>1, <3>1, FS_EmptySet
  <2>2. CASE text[from] # "<"
    <3>1. B = {k \in from .. to : IsCyrillic(text, k)}
      BY <2>2 DEF CyrillicIn, WithTag
    <3> QED
      BY <2>2, <3>1 DEF LettersIn
  <2> QED
    BY <2>1, <2>2
<1>6. Advance(mode, text, from, to)
        = to - from + 1 - (IF mode = "CLEAR_POSES" THEN count ELSE 0)
  BY DEF Advance
<1>7. BeforeIn(mode, text, tags, from) = from - 1 - (IF mode = "CLEAR_POSES" THEN Cardinality(A) ELSE 0)
  BY DEF BeforeIn
<1>8. BeforeIn(mode, text, more, to + 1) = to - (IF mode = "CLEAR_POSES" THEN Cardinality(C) ELSE 0)
  <2>1. to + 1 - 2 = to - 1 /\ to + 1 - 1 = to
    OBVIOUS
  <2> HIDE DEF more
  <2> QED
    BY <2>1 DEF BeforeIn
<1>9. Uncut(text, to + 1)
  <2>1. to + 1 - 1 = to
    OBVIOUS
  <2> QED
    BY <2>1 DEF Uncut
<1> HIDE DEF A, B, C, count, more
<1>11. BeforeIn(mode, text, more, to + 1) = BeforeIn(mode, text, tags, from) + Advance(mode, text, from, to)
  BY <1>4, <1>5, <1>6, <1>7, <1>8, <1>10
<1>12. Advance(mode, text, from, to) \in Int
  BY <1>4, <1>6, <1>10
<1> QED
  BY <1>9, <1>11, <1>12 DEF more

-----------------------------------------------------------------------------
\* Every filter makes a text of a text.
LEMMA ApplyFiltersText ==
  ASSUME NEW filters, NEW raw \in Seq(STRING), \A x \in DOMAIN LowerOf : LowerOf[x] \in STRING
  PROVE  ApplyFilters(filters, raw) \in Seq(STRING)
<1> DEFINE Filtered(filter, body) ==
             IF body = << >> \/ filter \notin filters THEN body ELSE Process(filter, body)
<1>1. ASSUME NEW body \in Seq(STRING) PROVE Lowercase(body) \in Seq(STRING)
  <2>1. Len(body) \in Nat /\ DOMAIN body = 1 .. Len(body)
    OBVIOUS
  <2>2. \A k \in 1 .. Len(body) :
          (IF body[k] \in DOMAIN LowerOf THEN LowerOf[body[k]] ELSE body[k]) \in STRING
    OBVIOUS
  <2>3. Lowercase(body) \in [1 .. Len(body) -> STRING]
    BY <2>1, <2>2 DEF Lowercase
  <2> QED
    BY <2>1, <2>3
<1>2. << >> \in Seq(STRING)
  OBVIOUS
<1>3. ASSUME NEW body \in Seq(STRING),
             NEW filter \in {"Lowercaser", "Htmler", "Punctuator", "StopWords"}
      PROVE  Filtered(filter, body) \in Seq(STRING)
  <2>1. Process(filter, body) \in {Lowercase(body), << >>, body}
    BY DEF Process
  <2> QED
    BY <1>1, <1>2, <2>1
<1>4. ApplyFilters(filters, raw) =
        Filtered("StopWords", Filtered("Punctuator", Filtered("Htmler", Filtered("Lowercaser", raw))))
  BY DEF ApplyFilters
<1> HIDE DEF Filtered
<1> QED
  BY <1>3, <1>4

-----------------------------------------------------------------------------
\* PiecesCover, of the pieces of a text up to a place.
Piece == [from : Nat, to : Nat, body : Seq(STRING)]
ReachedIn(ps, k) == IF k = 0 THEN 0 ELSE ps[k].to
CoveredAt(text, ps, k) ==
  /\ ReachedIn(ps, k - 1) < ps[k].from
  /\ Blank(text, ReachedIn(ps, k - 1) + 1, ps[k].from - 1)
  /\ IsPiece(text, ps[k].from, ps[k].to)
  /\ text[ps[k].from] = " " => k > 1 /\ ps[k - 1].body = << >>
Covered(text, ps, i) ==
  /\ \A k \in DOMAIN ps : CoveredAt(text, ps, k)
  /\ Blank(text, ReachedIn(ps, Len(ps)) + 1, i - 1)
EndsEmptied(ps) == ps # << >> /\ ps[Len(ps)].body = << >>
BlankAfterEmptied(text, ps, i) == text[i] = " " => EndsEmptied(ps)

LEMMA CoveredIsPiecesCover == PiecesCover <=> Covered(tk.text, pieces, tk.i)
  BY DEF PiecesCover, Covered, CoveredAt, Reached, ReachedIn, Blank, IsPiece

LEMMA AppendedPiece ==
  ASSUME NEW ps \in Seq(Piece), NEW p \in Piece
  PROVE  /\ Append(ps, p) \in Seq(Piece)
         /\ Len(Append(ps, p)) = Len(ps) + 1 /\ Append(ps, p)[Len(ps) + 1] = p
         /\ DOMAIN ps = 1 .. Len(ps) /\ Len(ps) \in Nat
         /\ \A k \in DOMAIN ps : Append(ps, p)[k] = ps[k]
         /\ DOMAIN Append(ps, p) = DOMAIN ps \cup {Len(ps) + 1}
  OBVIOUS

LEMMA CoveredAppend ==
  ASSUME NEW text, NEW ps \in Seq(Piece), NEW p \in Piece,
         Covered(text, ps, p.from), ReachedIn(ps, Len(ps)) < p.from,
         IsPiece(text, p.from, p.to), BlankAfterEmptied(text, ps, p.from)
  PROVE  Covered(text, Append(ps, p), p.to + 1)
<1> DEFINE new  == Append(ps, p)
           last == Len(ps) + 1
<1>1. /\ DOMAIN ps = 1 .. Len(ps) /\ Len(ps) \in Nat /\ Len(new) = last /\ new[last] = p
      /\ \A k \in DOMAIN ps : new[k] = ps[k]
      /\ DOMAIN new = DOMAIN ps \cup {last} /\ last = Len(ps) + 1
  BY AppendedPiece
<1>0. p.to \in Nat /\ p.from \in Nat
  BY DEF Piece
<1> HIDE DEF new, last
<1>2. \A k \in 0 .. Len(ps) : ReachedIn(new, k) = ReachedIn(ps, k)
  BY <1>1 DEF ReachedIn
<1>3. \A k \in DOMAIN ps : CoveredAt(text, new, k)
  <2> TAKE k \in DOMAIN ps
  <2>1. CoveredAt(text, ps, k)
    BY DEF Covered
  <2>2. k - 1 \in 0 .. Len(ps) /\ (k > 1 => k - 1 \in DOMAIN ps)
    BY <1>1
  <2>3. ReachedIn(new, k - 1) = ReachedIn(ps, k - 1) /\ new[k] = ps[k]
    BY <1>1, <1>2, <2>2
  <2>4. k > 1 => new[k - 1] = ps[k - 1]
    BY <1>1, <2>2
  <2> QED
    BY <2>1, <2>3, <2>4 DEF CoveredAt
<1>4. CoveredAt(text, new, last)
  <2>1. last - 1 = Len(ps) /\ last - 1 \in 0 .. Len(ps)
    BY <1>1
  <2>2. ReachedIn(new, last - 1) = ReachedIn(ps, Len(ps)) /\ new[last] = p
    BY <1>1, <1>2, <2>1
  <2>3. Blank(text, ReachedIn(ps, Len(ps)) + 1, p.from - 1)
    BY DEF Covered
  <2>4. EndsEmptied(ps) => last > 1 /\ new[last - 1].body = << >>
    <3>1. ASSUME EndsEmptied(ps) PROVE Len(ps) \in DOMAIN ps /\ ps[Len(ps)].body = << >>
      BY <3>1, <1>1 DEF EndsEmptied
    <3> QED
      BY <3>1, <1>1, <2>1
  <2> QED
    BY <2>2, <2>3, <2>4 DEF CoveredAt, BlankAfterEmptied
<1> DEFINE end == p.to + 1
<1>5. Blank(text, ReachedIn(new, Len(new)) + 1, end - 1)
  <2>1. ReachedIn(new, Len(new)) + 1 = end
    BY <1>0, <1>1 DEF ReachedIn
  <2>2. end \in Nat
    BY <1>0
  <2> HIDE DEF end
  <2>3. \A k \in end .. end - 1 : FALSE
    BY <2>2
  <2>4. Blank(text, end, end - 1)
    BY <2>3 DEF Blank
  <2> QED
    BY <2>1, <2>4
<1> HIDE DEF end
<1>6. \A k \in DOMAIN new : CoveredAt(text, new, k)
  BY <1>1, <1>3, <1>4
<1>7. Covered(text, new, end)
  BY <1>5, <1>6 DEF Covered
<1> QED
  BY <1>7 DEF new, end

LEMMA CoveredOverBlanks ==
  ASSUME NEW text, NEW ps \in Seq(Piece), NEW i \in Nat, NEW j \in Nat,
         Covered(text, ps, i), ReachedIn(ps, Len(ps)) \in Nat, i <= j, Blank(text, i, j - 1)
  PROVE  Covered(text, ps, j)
<1>1. /\ \A k \in DOMAIN ps : CoveredAt(text, ps, k)
      /\ Blank(text, ReachedIn(ps, Len(ps)) + 1, i - 1)
  BY DEF Covered
<1>2. Blank(text, ReachedIn(ps, Len(ps)) + 1, j - 1)
  <2> DEFINE at == ReachedIn(ps, Len(ps)) + 1
  <2>1. SUFFICES ASSUME NEW k \in at .. j - 1 PROVE text[k] = " "
    BY DEF Blank
  <2>2. at \in Nat
    OBVIOUS
  <2> HIDE DEF at
  <2>3. k \in at .. i - 1 \/ k \in i .. j - 1
    BY <2>2
  <2> QED
    BY <1>1, <2>3 DEF Blank, at
<1> QED
  BY <1>1, <1>2 DEF Covered

-----------------------------------------------------------------------------
\* TokensInPlace, of the tokens made of some pieces.
Token == [body : Seq(STRING), pos : Nat, wordPos : Nat, fileId : Nat]
Kept(ps, k) == Cardinality({n \in 1 .. k : ps[n].body # << >>})
InPlaceAt(mode, text, id, ps, all, k) ==
  ps[k].body # << >> =>
    all[Kept(ps, k)] =
      [body |-> ps[k].body, pos |-> BeforeIn(mode, text, TaggedIn(text, ps), ps[k].from),
       wordPos |-> Kept(ps, k) - 1, fileId |-> id]
InPlace(mode, text, id, ps, all) ==
  /\ Len(all) = Kept(ps, Len(ps))
  /\ \A k \in DOMAIN ps : InPlaceAt(mode, text, id, ps, all, k)

LEMMA KeptCounts ==
  ASSUME NEW ps, NEW k \in Nat
  PROVE  /\ Kept(ps, k) \in Nat
         /\ \A m \in 0 .. k : Kept(ps, m) \in Nat /\ Kept(ps, m) <= Kept(ps, k)
         /\ Kept(ps, k + 1) = Kept(ps, k) + (IF ps[k + 1].body # << >> THEN 1 ELSE 0)
<1> DEFINE S(m) == {n \in 1 .. m : ps[n].body # << >>}
<1>1. \A m \in Nat : IsFiniteSet(S(m)) /\ Cardinality(S(m)) \in Nat
  <2> TAKE m \in Nat
  <2>1. IsFiniteSet(1 .. m)
    BY FS_Interval
  <2>2. S(m) \in SUBSET (1 .. m)
    OBVIOUS
  <2> HIDE DEF S
  <2>3. IsFiniteSet(S(m))
    BY <2>1, <2>2, FS_Subset
  <2> QED
    BY <2>3, FS_CardinalityType
<1>2. \A m \in 0 .. k : S(m) \in SUBSET S(k)
  OBVIOUS
<1>3. S(k + 1) = IF ps[k + 1].body # << >> THEN S(k) \cup {k + 1} ELSE S(k)
  <2>1. 1 .. k + 1 = (1 .. k) \cup {k + 1}
    OBVIOUS
  <2>2. \A n : n \in S(k + 1) <=> n \in 1 .. k + 1 /\ ps[n].body # << >>
    OBVIOUS
  <2>3. \A n : n \in S(k) <=> n \in 1 .. k /\ ps[n].body # << >>
    OBVIOUS
  <2> HIDE DEF S
  <2> QED
    BY <2>1, <2>2, <2>3
<1>4. k + 1 \notin S(k)
  OBVIOUS
<1>5. \A m : Kept(ps, m) = Cardinality(S(m))
  BY DEF Kept
<1> HIDE DEF S
<1>6. \A m \in 0 .. k : Cardinality(S(m)) \in Nat /\ Cardinality(S(m)) <= Cardinality(S(k))
  <2> TAKE m \in 0 .. k
  <2>1. Cardinality(S(m)) <= Cardinality(S(k))
    BY <1>1, <1>2, FS_Subset
  <2> QED
    BY <1>1, <2>1
<1>7. Cardinality(S(k + 1)) = Cardinality(S(k)) + (IF ps[k + 1].body # << >> THEN 1 ELSE 0)
  <2>1. Cardinality(S(k) \cup {k + 1}) = Cardinality(S(k)) + 1
    BY <1>1, <1>4, FS_AddElement
  <2>2. CASE ps[k + 1].body # << >>
    BY <1>3, <2>1, <2>2
  <2>3. CASE ~ (ps[k + 1].body # << >>)
    <3>1. S(k + 1) = S(k) /\ Cardinality(S(k)) \in Nat
      BY <1>1, <1>3, <2>3
    <3> QED
      BY <3>1, <2>3
  <2> QED
    BY <2>2, <2>3
<1> QED
  BY <1>1, <1>5, <1>6, <1>7

LEMMA KeptAppend ==
  ASSUME NEW ps \in Seq(Piece), NEW p \in Piece, NEW k \in 0 .. Len(ps)
  PROVE  Kept(Append(ps, p), k) = Kept(ps, k)
<1>1. \A n \in 1 .. k : Append(ps, p)[n] = ps[n]
  OBVIOUS
<1> QED
  BY <1>1 DEF Kept

\* The pieces lie one behind the other and before a place.
Behind(text, ps, i) ==
  \A k \in DOMAIN ps :
    /\ ps[k].from \in DOMAIN text /\ ps[k].from \in Nat \ {0} /\ ps[k].to \in Nat
    /\ ps[k].from <= ps[k].to /\ ps[k].to < i

\* The tags of pieces lie before them; one more piece changes nothing before it.
LEMMA TagsAppend ==
  ASSUME NEW text, NEW ps \in Seq(Piece), NEW p \in Piece, Behind(text, ps, p.from)
  PROVE  /\ TaggedIn(text, Append(ps, p)) = WithTag(text, TaggedIn(text, ps), p.from, p.to)
         /\ TaggedIn(text, ps) \subseteq Int /\ \A k \in TaggedIn(text, ps) : k < p.from
         /\ \A mode : \A from \in 1 .. p.from :
              BeforeIn(mode, text, TaggedIn(text, Append(ps, p)), from)
                = BeforeIn(mode, text, TaggedIn(text, ps), from)
<1> DEFINE new  == Append(ps, p)
           last == Len(ps) + 1
           old  == TaggedIn(text, ps)
<1>1. /\ Len(ps) \in Nat /\ new[last] = p /\ \A k \in DOMAIN ps : new[k] = ps[k]
      /\ DOMAIN new = DOMAIN ps \cup {last} /\ last \notin DOMAIN ps
  BY AppendedPiece
<1>2. p.from \in Nat /\ p.to \in Nat
  BY DEF Piece
<1>3. old \subseteq Int /\ \A k \in old : k < p.from
  <2>1. ASSUME NEW k \in old PROVE k \in Int /\ k < p.from
    <3>1. PICK m \in DOMAIN ps : k \in ps[m].from .. ps[m].to
      BY DEF TaggedIn
    <3> QED
      BY <1>2, <3>1 DEF Behind
  <2> QED
    BY <2>1
<1> HIDE DEF new, last
<1>4. \A k : k \in TaggedIn(text, new) <=>
              \E m \in DOMAIN new : text[new[m].from] = "<" /\ k \in new[m].from .. new[m].to
  BY DEF TaggedIn
<1>5. \A k : k \in old <=>
              \E m \in DOMAIN ps : text[ps[m].from] = "<" /\ k \in ps[m].from .. ps[m].to
  BY DEF TaggedIn
<1> HIDE DEF old
<1>6. \A k : k \in TaggedIn(text, new) <=>
              k \in old \/ (text[p.from] = "<" /\ k \in p.from .. p.to)
  BY <1>1, <1>4, <1>5, Zenon
<1>7. TaggedIn(text, new) = WithTag(text, old, p.from, p.to)
  BY <1>6 DEF WithTag
<1>8. ASSUME NEW mode, NEW from \in 1 .. p.from
      PROVE  BeforeIn(mode, text, TaggedIn(text, new), from) = BeforeIn(mode, text, old, from)
  <2>1. \A k \in 1 .. from - 1 : k \in TaggedIn(text, new) <=> k \in old
    BY <1>2, <1>6
  <2>2. from \in Nat \ {0}
    BY <1>2
  <2> QED
    BY <2>1, <2>2, BeforeSameTags
<1> QED
  BY <1>3, <1>7, <1>8 DEF new, old

\* A piece the filters have emptied adds no token; another adds its own as the last.
LEMMA InPlaceAppend ==
  ASSUME NEW mode, NEW text, NEW id, NEW ps \in Seq(Piece), NEW all \in Seq(Token),
         InPlace(mode, text, id, ps, all), NEW p \in Piece, p.from # 0,
         Behind(text, ps, p.from)
  PROVE  /\ p.body = << >> => InPlace(mode, text, id, Append(ps, p), all)
         /\ \A t \in Token :
              p.body # << >>
              /\ t = [body |-> p.body, pos |-> BeforeIn(mode, text, TaggedIn(text, ps), p.from),
                      wordPos |-> Len(all), fileId |-> id]
              => InPlace(mode, text, id, Append(ps, p), Append(all, t))
<1> DEFINE new  == Append(ps, p)
           last == Len(ps) + 1
<1>1. /\ DOMAIN ps = 1 .. Len(ps) /\ Len(ps) \in Nat /\ Len(new) = last /\ new[last] = p
      /\ \A k \in DOMAIN ps : new[k] = ps[k]
      /\ DOMAIN new = DOMAIN ps \cup {last}
  BY AppendedPiece
<1>2. \A k \in 0 .. Len(ps) : Kept(new, k) = Kept(ps, k)
  BY KeptAppend
<1>3. Len(all) = Kept(ps, Len(ps)) /\ Len(all) \in Nat
  BY DEF InPlace
<1>4. Kept(new, last) = Len(all) + (IF p.body # << >> THEN 1 ELSE 0)
  <2>1. Len(ps) \in 0 .. Len(ps)
    BY <1>1
  <2>2. Kept(new, Len(ps)) = Len(all)
    BY <1>2, <1>3, <2>1
  <2> HIDE DEF new
  <2> QED
    BY <1>1, <2>2, KeptCounts
<1>5. \A k \in DOMAIN ps : Kept(ps, k) \in Nat /\ Kept(ps, k) <= Len(all)
                           /\ (ps[k].body # << >> => Kept(ps, k) >= 1)
  <2> TAKE k \in DOMAIN ps
  <2> DEFINE before == k - 1
  <2>1. k \in 0 .. Len(ps) /\ before \in Nat /\ before + 1 = k
    BY <1>1
  <2>2. Kept(ps, k) \in Nat /\ Kept(ps, k) <= Kept(ps, Len(ps))
    BY <1>1, <2>1, KeptCounts
  <2> HIDE DEF before
  <2>3. /\ Kept(ps, before) \in Nat
        /\ Kept(ps, before + 1) = Kept(ps, before) + (IF ps[before + 1].body # << >> THEN 1 ELSE 0)
    BY <2>1, KeptCounts
  <2> QED
    BY <1>3, <2>1, <2>2, <2>3
<1>9. /\ \A k \in DOMAIN ps : BeforeIn(mode, text, TaggedIn(text, new), ps[k].from)
                                = BeforeIn(mode, text, TaggedIn(text, ps), ps[k].from)
      /\ BeforeIn(mode, text, TaggedIn(text, new), p.from)
           = BeforeIn(mode, text, TaggedIn(text, ps), p.from)
  <2>1. \A from \in 1 .. p.from : BeforeIn(mode, text, TaggedIn(text, new), from)
                                     = BeforeIn(mode, text, TaggedIn(text, ps), from)
    BY TagsAppend
  <2>2. p.from \in 1 .. p.from /\ p.from \in Nat
    BY DEF Piece
  <2>3. \A k \in DOMAIN ps : ps[k].from \in 1 .. p.from
    BY <2>2 DEF Behind
  <2> HIDE DEF new
  <2> QED
    BY <2>1, <2>2, <2>3
<1> HIDE DEF new, last
<1>6. ASSUME NEW more,
             Len(more) = Kept(new, last),
             \A m \in 1 .. Len(all) : more[m] = all[m],
             InPlaceAt(mode, text, id, new, more, last)
      PROVE  InPlace(mode, text, id, new, more)
  <2>1. ASSUME NEW k \in DOMAIN ps PROVE InPlaceAt(mode, text, id, new, more, k)
    <3>1. InPlaceAt(mode, text, id, ps, all, k)
      BY DEF InPlace
    <3>2. new[k] = ps[k] /\ Kept(new, k) = Kept(ps, k)
      BY <1>1, <1>2
    <3>3. ps[k].body # << >> => more[Kept(ps, k)] = all[Kept(ps, k)]
      <4>1. ps[k].body # << >> => Kept(ps, k) \in 1 .. Len(all)
        BY <1>3, <1>5
      <4> QED
        BY <4>1, <1>6
    <3> QED
      BY <1>9, <3>1, <3>2, <3>3 DEF InPlaceAt
  <2>2. \A k \in DOMAIN new : InPlaceAt(mode, text, id, new, more, k)
    BY <1>1, <1>6, <2>1
  <2> QED
    BY <1>1, <1>6, <2>2 DEF InPlace
<1>7. p.body = << >> => InPlace(mode, text, id, new, all)
  <2> SUFFICES ASSUME p.body = << >> PROVE InPlace(mode, text, id, new, all)
    OBVIOUS
  <2>1. Len(all) = Kept(new, last)
    BY <1>3, <1>4
  <2>2. InPlaceAt(mode, text, id, new, all, last)
    BY <1>1 DEF InPlaceAt
  <2>3. \A m \in 1 .. Len(all) : all[m] = all[m]
    OBVIOUS
  <2> QED
    BY <1>6, <2>1, <2>2, <2>3
<1>8. ASSUME NEW t \in Token, p.body # << >>,
             t = [body |-> p.body, pos |-> BeforeIn(mode, text, TaggedIn(text, ps), p.from),
                  wordPos |-> Len(all), fileId |-> id]
      PROVE  InPlace(mode, text, id, new, Append(all, t))
  <2> DEFINE more == Append(all, t)
             at   == Len(all) + 1
  <2>1. Len(more) = at /\ more[at] = t /\ \A m \in 1 .. Len(all) : more[m] = all[m]
    OBVIOUS
  <2>2. Kept(new, last) = at /\ at - 1 = Len(all)
    BY <1>3, <1>4, <1>8
  <2> HIDE DEF more, at
  <2>3. InPlaceAt(mode, text, id, new, more, last)
    BY <1>1, <1>8, <1>9, <2>1, <2>2 DEF InPlaceAt
  <2>4. InPlace(mode, text, id, new, more)
    BY <1>6, <2>1, <2>2, <2>3
  <2> QED
    BY <2>4 DEF more
<1> QED
  BY <1>7, <1>8 DEF new

-----------------------------------------------------------------------------
\* The inductive invariant.  The tokens of a text, with the one that hasNext has
\* prepared; they are counted from zero, belong to the file and begin inside the text.
All == IF pc = "ready" THEN Append(out, tk.preparedToken) ELSE out
Ordered(text, id, all) ==
  \A m \in DOMAIN all : all[m].wordPos = m - 1 /\ all[m].fileId = id /\ all[m].pos < Len(text)

Shape ==
  /\ tk = [filters |-> tk.filters, mode |-> tk.mode, text |-> tk.text, fileId |-> tk.fileId,
           i |-> tk.i, currentPos |-> tk.currentPos, wordPos |-> tk.wordPos,
           preparedToken |-> tk.preparedToken]
  /\ tk.text \in Seq(STRING) /\ tk.fileId \in Nat /\ tk.i \in 1 .. Len(tk.text) + 1
  /\ tk.preparedToken \in Token
  /\ pc \in {"rest", "asked", "scan", "ready"}
  /\ out \in Seq(Token) /\ pieces \in Seq(Piece)

\* Where the object stands: behind its last piece, at no second byte of a letter, with
\* nothing prepared unless hasNext has said so.
Stands ==
  /\ ReachedIn(pieces, Len(pieces)) \in 0 .. tk.i - 1
  /\ Behind(tk.text, pieces, tk.i)
  /\ Uncut(tk.text, tk.i)
  /\ tk.currentPos = BeforeIn(tk.mode, tk.text, TaggedIn(tk.text, pieces), tk.i)
  /\ pc # "ready" => tk.preparedToken = NoToken
  /\ pc = "scan" /\ tk.i <= Len(tk.text) => BlankAfterEmptied(tk.text, pieces, tk.i)
Counted ==
  /\ tk.wordPos = Len(All)
  /\ Ordered(tk.text, tk.fileId, All)

Inv ==
  /\ Shape /\ Stands /\ Counted
  /\ Covered(tk.text, pieces, tk.i)
  /\ InPlace(tk.mode, tk.text, tk.fileId, pieces, All)

\* What is assumed of the constants: the limit of a tag is positive, a letter's lower
\* case is a letter.
Hypotheses == HtmlLimit \in Nat \ {0} /\ \A x \in DOMAIN LowerOf : LowerOf[x] \in STRING

LEMMA NoTokenIsToken == NoToken \in Token
  BY DEF NoToken, Token

LEMMA InPlaceIsTokensInPlace ==
  ASSUME Shape, Stands
  PROVE  TokensInPlace <=> InPlace(tk.mode, tk.text, tk.fileId, pieces, All)
<1>1. \A k \in DOMAIN pieces :
        Before(tk.text, pieces[k].from)
          = BeforeIn(tk.mode, tk.text, TaggedIn(tk.text, pieces), pieces[k].from)
  <2> TAKE k \in DOMAIN pieces
  <2>1. tk.text \in Seq(STRING) /\ pieces[k].from \in DOMAIN tk.text
    BY DEF Shape, Stands, Behind
  <2>2. pieces[k].from \in 1 .. Len(tk.text) + 1
    BY <2>1
  <2> QED
    BY <2>1, <2>2, BeforeIsBeforeIn
<1>2. TokensInPlace <=>
        /\ Len(All) = Kept(pieces, Len(pieces))
        /\ \A k \in DOMAIN pieces :
             pieces[k].body # << >> =>
               All[Kept(pieces, k)] =
                 [body |-> pieces[k].body, pos |-> Before(tk.text, pieces[k].from),
                  wordPos |-> Kept(pieces, k) - 1, fileId |-> tk.fileId]
  BY DEF TokensInPlace, All, Kept
<1> QED
  BY <1>1, <1>2, Zenon DEF InPlace, InPlaceAt

\* The invariant says what the runs check.
LEMMA InvImplies ==
  ASSUME Inv
  PROVE  TypeOK /\ PiecesCover /\ TokensInPlace
<1>1. PiecesCover
  BY CoveredIsPiecesCover DEF Inv
<1>2. TokensInPlace
  BY InPlaceIsTokensInPlace DEF Inv
<1>3. TypeOK
  <2>1. /\ tk.text \in Seq(STRING) /\ tk.fileId \in Nat /\ tk.i \in 1 .. Len(tk.text) + 1
        /\ tk.preparedToken \in Token /\ pc \in {"rest", "asked", "scan", "ready"}
        /\ out \in Seq(Token)
    BY DEF Inv, Shape
  <2>2. tk.currentPos \in 0 .. tk.i - 1
    <3>1. /\ tk.i \in Nat \ {0}
          /\ tk.currentPos = BeforeIn(tk.mode, tk.text, TaggedIn(tk.text, pieces), tk.i)
      BY <2>1 DEF Inv, Stands
    <3> QED
      BY <3>1, BeforeBound
  <2>3. tk.wordPos \in Nat
    <3>1. All \in Seq(Token) /\ tk.wordPos = Len(All)
      BY <2>1 DEF Inv, Counted, All
    <3> QED
      BY <3>1
  <2>4. \A t \in Token : IsToken(t)
    BY DEF Token, IsToken
  <2>5. \A k \in DOMAIN out : out[k] \in Token
    BY <2>1
  <2> QED
    BY <2>1, <2>2, <2>3, <2>4, <2>5 DEF TypeOK
<1> QED
  BY <1>1, <1>2, <1>3

\* A new object, and one that is given its next text.
LEMMA FreshInv ==
  ASSUME NEW mode, NEW text \in Seq(STRING), NEW id
  PROVE  /\ Covered(text, << >>, 1) /\ InPlace(mode, text, id, << >>, << >>)
         /\ Uncut(text, 1) /\ BeforeIn(mode, text, TaggedIn(text, << >>), 1) = 0
         /\ Ordered(text, id, << >>) /\ Behind(text, << >>, 1)
         /\ ReachedIn(<< >>, 0) = 0
<1>1. Covered(text, << >>, 1)
  BY DEF Covered, Blank, ReachedIn
<1>2. InPlace(mode, text, id, << >>, << >>)
  <2>1. {n \in 1 .. 0 : << >>[n].body # << >>} = {}
    OBVIOUS
  <2>2. Kept(<< >>, 0) = 0
    BY <2>1, FS_EmptySet DEF Kept
  <2>3. Len(<< >>) = 0 /\ DOMAIN << >> = {}
    OBVIOUS
  <2> QED
    BY <2>2, <2>3 DEF InPlace
<1>3. Uncut(text, 1)
  BY DEF Uncut
<1>4. BeforeIn(mode, text, TaggedIn(text, << >>), 1) = 0
  <2>1. BeforeIn(mode, text, TaggedIn(text, << >>), 1) \in 0 .. 1 - 1
    BY BeforeBound
  <2> QED
    BY <2>1
<1>5. Ordered(text, id, << >>) /\ Behind(text, << >>, 1)
  BY DEF Ordered, Behind
<1>6. ReachedIn(<< >>, 0) = 0
  BY DEF ReachedIn
<1> QED
  BY <1>1, <1>2, <1>3, <1>4, <1>5, <1>6

LEMMA ConstructedInv ==
  ASSUME NEW filters, NEW mode, Constructed(filters, mode)
  PROVE  Inv
<1>1. /\ tk = NewTokenizer(filters, mode) /\ pc = "rest" /\ out = << >> /\ pieces = << >>
  BY DEF Constructed
<1>2. /\ tk.filters = filters /\ tk.mode = mode /\ tk.text = << >> /\ tk.fileId = 0
      /\ tk.i = 1 /\ tk.currentPos = 0 /\ tk.wordPos = 0 /\ tk.preparedToken = NoToken
  BY <1>1 DEF NewTokenizer
<1>3. << >> \in Seq(STRING)
  OBVIOUS
<1>4. Shape
  BY <1>1, <1>2, NoTokenIsToken DEF Shape, NewTokenizer
<1>5. All = << >>
  BY <1>1 DEF All
<1>9. /\ Uncut(tk.text, 1) /\ BeforeIn(tk.mode, tk.text, TaggedIn(tk.text, << >>), 1) = 0
      /\ Ordered(tk.text, tk.fileId, << >>) /\ Behind(tk.text, << >>, 1)
      /\ ReachedIn(<< >>, Len(<< >>)) = 0 /\ Len(<< >>) = 0 /\ DOMAIN << >> = {}
  <2>1. tk.text \in Seq(STRING) /\ Len(<< >>) = 0 /\ DOMAIN << >> = {}
    BY <1>2, <1>3
  <2> QED
    BY <2>1, FreshInv
<1>6. Stands /\ Counted
  BY <1>1, <1>2, <1>5, <1>9 DEF Stands, Counted
<1> QED
  BY <1>1, <1>2, <1>3, <1>4, <1>5, <1>6, FreshInv DEF Inv

LEMMA TokenizeInv ==
  ASSUME Inv, NEW text \in Seq(STRING), NEW id \in Nat, Tokenize(text, id)
  PROVE  Inv'
<1>1. /\ pc = "rest" /\ tk' = Reset(text, id) /\ pc' = "asked" /\ out' = << >> /\ pieces' = << >>
  BY DEF Tokenize
<1>2. Shape /\ tk.preparedToken = NoToken
  BY <1>1 DEF Inv, Stands
<1>3. tk' = [filters |-> tk.filters, mode |-> tk.mode, text |-> text, fileId |-> id,
             i |-> 1, currentPos |-> 0, wordPos |-> 0, preparedToken |-> NoToken]
  BY <1>1, <1>2 DEF Reset, Shape
<1>4. /\ tk'.mode = tk.mode /\ tk'.text = text /\ tk'.fileId = id /\ tk'.filters = tk.filters
      /\ tk'.i = 1 /\ tk'.currentPos = 0 /\ tk'.wordPos = 0 /\ tk'.preparedToken = NoToken
  BY <1>3
<1>5. Shape'
  BY <1>1, <1>3, <1>4, NoTokenIsToken DEF Shape
<1>6. All' = << >>
  BY <1>1 DEF All
<1>8. /\ Uncut(text, 1) /\ BeforeIn(tk.mode, text, TaggedIn(text, << >>), 1) = 0
      /\ Ordered(text, id, << >>) /\ Behind(text, << >>, 1)
      /\ ReachedIn(<< >>, Len(<< >>)) = 0 /\ Len(<< >>) = 0 /\ DOMAIN << >> = {}
  <2>1. Len(<< >>) = 0 /\ DOMAIN << >> = {}
    OBVIOUS
  <2> QED
    BY <2>1, FreshInv
<1>7. Stands' /\ Counted'
  BY <1>1, <1>4, <1>6, <1>8 DEF Stands, Counted
<1> QED
  BY <1>1, <1>4, <1>5, <1>6, <1>7, FreshInv DEF Inv

\* Skipping blanks.
SkipTo(text, i) == Least({k \in i .. Len(text) : text[k] # " "} \cup {Len(text) + 1})
LEMMA BlanksSkipped ==
  ASSUME NEW text \in Seq(STRING), NEW i \in 1 .. Len(text) + 1
  PROVE  /\ SkipTo(text, i) \in i .. Len(text) + 1
         /\ Blank(text, i, SkipTo(text, i) - 1)
         /\ SkipTo(text, i) <= Len(text) => text[SkipTo(text, i)] # " "
<1> DEFINE words == {k \in i .. Len(text) : text[k] # " "}
           end   == Len(text) + 1
           stops == words \cup {end}
           stop  == SkipTo(text, i)
<1>1. Len(text) \in Nat /\ end \in Nat /\ i \in Nat /\ i <= end /\ end = Len(text) + 1
  OBVIOUS
<1>2. /\ \A k \in words : k \in i .. Len(text)
      /\ \A k \in words : text[k] # " "
      /\ \A k \in i .. Len(text) : k \notin words => text[k] = " "
  OBVIOUS
<1>8. \A k \in stops : k \in Nat /\ i <= k /\ k <= end
  <2>1. \A k \in words : k \in i .. Len(text)
    BY <1>2
  <2> HIDE DEF words, end
  <2> QED
    BY <1>1, <2>1
<1>3. stop = Least(stops)
  BY DEF SkipTo
<1> HIDE DEF words, end, stop
<1>4. stop \in stops /\ \A n \in stops : stop <= n
  <2>1. stops \subseteq Nat /\ stops # {}
    BY <1>8
  <2> HIDE DEF stops
  <2> QED
    BY <1>3, <2>1, LeastNat
<1>5. stop \in i .. end
  BY <1>1, <1>8, <1>4
<1>6. ASSUME NEW k \in i .. stop - 1 PROVE text[k] = " "
  <2>1. k \in i .. Len(text) /\ ~ (stop <= k)
    BY <1>1, <1>5
  <2>2. k \notin words
    BY <1>4, <2>1
  <2> QED
    BY <1>2, <2>1, <2>2
<1>7. stop <= Len(text) => text[stop] # " "
  <2>1. stop <= Len(text) => stop # end
    BY <1>1, <1>5
  <2> QED
    BY <1>2, <1>4, <2>1
<1> QED
  BY <1>1, <1>5, <1>6, <1>7 DEF Blank, stop

LEMMA HasNextInv ==
  ASSUME Inv, HasNext
  PROVE  Inv'
<1> DEFINE text == tk.text
           stop == SkipTo(text, tk.i)
<1>1. /\ pc = "asked" /\ pc' = "scan" /\ out' = out /\ pieces' = pieces
      /\ tk' = [tk EXCEPT !.i = stop, !.currentPos = @ + stop - tk.i]
  BY DEF HasNext, SkipTo
<1>2. /\ Shape /\ Stands /\ Counted /\ Covered(text, pieces, tk.i)
      /\ InPlace(tk.mode, text, tk.fileId, pieces, All)
  BY DEF Inv
<1>3. text \in Seq(STRING) /\ tk.i \in 1 .. Len(text) + 1 /\ Len(text) \in Nat /\ tk.i \in Nat \ {0}
  BY <1>2 DEF Shape
<1>6. Blank(text, tk.i, stop - 1) /\ (stop <= Len(text) => text[stop] # " ")
  <2> HIDE DEF text
  <2> QED
    BY <1>3, BlanksSkipped
<1>5. stop \in Nat /\ tk.i <= stop /\ stop <= Len(text) + 1
  <2>1. stop \in tk.i .. Len(text) + 1
    <3> HIDE DEF text
    <3> QED
      BY <1>3, BlanksSkipped
  <2> HIDE DEF stop, text
  <2> QED
    BY <1>3, <2>1
<1>8. tk' = [filters |-> tk.filters, mode |-> tk.mode, text |-> text, fileId |-> tk.fileId,
             i |-> stop, currentPos |-> tk.currentPos + stop - tk.i, wordPos |-> tk.wordPos,
             preparedToken |-> tk.preparedToken]
  <2> HIDE DEF stop
  <2> QED
    BY <1>1, <1>2 DEF Shape
<1> HIDE DEF stop
<1>9. /\ tk'.filters = tk.filters /\ tk'.mode = tk.mode /\ tk'.text = text
      /\ tk'.fileId = tk.fileId /\ tk'.i = stop /\ tk'.currentPos = tk.currentPos + stop - tk.i
      /\ tk'.wordPos = tk.wordPos /\ tk'.preparedToken = tk.preparedToken
  BY <1>8
<1>10. /\ BeforeIn(tk.mode, text, TaggedIn(text, pieces), stop)
            = BeforeIn(tk.mode, text, TaggedIn(text, pieces), tk.i) + stop - tk.i
       /\ Uncut(text, stop)
  <2>1. Uncut(text, tk.i)
    BY <1>2 DEF Stands
  <2> HIDE DEF text
  <2>2. PICK m : m = tk.mode
    OBVIOUS
  <2>3. PICK from : from = tk.i
    OBVIOUS
  <2>4. PICK tags : tags = TaggedIn(text, pieces)
    OBVIOUS
  <2>5. from \in Nat \ {0} /\ stop \in Nat /\ from <= stop
    BY <1>3, <1>5, <2>3
  <2>6. Uncut(text, from) /\ Blank(text, from, stop - 1)
    BY <1>6, <2>1, <2>3
  <2>7. /\ BeforeIn(m, text, tags, stop) = BeforeIn(m, text, tags, from) + stop - from
        /\ Uncut(text, stop)
    BY ONLY <2>5, <2>6, BeforeOverBlanks
  <2> QED
    BY <2>2, <2>3, <2>4, <2>7
<1>11. All' = All
  BY <1>1 DEF All
<1>12. Shape'
  <2>1. stop \in 1 .. Len(text) + 1 /\ tk.fileId \in Nat /\ tk.preparedToken \in Token
        /\ out \in Seq(Token) /\ pieces \in Seq(Piece)
    BY <1>2, <1>3, <1>5 DEF Shape
  <2> HIDE DEF text
  <2> QED
    BY <1>1, <1>3, <1>8, <1>9, <2>1 DEF Shape
<1>13. Stands'
  <2>1. ReachedIn(pieces, Len(pieces)) \in 0 .. stop - 1
    BY <1>2, <1>3, <1>5 DEF Stands
  <2>2. stop <= Len(text) => BlankAfterEmptied(text, pieces, stop)
    BY <1>6 DEF BlankAfterEmptied
  <2>3. tk.currentPos + stop - tk.i = BeforeIn(tk.mode, text, TaggedIn(text, pieces), stop)
    BY <1>2, <1>10 DEF Stands
  <2>4. tk.preparedToken = NoToken
    BY <1>1, <1>2 DEF Stands
  <2>5. Behind(text, pieces, stop)
    BY <1>2, <1>3, <1>5 DEF Stands, Behind
  <2> QED
    BY <1>1, <1>9, <1>10, <2>1, <2>2, <2>3, <2>4, <2>5 DEF Stands
<1>14. Counted'
  BY <1>2, <1>9, <1>11 DEF Counted
<1>15. Covered(text, pieces, stop)
  <2>1. ReachedIn(pieces, Len(pieces)) \in Nat /\ pieces \in Seq(Piece)
    BY <1>2 DEF Stands, Shape
  <2> HIDE DEF text
  <2> QED
    BY <1>2, <1>3, <1>5, <1>6, <2>1, CoveredOverBlanks
<1> QED
  BY <1>1, <1>2, <1>9, <1>11, <1>12, <1>13, <1>14, <1>15 DEF Inv

\* What the piece at hand does to the object, whatever becomes of it.
Last == PieceEnd(tk.text, tk.i)
LEMMA PieceTaken ==
  ASSUME Inv, pc = "scan", tk.i <= Len(tk.text), NEW body \in Seq(STRING),
         NEW p, p = [from |-> tk.i, to |-> Last, body |-> body]
  PROVE  /\ p \in Piece /\ Last \in tk.i .. Len(tk.text) /\ tk.i \in DOMAIN tk.text
         /\ BeforeIn(tk.mode, tk.text, TaggedIn(tk.text, Append(pieces, p)), Last + 1)
              = tk.currentPos + Advance(tk.mode, tk.text, tk.i, Last)
         /\ Uncut(tk.text, Last + 1)
         /\ Covered(tk.text, Append(pieces, p), Last + 1)
         /\ ReachedIn(Append(pieces, p), Len(Append(pieces, p))) = Last
         /\ Behind(tk.text, Append(pieces, p), Last + 1)
<1> DEFINE text == tk.text
           i    == tk.i
           new  == Append(pieces, p)
<1>1. /\ text \in Seq(STRING) /\ i \in DOMAIN text /\ i \in Nat \ {0}
      /\ pieces \in Seq(Piece) /\ Len(text) \in Nat
  BY DEF Inv, Shape
<1>2. Last \in i .. Len(text) /\ IsPiece(text, i, Last) /\ ~IsCyrillic(text, Last)
  <2> HIDE DEF text, i
  <2> QED
    BY <1>1, PieceEndShape DEF Last, text, i
<1>3. p \in Piece /\ p.from = i /\ p.to = Last
  BY <1>1, <1>2 DEF Piece
<1>4. /\ Covered(text, pieces, i) /\ ReachedIn(pieces, Len(pieces)) < i
      /\ BlankAfterEmptied(text, pieces, i) /\ Uncut(text, i)
      /\ tk.currentPos = BeforeIn(tk.mode, text, TaggedIn(text, pieces), i)
      /\ Behind(text, pieces, i)
  BY <1>1 DEF Inv, Stands
<1>5. Last \in Nat /\ i <= Last
  BY <1>1, <1>2
<1> HIDE DEF text, i
<1>6. /\ BeforeIn(tk.mode, text, TaggedIn(text, new), Last + 1)
           = BeforeIn(tk.mode, text, TaggedIn(text, pieces), i) + Advance(tk.mode, text, i, Last)
      /\ Uncut(text, Last + 1)
  <2>1. /\ TaggedIn(text, new) = WithTag(text, TaggedIn(text, pieces), i, Last)
        /\ TaggedIn(text, pieces) \subseteq Int
        /\ \A k \in TaggedIn(text, pieces) : k < i
    BY <1>1, <1>3, <1>4, TagsAppend
  <2> HIDE DEF new
  <2> QED
    BY <1>1, <1>2, <1>4, <1>5, <2>1, BeforeOverPiece
<1>7. Covered(text, new, Last + 1)
  <2>1. Covered(text, Append(pieces, p), p.to + 1)
    BY <1>1, <1>2, <1>3, <1>4, CoveredAppend
  <2> QED
    BY <2>1, <1>3
<1>8. /\ Len(new) = Len(pieces) + 1 /\ new[Len(pieces) + 1] = p /\ Len(pieces) \in Nat
      /\ \A k \in DOMAIN pieces : new[k] = pieces[k]
      /\ DOMAIN new = DOMAIN pieces \cup {Len(pieces) + 1}
  BY <1>1, <1>3, AppendedPiece
<1> HIDE DEF new
<1>9. ReachedIn(new, Len(new)) = Last
  BY <1>3, <1>8 DEF ReachedIn
<1>10. Behind(text, new, Last + 1)
  <2>1. ASSUME NEW k \in DOMAIN pieces
        PROVE  /\ new[k].from \in DOMAIN text /\ new[k].from \in Nat \ {0} /\ new[k].to \in Nat
               /\ new[k].from <= new[k].to /\ new[k].to < Last + 1
    BY <1>1, <1>4, <1>5, <1>8 DEF Behind
  <2> QED
    BY <1>1, <1>3, <1>5, <1>8, <2>1 DEF Behind
<1> QED
  BY <1>1, <1>2, <1>3, <1>4, <1>6, <1>7, <1>9, <1>10 DEF text, i, new

LEMMA OrderedAppend ==
  ASSUME NEW text, NEW id, NEW all \in Seq(Token), Ordered(text, id, all), NEW t \in Token,
         t.wordPos = Len(all), t.fileId = id, t.pos < Len(text)
  PROVE  Ordered(text, id, Append(all, t)) /\ Len(Append(all, t)) = Len(all) + 1
<1> DEFINE more == Append(all, t)
           last == Len(all) + 1
<1>1. /\ Len(more) = last /\ more[last] = t /\ Len(all) \in Nat /\ last - 1 = Len(all)
      /\ \A m \in DOMAIN all : more[m] = all[m]
      /\ DOMAIN more = DOMAIN all \cup {last}
  OBVIOUS
<1> HIDE DEF more, last
<1>2. Ordered(text, id, more)
  <2>1. ASSUME NEW m \in DOMAIN more
        PROVE  more[m].wordPos = m - 1 /\ more[m].fileId = id /\ more[m].pos < Len(text)
    <3>1. CASE m \in DOMAIN all
      <4>1. more[m] = all[m]
        BY <1>1, <3>1
      <4> QED
        BY <3>1, <4>1 DEF Ordered
    <3>2. CASE m = last
      BY <1>1, <3>2
    <3> QED
      BY <1>1, <2>1, <3>1, <3>2
  <2> QED
    BY <2>1 DEF Ordered
<1>3. Len(more) = Len(all) + 1
  BY <1>1 DEF last
<1> QED
  BY <1>2, <1>3 DEF more

\* A piece that leaves no token, because the filters have emptied it or one has thrown.
Emptied ==
  /\ pc = "scan" /\ tk.i <= Len(tk.text) /\ pc' \in {"scan", "rest"} /\ out' = out
  /\ pieces' = Append(pieces, [from |-> tk.i, to |-> Last, body |-> << >>])
  /\ tk' = [tk EXCEPT !.i = Last + 1,
                      !.currentPos = @ + Advance(tk.mode, tk.text, tk.i, Last)]
LEMMA EmptiedInv ==
  ASSUME Inv, Emptied
  PROVE  Inv'
<1> DEFINE text == tk.text
           end  == Last + 1
           now  == tk.currentPos + Advance(tk.mode, tk.text, tk.i, Last)
           p    == [from |-> tk.i, to |-> Last, body |-> << >>]
<1>0. /\ pc = "scan" /\ tk.i <= Len(text) /\ pc' \in {"scan", "rest"} /\ out' = out
      /\ pieces' = Append(pieces, p)
      /\ tk' = [tk EXCEPT !.i = end, !.currentPos = now]
  BY DEF Emptied
<1>1. /\ Shape /\ Stands /\ Counted
      /\ InPlace(tk.mode, text, tk.fileId, pieces, All)
  BY DEF Inv
<1>2. << >> \in Seq(STRING) /\ p.body = << >>
  OBVIOUS
<1>3. /\ p \in Piece /\ Last \in tk.i .. Len(text)
      /\ BeforeIn(tk.mode, text, TaggedIn(text, pieces'), end) = now
      /\ Uncut(text, end) /\ Covered(text, pieces', end)
      /\ ReachedIn(pieces', Len(pieces')) = Last
      /\ Behind(text, pieces', end)
  BY <1>0, <1>2, PieceTaken
<1>4. /\ text \in Seq(STRING) /\ tk.i \in 1 .. Len(text) + 1 /\ Len(text) \in Nat
      /\ pieces \in Seq(Piece) /\ out \in Seq(Token) /\ tk.preparedToken \in Token /\ tk.fileId \in Nat
  BY <1>1 DEF Shape
<1>5. Last \in Nat /\ end \in 1 .. Len(text) + 1 /\ Last \in 0 .. end - 1
  BY <1>3, <1>4
<1>6. tk' = [filters |-> tk.filters, mode |-> tk.mode, text |-> text, fileId |-> tk.fileId,
             i |-> end, currentPos |-> now, wordPos |-> tk.wordPos, preparedToken |-> tk.preparedToken]
  BY <1>0, <1>1 DEF Shape
<1>7. pieces' \in Seq(Piece)
  BY <1>0, <1>3, <1>4
<1>8. /\ Len(pieces') = Len(pieces) + 1 /\ pieces'[Len(pieces) + 1] = p /\ Len(pieces) \in Nat
  BY <1>0, <1>3, <1>4, AppendedPiece
<1>9. InPlace(tk.mode, text, tk.fileId, pieces', All)
  <2>1. All \in Seq(Token)
    BY <1>4 DEF All
  <2>2. p.from # 0 /\ Behind(text, pieces, p.from)
    BY <1>1, <1>4 DEF Stands
  <2> QED
    BY <1>0, <1>1, <1>2, <1>3, <1>4, <2>1, <2>2, InPlaceAppend
<1> HIDE DEF now, end, p
<1>10. /\ tk'.filters = tk.filters /\ tk'.mode = tk.mode /\ tk'.text = text
       /\ tk'.fileId = tk.fileId /\ tk'.i = end /\ tk'.currentPos = now
       /\ tk'.wordPos = tk.wordPos /\ tk'.preparedToken = tk.preparedToken
  BY <1>6
<1>11. All' = All /\ pc' # "ready" /\ pc' \in {"rest", "asked", "scan", "ready"}
  BY <1>0 DEF All
<1> HIDE DEF text
<1>12. Shape'
  <2>1. out' \in Seq(Token)
    BY <1>0, <1>4
  <2> QED
    BY <1>4, <1>5, <1>6, <1>7, <1>10, <1>11, <2>1 DEF Shape
<1>13. Stands'
  <2>1. BlankAfterEmptied(text, pieces', end)
    <3>1. pieces'[Len(pieces')].body = << >>
      BY <1>2, <1>8
    <3>2. pieces' # << >>
      BY <1>8
    <3> QED
      BY <3>1, <3>2 DEF BlankAfterEmptied, EndsEmptied
  <2>2. tk.preparedToken = NoToken
    BY <1>0, <1>1 DEF Stands
  <2> QED
    BY <1>3, <1>5, <1>10, <1>11, <2>1, <2>2 DEF Stands
<1>14. Counted'
  BY <1>1, <1>10, <1>11 DEF Counted, text
<1> QED
  BY <1>3, <1>9, <1>10, <1>11, <1>12, <1>13, <1>14 DEF Inv

LEMMA FilterThrowsInv ==
  ASSUME Inv, FilterThrows
  PROVE  Inv'
  BY EmptiedInv DEF FilterThrows, Emptied, Last

LEMMA PrepareNextInv ==
  ASSUME Hypotheses, Inv, PrepareNext
  PROVE  Inv'
<1> DEFINE text  == tk.text
           end   == Last + 1
           now   == tk.currentPos + Advance(tk.mode, tk.text, tk.i, Last)
           raw   == SubSeq(text, tk.i, Last)
           body  == ApplyFilters(tk.filters, raw)
           p     == [from |-> tk.i, to |-> Last, body |-> body]
           token == [body |-> body, pos |-> tk.currentPos, wordPos |-> tk.wordPos, fileId |-> tk.fileId]
           moved == [tk EXCEPT !.i = end, !.currentPos = now]
<1>1. /\ pc = "scan" /\ tk.i <= Len(text) /\ out' = out /\ pieces' = Append(pieces, p)
      /\ body = << >> => tk' = moved /\ pc' = pc
      /\ body # << >> => /\ tk' = [moved EXCEPT !.preparedToken = token, !.wordPos = @ + 1]
                          /\ pc' = "ready"
  BY DEF PrepareNext, Last
<1>2. CASE body = << >>
  BY <1>1, <1>2, EmptiedInv DEF Emptied
<1>3. CASE body # << >>
  <2>1. /\ Shape /\ Stands /\ Counted
        /\ InPlace(tk.mode, text, tk.fileId, pieces, All)
    BY DEF Inv
  <2>2. /\ text \in Seq(STRING) /\ tk.i \in 1 .. Len(text) + 1 /\ Len(text) \in Nat
        /\ pieces \in Seq(Piece) /\ out \in Seq(Token) /\ tk.fileId \in Nat /\ tk.i \in DOMAIN text
        /\ tk.i \in Nat \ {0}
    BY <1>1, <2>1 DEF Shape
  <2>3. Last \in tk.i .. Len(text)
    <3> HIDE DEF text
    <3> QED
      BY <2>2, PieceEndShape DEF Last, text
  <2>4. body \in Seq(STRING)
    <3>1. raw \in Seq(STRING)
      BY <2>2, <2>3
    <3> HIDE DEF raw
    <3> QED
      BY <3>1, ApplyFiltersText DEF Hypotheses
  <2> HIDE DEF body, raw
  <2>5. /\ p \in Piece /\ BeforeIn(tk.mode, text, TaggedIn(text, pieces'), end) = now
        /\ Uncut(text, end) /\ Covered(text, pieces', end)
        /\ ReachedIn(pieces', Len(pieces')) = Last
        /\ Behind(text, pieces', end)
    BY <1>1, <2>4, PieceTaken
  <2>6. Last \in Nat /\ end \in 1 .. Len(text) + 1 /\ Last \in 0 .. end - 1
    BY <2>2, <2>3
  <2>7. tk' = [filters |-> tk.filters, mode |-> tk.mode, text |-> text, fileId |-> tk.fileId,
               i |-> end, currentPos |-> now, wordPos |-> tk.wordPos + 1, preparedToken |-> token]
    BY <1>1, <1>3, <2>1 DEF Shape
  <2>8. /\ tk.currentPos = BeforeIn(tk.mode, text, TaggedIn(text, pieces), tk.i)
        /\ tk.currentPos \in Nat /\ tk.currentPos < Len(text)
    <3>1. tk.currentPos = BeforeIn(tk.mode, text, TaggedIn(text, pieces), tk.i)
      BY <2>1 DEF Stands
    <3>2. BeforeIn(tk.mode, text, TaggedIn(text, pieces), tk.i) \in 0 .. tk.i - 1
      <4> HIDE DEF text
      <4> QED
        BY <2>2, BeforeBound
    <3> QED
      BY <1>1, <2>2, <3>1, <3>2
  <2>9. All = out /\ tk.wordPos = Len(out) /\ Ordered(text, tk.fileId, out) /\ Len(out) \in Nat
    BY <1>1, <2>1, <2>2 DEF All, Counted
  <2>10. token \in Token
    BY <2>2, <2>4, <2>8, <2>9 DEF Token
  <2>11. InPlace(tk.mode, text, tk.fileId, pieces', Append(out, token))
    <3>1. p.body # << >> /\ p.from # 0 /\ Behind(text, pieces, p.from)
      BY <1>3, <2>1, <2>2 DEF Stands
    <3>2. token = [body |-> p.body,
                   pos |-> BeforeIn(tk.mode, text, TaggedIn(text, pieces), p.from),
                   wordPos |-> Len(out), fileId |-> tk.fileId]
      BY <2>8, <2>9
    <3> HIDE DEF token, p
    <3> QED
      BY <1>1, <2>1, <2>2, <2>5, <2>9, <2>10, <3>1, <3>2, InPlaceAppend
  <2>12. Ordered(text, tk.fileId, Append(out, token)) /\ Len(Append(out, token)) = Len(out) + 1
    <3>1. token.wordPos = Len(out) /\ token.fileId = tk.fileId /\ token.pos < Len(text)
      BY <2>8, <2>9
    <3> HIDE DEF token
    <3> QED
      BY <2>2, <2>9, <2>10, <3>1, OrderedAppend
  <2>13. pieces' \in Seq(Piece)
    BY <1>1, <2>2, <2>5
  <2> HIDE DEF now, end, p, token
  <2>14. /\ tk'.filters = tk.filters /\ tk'.mode = tk.mode /\ tk'.text = text
         /\ tk'.fileId = tk.fileId /\ tk'.i = end /\ tk'.currentPos = now
         /\ tk'.wordPos = tk.wordPos + 1 /\ tk'.preparedToken = token
    BY <2>7
  <2>15. All' = Append(out, token) /\ pc' = "ready" /\ out' = out
    BY <1>1, <1>3, <2>14 DEF All
  <2>16. Shape'
    BY <2>2, <2>6, <2>7, <2>10, <2>13, <2>14, <2>15 DEF Shape
  <2>17. Stands'
    BY <2>5, <2>6, <2>14, <2>15 DEF Stands
  <2>18. Counted'
    BY <2>9, <2>12, <2>14, <2>15 DEF Counted
  <2> QED
    BY <2>5, <2>11, <2>14, <2>15, <2>16, <2>17, <2>18 DEF Inv
<1> QED
  BY <1>2, <1>3

LEMMA ScanEndsInv ==
  ASSUME Inv, ScanEnds
  PROVE  Inv' /\ pc' = "rest"
<1>1. /\ pc = "scan" /\ tk.i > Len(tk.text) /\ tk' = tk /\ out' = out /\ pieces' = pieces
      /\ pc' = IF tk.preparedToken.body = << >> THEN "rest" ELSE "ready"
  BY DEF ScanEnds
<1>2. tk.preparedToken = NoToken
  BY <1>1 DEF Inv, Stands
<1>3. pc' = "rest"
  BY <1>1, <1>2 DEF NoToken
<1>4. All' = All
  BY <1>1, <1>3 DEF All
<1> QED
  BY <1>1, <1>2, <1>3, <1>4 DEF Inv, Shape, Stands, Counted

LEMMA NextInv ==
  ASSUME Inv, Next
  PROVE  Inv'
<1>1. /\ pc = "ready" /\ out' = Append(out, tk.preparedToken)
      /\ tk' = [tk EXCEPT !.preparedToken = NoToken] /\ pc' = "asked" /\ pieces' = pieces
  BY DEF Next, Taken
<1>2. Shape /\ Stands /\ Counted
  BY DEF Inv
<1>3. tk' = [filters |-> tk.filters, mode |-> tk.mode, text |-> tk.text, fileId |-> tk.fileId,
             i |-> tk.i, currentPos |-> tk.currentPos, wordPos |-> tk.wordPos,
             preparedToken |-> NoToken]
  BY <1>1, <1>2 DEF Shape
<1>4. /\ tk'.filters = tk.filters /\ tk'.mode = tk.mode /\ tk'.text = tk.text
      /\ tk'.fileId = tk.fileId /\ tk'.i = tk.i /\ tk'.currentPos = tk.currentPos
      /\ tk'.wordPos = tk.wordPos /\ tk'.preparedToken = NoToken
  BY <1>3
<1>5. All' = All
  BY <1>1 DEF All
<1>6. Shape'
  <2>1. out' \in Seq(Token)
    BY <1>1, <1>2 DEF Shape
  <2> QED
    BY <1>1, <1>2, <1>3, <1>4, <2>1, NoTokenIsToken DEF Shape
<1>7. Stands' /\ Counted'
  BY <1>1, <1>2, <1>4, <1>5 DEF Stands, Counted
<1> QED
  BY <1>1, <1>4, <1>5, <1>6, <1>7 DEF Inv

-----------------------------------------------------------------------------
\* What a caller sees of these steps: only tokenize changes the text, only next returns
\* a token, and a token that is returned belongs to the text and is its next.
LEMMA TokenizeSets ==
  ASSUME Inv, NEW text, NEW id, Tokenize(text, id)
  PROVE  pc = "rest" /\ pc' = "asked" /\ tk'.text = text /\ tk'.fileId = id /\ tk'.mode = tk.mode /\ out' = << >>
<1>1. pc = "rest" /\ pc' = "asked" /\ tk' = Reset(text, id) /\ out' = << >>
  BY DEF Tokenize
<1>2. Shape
  BY DEF Inv
<1>3. tk' = [filters |-> tk.filters, mode |-> tk.mode, text |-> text, fileId |-> id,
             i |-> 1, currentPos |-> 0, wordPos |-> 0, preparedToken |-> tk.preparedToken]
  BY <1>1, <1>2 DEF Reset, Shape
<1> QED
  BY <1>1, <1>3

LEMMA StepKeeps ==
  ASSUME Inv, HasNext \/ PrepareNext \/ FilterThrows \/ ScanEnds
  PROVE  /\ pc \in {"asked", "scan"} /\ tk'.text = tk.text /\ tk'.fileId = tk.fileId
         /\ tk'.mode = tk.mode /\ out' = out
<1>1. Shape
  BY DEF Inv
<1>2. CASE HasNext
  BY <1>1, <1>2 DEF HasNext, Shape
<1>3. CASE PrepareNext
  <2> DEFINE last  == PieceEnd(tk.text, tk.i)
             body  == ApplyFilters(tk.filters, SubSeq(tk.text, tk.i, last))
             now   == tk.currentPos + Advance(tk.mode, tk.text, tk.i, last)
             token == [body |-> body, pos |-> tk.currentPos, wordPos |-> tk.wordPos, fileId |-> tk.fileId]
             moved == [tk EXCEPT !.i = last + 1, !.currentPos = now]
  <2>1. /\ pc = "scan" /\ out' = out
        /\ IF body = << >> THEN tk' = moved
           ELSE tk' = [moved EXCEPT !.preparedToken = token, !.wordPos = @ + 1]
    BY <1>3 DEF PrepareNext
  <2> HIDE DEF last, body, now, token
  <2>2. CASE body = << >>
    BY <1>1, <2>1, <2>2 DEF Shape
  <2>3. CASE body # << >>
    BY <1>1, <2>1, <2>3 DEF Shape
  <2> QED
    BY <2>2, <2>3
<1>4. CASE FilterThrows
  BY <1>1, <1>4 DEF FilterThrows, Shape
<1>5. CASE ScanEnds
  BY <1>5 DEF ScanEnds
<1> QED
  BY <1>2, <1>3, <1>4, <1>5

LEMMA NextTakes ==
  ASSUME Inv, Next
  PROVE  /\ pc = "ready" /\ tk'.text = tk.text /\ tk'.fileId = tk.fileId /\ tk'.mode = tk.mode
         /\ out' = Append(out, tk.preparedToken) /\ out \in Seq(Token)
         /\ tk.preparedToken \in Token /\ tk.preparedToken.wordPos = Len(out)
         /\ tk.preparedToken.fileId = tk.fileId /\ tk.preparedToken.pos < Len(tk.text)
<1>1. pc = "ready" /\ out' = Append(out, tk.preparedToken) /\ tk' = [tk EXCEPT !.preparedToken = NoToken]
  BY DEF Next, Taken
<1>2. Shape /\ Counted
  BY DEF Inv
<1>3. out \in Seq(Token) /\ tk.preparedToken \in Token
  BY <1>2 DEF Shape
<1>4. tk'.text = tk.text /\ tk'.fileId = tk.fileId /\ tk'.mode = tk.mode
  BY <1>1, <1>2 DEF Shape
<1>5. Ordered(tk.text, tk.fileId, Append(out, tk.preparedToken))
  BY <1>1, <1>2 DEF Counted, All
<1> DEFINE last == Len(out) + 1
           all  == Append(out, tk.preparedToken)
<1>6. last \in DOMAIN all /\ all[last] = tk.preparedToken /\ last - 1 = Len(out)
  BY <1>3
<1> HIDE DEF last, all
<1>7. all[last].wordPos = last - 1 /\ all[last].fileId = tk.fileId /\ all[last].pos < Len(tk.text)
  BY <1>5, <1>6 DEF Ordered, all
<1> QED
  BY <1>1, <1>3, <1>4, <1>6, <1>7

LEMMA OutTyped ==
  ASSUME Inv
  PROVE  /\ out \in Seq(Token) /\ tk.text \in Seq(STRING) /\ tk.fileId \in Nat
         /\ pc \in {"rest", "asked", "scan", "ready"}
  BY DEF Inv, Shape

\* Steps of others.
LEMMA StutterInv ==
  ASSUME Inv, UNCHANGED vars
  PROVE  Inv'
  BY DEF Inv, Shape, Stands, Counted, All, vars

\* Every step of the loop gets on.
LEMMA StepMovesOn ==
  ASSUME Inv, HasNext \/ PrepareNext \/ FilterThrows \/ ScanEnds \/ Next
  PROVE  MovesOn
<1>1. Shape /\ Stands /\ tk.text \in Seq(STRING) /\ tk.i \in Nat \ {0} /\ Len(tk.text) \in Nat
      /\ tk.i \in 1 .. Len(tk.text) + 1
  BY DEF Inv, Shape
<1>2. CASE HasNext
  <2> DEFINE stop == SkipTo(tk.text, tk.i)
  <2>1. /\ pc = "asked" /\ pc' = "scan"
        /\ tk' = [tk EXCEPT !.i = stop, !.currentPos = @ + stop - tk.i]
    BY <1>2 DEF HasNext, SkipTo
  <2>2. stop \in tk.i .. Len(tk.text) + 1
    BY <1>1, BlanksSkipped
  <2> HIDE DEF stop
  <2>3. tk'.i = stop /\ tk'.text = tk.text
    BY <1>1, <2>1 DEF Shape
  <2>4. stop > tk.i \/ stop = tk.i
    BY <1>1, <2>2
  <2> QED
    BY <2>1, <2>3, <2>4 DEF MovesOn
<1>3. CASE PrepareNext \/ FilterThrows
  <2> DEFINE last  == PieceEnd(tk.text, tk.i)
             body  == ApplyFilters(tk.filters, SubSeq(tk.text, tk.i, last))
             now   == tk.currentPos + Advance(tk.mode, tk.text, tk.i, last)
             token == [body |-> body, pos |-> tk.currentPos, wordPos |-> tk.wordPos, fileId |-> tk.fileId]
             moved == [tk EXCEPT !.i = last + 1, !.currentPos = now]
  <2>1. /\ tk.i <= Len(tk.text)
        /\ tk' = moved \/ tk' = [moved EXCEPT !.preparedToken = token, !.wordPos = @ + 1]
    BY <1>3 DEF PrepareNext, FilterThrows
  <2>2. tk.i \in DOMAIN tk.text
    BY <1>1, <2>1
  <2>3. last \in tk.i .. Len(tk.text)
    BY <1>1, <2>2, PieceEndShape
  <2> HIDE DEF last, body, now, token
  <2>4. tk'.i = last + 1 /\ tk'.text = tk.text
    BY <1>1, <2>1 DEF Shape
  <2>5. last + 1 > tk.i
    BY <1>1, <2>3
  <2> QED
    BY <2>4, <2>5 DEF MovesOn
<1>4. CASE ScanEnds
  <2>1. pc = "scan" /\ tk' = tk /\ pc' = "rest"
    BY <1>4, ScanEndsInv DEF ScanEnds
  <2> QED
    BY <2>1 DEF MovesOn
<1>5. CASE Next
  <2>1. pc = "ready" /\ pc' = "asked" /\ tk' = [tk EXCEPT !.preparedToken = NoToken]
    BY <1>5 DEF Next, Taken
  <2>2. tk'.i = tk.i /\ tk'.text = tk.text
    BY <1>1, <2>1 DEF Shape
  <2> QED
    BY <2>1, <2>2 DEF MovesOn
<1> QED
  BY <1>2, <1>3, <1>4, <1>5

=============================================================================
