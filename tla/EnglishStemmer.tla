--------------------------- MODULE EnglishStemmer ---------------------------
(***************************************************************************)
(* The steps of class EnglishStemmer as operators on words.  A region is   *)
(* the number of letters before it, or NoRegion: -1, which the code        *)
(* compares with unsigned sizes, where it is larger than all of them.      *)
(***************************************************************************)
EXTENDS Words

\* In lower case, and the upper-case letter that the stemmer uses.
Alphabet  == {"a", "b", "c", "d", "e", "f", "g", "h", "i", "j", "k", "l", "m", "n", "o", "p", "q",
              "r", "s", "t", "u", "v", "w", "x", "y", "z", "Y"}
Vowels    == {"a", "e", "i", "o", "u", "y"}
Doubles   == {"bb", "dd", "ff", "gg", "mm", "nn", "pp", "rr", "tt"}
LiEndings == {"c", "d", "e", "g", "h", "k", "m", "n", "r", "t"}

Exceptions1 ==
  [skies |-> "sky", dying |-> "die", lying |-> "lie", tying |-> "tie", idly |-> "idl",
   gently |-> "gentl", ugly |-> "ugli", early |-> "earli", only |-> "onli", singly |-> "singl",
   sky |-> "sky", news |-> "news", howe |-> "howe", atlas |-> "atlas", cosmos |-> "cosmos",
   bias |-> "bias", andes |-> "andes"]
Exceptions2 ==
  {"inning", "outing", "herring", "canning", "earring", "evening", "proceed", "exceed", "succeed"}

Suffixes2 ==
  << <<"ational", "ate">>, <<"tional", "tion">>, <<"enci", "ence">>, <<"anci", "ance">>,
     <<"abli", "able">>, <<"entli", "ent">>, <<"izer", "ize">>, <<"ization", "ize">>,
     <<"ation", "ate">>, <<"ator", "ate">>, <<"alism", "al">>, <<"aliti", "al">>,
     <<"alli", "al">>, <<"fulness", "ful">>, <<"ousli", "ous">>, <<"ousness", "ous">>,
     <<"iveness", "ive">>, <<"iviti", "ive">>, <<"biliti", "ble">>, <<"bli", "ble">>,
     <<"ogi", "og">>, <<"fulli", "ful">>, <<"lessli", "less">>, <<"li", "">> >>
Suffixes3 ==
  << <<"ational", "ate">>, <<"tional", "tion">>, <<"alize", "al">>, <<"icate", "ic">>,
     <<"iciti", "ic">>, <<"ical", "ic">>, <<"ful", "">>, <<"ness", "">>, <<"ative", "">> >>
Suffixes4 ==
  << "al", "ance", "ence", "er", "ic", "able", "ible", "ant", "ement", "ment", "ent", "ism",
     "ate", "iti", "ous", "ive", "ize", "ion" >>

-----------------------------------------------------------------------------
IsVowel(w, k)   == w[k] \in Vowels
HasLetter(w)    == Len(w) > 0
HasVowel(w)     == \E k \in 1 .. Len(w) : IsVowel(w, k)
ToLower(w)      == [k \in 1 .. Len(w) |-> IF w[k] = "Y" THEN "y" ELSE w[k]]

\* A y is a consonant at the beginning and after a vowel.
MarkY(w) ==
  LET marked[k \in 2 .. Len(w)] ==
        w[k] = "y" /\ IsVowel(w, k - 1) /\ (IF k = 2 THEN w[1] # "y" ELSE ~marked[k - 1])
  IN  [k \in 1 .. Len(w) |-> IF (IF k = 1 THEN w[1] = "y" ELSE marked[k]) THEN "Y" ELSE w[k]]

\* The first suffix of a list that w has, as a place in the list, or 0.
FirstSuffix(w, list) == FirstOf({k \in DOMAIN list : EndsIn(w, list[k])})
SuffixesOf(pairs) == [k \in DOMAIN pairs |-> pairs[k][1]]

-----------------------------------------------------------------------------
\* english_set_regions.
NoRegion == -1
RegionAfter(w, from) ==
  LET found == {k \in from + 1 .. Len(w) : ~IsVowel(w, k) /\ IsVowel(w, k - 1)}
  IN  IF FirstOf(found) \in 1 .. Len(w) - 1 THEN FirstOf(found) ELSE NoRegion
Past(w, n) == IF Len(w) > n THEN n ELSE NoRegion
R1(w) ==
  CASE StartsIn(w, "arsen") \/ StartsIn(w, "gener") -> Past(w, 5)
    [] StartsIn(w, "commun")                        -> Past(w, 6)
    [] OTHER                                        -> RegionAfter(w, 1)
R2(w) == IF R1(w) = NoRegion THEN NoRegion ELSE RegionAfter(w, R1(w))

\* n letters reach into the region; and as signed numbers.
ReachesSigned(n, region) == n >= region
Reaches(n, region) == region # NoRegion /\ n >= region

-----------------------------------------------------------------------------
\* english_is_short_syllable, of the end of a word.
ShortSyllable(w) ==
  LET n == Len(w)
  IN  \/ n = 2 /\ IsVowel(w, 1) /\ ~IsVowel(w, 2)
      \/ n >= 3 /\ ~IsVowel(w, n - 2) /\ IsVowel(w, n - 1) /\ ~IsVowel(w, n)
                /\ w[n] \notin {"w", "x", "Y"}

Suffixes0 == << "'s'", "'s" >>
Step0(w) ==
  LET k == FirstSuffix(w, Suffixes0)
  IN  IF k = 0 THEN w ELSE Drop(w, Len(Suffixes0[k]))

InIe(w)     == EndsIn(w, "ied") \/ EndsIn(w, "ies")
InPlural(w) == EndsIn(w, "s") /\ ~EndsIn(w, "us") /\ ~EndsIn(w, "ss")
Step1a(w) ==
  LET sses == EndsIn(w, "sses")
  IN  CASE sses -> Drop(w, 2)
        [] ~sses /\ InIe(w) -> Drop(w, 3) \o (IF Len(w) > 4 THEN <<"i">> ELSE <<"i", "e">>)
        [] ~sses /\ ~InIe(w) /\ InPlural(w) /\ Len(w) > 2 /\ HasVowel(Drop(w, 2)) -> Drop(w, 1)
        [] OTHER -> w

\* The endings of step 1b and what is left of a word without one, which may be too short
\* for the code to look at its last two letters.
InEed(w)  == EndsIn(w, "eedly") \/ EndsIn(w, "eed")
Suffixes1 == << "edly", "ingly", "ing", "ed" >>
Stem1b(w) ==
  LET k == FirstSuffix(w, Suffixes1)
      s == IF k = 0 THEN w ELSE Drop(w, Len(Suffixes1[k]))
  IN  IF k # 0 /\ HasVowel(s) THEN s ELSE w
Throws1b(w) == ~InEed(w) /\ Stem1b(w) # w /\ Len(Stem1b(w)) < 2

\* The stem gets an e back or loses half of its double letter.
Repaired(s) ==
  LET double == IsOneOf(From(s, Len(s) - 1), Doubles)
      added  == IF EndsIn(s, "at") \/ EndsIn(s, "bl") \/ EndsIn(s, "iz") THEN s \o <<"e">> ELSE s
      last   == IF Len(s) < 3 THEN s ELSE From(s, Len(s) - 2)
  IN  CASE double /\ Len(s) > 2 ->
             IF IsOneOf(Drop(s, 2), {"a", "e", "o", "ae", "eo", "aeo"}) THEN s ELSE Drop(s, 1)
        [] ~double /\ ShortSyllable(last) /\ R1(s) = NoRegion -> added \o <<"e">>
        [] OTHER -> added

Step1b(w) ==
  LET n       == IF EndsIn(w, "eedly") THEN 5 ELSE 3
      regular == ~IsOneOf(w, Exceptions2)
  IN  CASE regular /\ InEed(w) /\ Reaches(Len(w) - n, R1(w)) -> Drop(w, n) \o <<"e", "e">>
        [] regular /\ ~InEed(w) /\ Stem1b(w) # w            -> Repaired(Stem1b(w))
        [] OTHER                                            -> w

Step1c(w) ==
  LET n == Len(w)
  IN  IF n > 2 /\ w[n] \in {"y", "Y"} /\ ~IsVowel(w, n - 1) THEN Drop(w, 1) \o <<"i">> ELSE w

Step2(w) ==
  LET k    == FirstSuffix(w, SuffixesOf(Suffixes2))
      suff == Suffixes2[k][1]
      left == Drop(w, Len(suff))
  IN  IF k # 0 /\ Reaches(Len(left), R1(w))
           /\ ~(suff = "li" /\ left[Len(left)] \notin LiEndings)
      THEN left \o Spelled(Suffixes2[k][2]) ELSE w

Step3(w) ==
  LET k    == FirstSuffix(w, SuffixesOf(Suffixes3))
      suff == Suffixes3[k][1]
      left == Drop(w, Len(suff))
  IN  IF k # 0 /\ Reaches(Len(left), R1(w)) /\ (suff = "ative" => Reaches(Len(left), R2(w)))
      THEN left \o Spelled(Suffixes3[k][2]) ELSE w

Step4(w) ==
  LET k    == FirstSuffix(w, Suffixes4)
      left == Drop(w, Len(Suffixes4[k]))
  IN  IF k # 0 /\ Reaches(Len(left), R2(w))
           /\ (Suffixes4[k] = "ion" => EndsIn(left, "s") \/ EndsIn(left, "t"))
      THEN left ELSE w

Step5(w) ==
  LET left == Drop(w, 1)
      e == EndsIn(w, "e") /\ \/ Reaches(Len(left), R2(w))
                             \/ Reaches(Len(left), R1(w)) /\ ~ShortSyllable(left)
      l == EndsIn(w, "ll") /\ Reaches(Len(left), R2(w))
  IN  IF e \/ l THEN left ELSE w

\* Of the suffixes and the other strings above: what TLC can compute of them and a prover,
\* which knows no letters of a string, cannot.
ASSUME SuffixesAssumption ==
  /\ Alphabet \subseteq STRING
  /\ \A x \in DOMAIN Exceptions1 :
       /\ Len(x) \in Nat /\ Len(Exceptions1[x]) \in 1 .. Len(x)
       /\ ToLower(Spelled(Exceptions1[x])) = Spelled(Exceptions1[x])
       /\ Spelled(Exceptions1[x]) \in Seq(STRING)
  /\ \A list \in {Suffixes0, Suffixes1, Suffixes4} : list \in Seq(STRING)
  /\ \A n \in DOMAIN Suffixes0 :
       Len(Suffixes0[n]) \in Nat \ {0} /\ SubSeq(Suffixes0[n], 1, 1) \notin Alphabet
  /\ \A n \in DOMAIN Suffixes1 :
       LET s == Suffixes1[n]
       IN  Len(s) \in Nat \ {0, 1} /\ SubSeq(s, Len(s), Len(s)) \notin {"e", "i"}
  /\ \A n \in DOMAIN Suffixes4 : Len(Suffixes4[n]) \in Nat
  /\ \A pairs \in {Suffixes2, Suffixes3} :
       /\ pairs \in Seq(STRING \X STRING)
       /\ \A n \in DOMAIN pairs :
            /\ Len(pairs[n][1]) \in Nat /\ Len(pairs[n][2]) \in 0 .. Len(pairs[n][1])
            /\ Spelled(pairs[n][2]) \in Seq(STRING)
  /\ Len("e") = 1 /\ Len("s") = 1 /\ Len("ll") = 2 /\ Len("ied") = 3 /\ Len("ies") = 3
  /\ Len("sses") = 4

=============================================================================
