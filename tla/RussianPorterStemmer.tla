------------------------ MODULE RussianPorterStemmer ------------------------
(***************************************************************************)
(* Class RussianPorterStemmer.  Words are of Cyrillic letters only, each   *)
(* written as one Latin letter (and standing for two bytes):               *)
(*     a b v g d e E Z z i j k l m n o p r s t u f h c C w W Q y q X U A   *)
(* process keeps the regions of the word in locals that setRussianRegions  *)
(* only assigns when it finds one: what it does not find stays as it was   *)
(* for a longer word.                                                      *)
(***************************************************************************)
EXTENDS Words

RuVowels == {"a", "e", "i", "o", "u", "y", "X", "U", "A"}

Gerund1      == {"v", "vwi", "vwisq"}
Gerunds      == << "v", "vwi", "vwisq", "iv", "ivwi", "ivwisq", "yv", "yvwi", "yvwisq" >>
Participle1  == {"em", "nn", "vw", "UW", "W"}
Participles  == << "em", "nn", "vw", "UW", "W", "ivw", "yvw", "uUW" >>
Adjectives   ==
  << "ee", "ie", "ye", "oe", "imi", "ymi", "ej", "ij", "yj", "oj", "em", "im", "ym", "om", "ego",
     "ogo", "emu", "omu", "ih", "yh", "uU", "UU", "aA", "AA", "oU", "eU" >>
Reflexives   == << "sA", "sq" >>
Verb1        ==
  {"la", "na", "ete", "jte", "li", "j", "l", "em", "n", "lo", "no", "et", "Ut", "ny", "tq", "ewq", "nno"}
Verbs        ==
  << "la", "na", "ete", "jte", "li", "j", "l", "em", "n", "lo", "no", "et", "Ut", "ny", "tq", "ewq",
     "nno", "ila", "yla", "ena", "ejte", "ujte", "ite", "ili", "yli", "ej", "uj", "il", "yl", "im",
     "ym", "en", "ilo", "ylo", "eno", "At", "uet", "uUt", "it", "yt", "eny", "itq", "ytq", "iwq",
     "uU", "U" >>
Nouns        ==
  << "a", "ev", "ov", "ie", "qe", "e", "iAmi", "Ami", "ami", "ei", "ii", "i", "iej", "ej", "oj",
     "ij", "j", "iAm", "Am", "iem", "em", "am", "om", "o", "u", "ah", "iAh", "Ah", "y", "q", "iU",
     "qU", "U", "iA", "qA", "A" >>
Superlatives == << "ejw", "ejwe" >>
Derivational == << "ost", "ostq" >>

-----------------------------------------------------------------------------
RuIsVowel(w, k)  == w[k] \in RuVowels
RuVowelsOf(w)    == {k \in 1 .. Len(w) : RuIsVowel(w, k)}
ReplaceLetter(w) == [k \in 1 .. Len(w) |-> IF w[k] = "E" THEN "e" ELSE w[k]]

NoRegions == [rv |-> << >>, r1 |-> << >>, r2 |-> << >>]

\* What comes after the first vowel and consonant, or what there was.
AfterPair(w, old) ==
  LET pairs == {k \in RuVowelsOf(w) : k < Len(w) /\ ~RuIsVowel(w, k + 1)}
  IN  IF pairs = {} THEN old ELSE From(w, FirstOf(pairs) + 2)
\* What comes after the first vowel, or what there was.
AfterVowel(w, old) ==
  IF RuVowelsOf(w) = {} THEN old ELSE From(w, FirstOf(RuVowelsOf(w)) + 1)

\* setRussianRegions; and one that does nothing once there are regions.
SetRegionsOnce(w, old) == IF old # NoRegions THEN old ELSE
  [rv |-> AfterVowel(w, << >>), r1 |-> AfterPair(w, << >>),
   r2 |-> AfterPair(AfterPair(w, << >>), << >>)]
SetRegions(w, old) ==
  LET r1 == AfterPair(w, old.r1)
  IN  [rv |-> AfterVowel(w, old.rv), r1 |-> r1, r2 |-> AfterPair(r1, old.r2)]

\* What each step looks for, and which of it only after a or A.  (A verb ending in both of
\* the code's lists is taken anyway; there is none.)
Endings ==
  [gerund |-> Gerunds, reflexive |-> Reflexives, adjective |-> Adjectives,
   participle |-> Participles, verb |-> Verbs, noun |-> Nouns, i |-> <<"i">>,
   derivational |-> Derivational, superlative |-> Superlatives, last |-> <<"nn", "q">>]
OnlyAfterA(step) ==
  CASE step = "gerund"     -> Gerund1
    [] step = "participle" -> Participle1
    [] step = "verb"       -> Verb1
    [] OTHER               -> {}

\* The first ending of a step that a region has, as letters; none for none.
IsAfterA(w) == w # << >> /\ w[Len(w)] \in {"a", "A"}
Fits(region, e, step) ==
  EndsIn(region, e) /\ (e \in OnlyAfterA(step) => IsAfterA(Drop(region, Len(e))))
FirstEnding(region, step) ==
  LET k == FirstOf({n \in DOMAIN Endings[step] : Fits(region, Endings[step][n], step)})
  IN  IF k = 0 THEN << >> ELSE Spelled(Endings[step][k])

\* What a step cuts off: the ending it finds, but of a last nn one n.
Ending(step, regions) ==
  LET e == FirstEnding(IF step = "derivational" THEN regions.r2 ELSE regions.rv, step)
  IN  IF step = "last" /\ e = Spelled("nn") THEN Spelled("n") ELSE e

\* The steps in their order: the one after a step that has found an ending, and after
\* one that has not.
AfterFound ==
  [gerund |-> "i", reflexive |-> "adjective", adjective |-> "participle", participle |-> "i",
   verb |-> "i", noun |-> "i", i |-> "derivational", derivational |-> "superlative",
   superlative |-> "last", last |-> "done"]
AfterNone == [AfterFound EXCEPT !.gerund = "reflexive", !.adjective = "verb", !.verb = "noun"]

\* Of the endings: what TLC can compute of them and a prover, which knows no letters of a
\* string, cannot.  None of step 1 and of "i" is the end of a word in ost or ostq, but
\* for a noun's q.
ASSUME EndingsAssumption ==
  /\ \A s \in DOMAIN Endings :
       /\ Endings[s] \in Seq(STRING)
       /\ \A n \in DOMAIN Endings[s] : Len(Endings[s][n]) \in Nat \ {0}
  /\ Len("n") = 1 /\ Len("q") = 1 /\ EndsIn(Spelled("nn"), "n")
  /\ \A s \in {"gerund", "reflexive", "adjective", "participle", "verb", "noun", "i"} :
       \A n \in DOMAIN Endings[s], d \in {"ost", "ostq"} :
         \/ s = "noun" /\ Endings[s][n] = "q"
         \/ ~Fits(Spelled(d), Endings[s][n], s) /\ ~EndsIn(Spelled(Endings[s][n]), d)

=============================================================================
