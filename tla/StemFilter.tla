----------------------------- MODULE StemFilter -----------------------------
(***************************************************************************)
(* Class StemFilter and the two stemmers as a filter sees them: a token is *)
(* changed in place, step by step, and whatever a step has done stays when *)
(* a later one throws.  The StemFilter chooses the stemmer by language and *)
(* swallows the exception and hands on the token as it is; a stemmer that  *)
(* is a filter of its own (STEMMER_EN) lets it through to processText      *)
(* (FilterThrows of Tokenizer, ProceedThrows of Engine).                   *)
(***************************************************************************)
EXTENDS EnglishStemmer, RussianPorterStemmer

CONSTANTS EnglishWords, RussianWords   \* bound: the tokens that come

ASSUME StemAssumption == EnglishWords \cup RussianWords \subseteq Seq(STRING) \ {<< >>}

VARIABLES
  word,       \* the token as it came
  language,   \* what detectLanguage says of it
  token,      \* the token now
  step,       \* what the stemmer does next
  regions,    \* rv, r1, r2 in RussianPorterStemmer::process
  local,      \* and in step1, step1If
  threw       \* an exception has been thrown

input == <<word, language>>
vars  == <<input, token, step, regions, local, threw>>

-----------------------------------------------------------------------------
Init ==
  /\ \/ language = "en" /\ word \in EnglishWords /\ step = "exceptions"
     \/ language = "ru" /\ word \in RussianWords /\ step = "regions"
  /\ token = word
  /\ regions = NoRegions /\ local = NoRegions
  /\ threw = FALSE

Turns(w, next) == token' = w /\ step' = next /\ UNCHANGED <<input, regions, local, threw>>

\* EnglishStemmer::process.
Exceptions ==
  LET lower == ToLower(word)
  IN  /\ step = "exceptions"
      /\ \/ word[1] \notin Alphabet /\ Turns(word, "done")
         \/ /\ word[1] \in Alphabet
            /\ \E x \in DOMAIN Exceptions1 :
                 lower = Spelled(x) /\ Turns(Spelled(Exceptions1[x]), "done")
         \/ /\ word[1] \in Alphabet /\ ~IsOneOf(lower, DOMAIN Exceptions1)
            /\ Turns(MarkY(lower), "suffixes")

\* english_replace_suffixes, on a reference to the token: steps 0 and 1.
ReplaceSuffixes ==
  LET w == Step1a(Step0(token))
  IN  /\ step = "suffixes"
      /\ ~Throws1b(w)
      /\ Turns(Step1c(Step1b(w)), "step2")

\* Looking at the last two letters of one: out_of_range; the token is the stem already.
ReplaceThrows ==
  LET w == Step1a(Step0(token))
  IN  /\ step = "suffixes"
      /\ Throws1b(w)
      /\ token' = Stem1b(w)
      /\ step' = "done" /\ threw' = TRUE
      /\ UNCHANGED <<input, regions, local>>

Suffixes ==
  \/ step = "step2" /\ Turns(Step2(token), "step3")
  \/ step = "step3" /\ Turns(Step3(token), "step4")
  \/ step = "step4" /\ Turns(Step4(token), "step5")
  \/ step = "step5" /\ Turns(Step5(token), "lower")
  \/ step = "lower" /\ Turns(ToLower(token), "done")

\* RussianPorterStemmer::process up to step 1.
Regions ==
  /\ step = "regions"
  /\ token' = ReplaceLetter(word)
  /\ regions' = SetRegions(token', NoRegions)
  /\ local' = SetRegions(token', NoRegions)
  /\ step' = "gerund"
  /\ UNCHANGED <<input, threw>>

\* A step: the ending it finds in its region is cut off the word, and the regions are
\* set again; on the way out of step 1 also those of process.
InStep1 == {"gerund", "reflexive", "adjective", "participle", "verb", "noun"}
Cut ==
  LET own    == IF step \in InStep1 THEN local ELSE regions
      ending == Ending(step, own)
      left   == Drop(token, Len(ending))
      next   == IF ending = << >> THEN AfterNone[step] ELSE AfterFound[step]
  IN  /\ step \in DOMAIN AfterFound
      /\ token' = left
      /\ step' = next
      /\ local' = IF step \in InStep1 /\ ending # << >> THEN SetRegions(left, local) ELSE local
      /\ regions' = IF next = "i" \/ (step \notin InStep1 /\ ending # << >>)
                    THEN SetRegions(left, regions) ELSE regions
      /\ UNCHANGED <<input, threw>>

Next ==
  \/ Exceptions
  \/ ReplaceSuffixes
  \/ ReplaceThrows
  \/ Suffixes
  \/ Regions
  \/ Cut

Spec == Init /\ [][Next]_vars

-----------------------------------------------------------------------------
\* No word vanishes or grows: what a filter hands on has at least one letter and no more
\* than the word, in lower case, also when the stemmer has thrown on the way; and only a
\* word whose stem is a single vowel makes it throw.
\* (EnglishStemmer::process, StemFilter::process, englishStemmer.cpp:345-386.)
StemsAreWords ==
  /\ Len(token) \in 1 .. Len(word)
  /\ step = "done" /\ language = "en" /\ word[1] \in Alphabet => ToLower(token) = token
  /\ threw => token = << word[1] >> /\ word[1] \in Vowels

\* Steps 2 to 5 of the English stemmer change nothing before the region R1 of the word
\* they start from, and nothing at all in a word without one, although the code compares
\* sizes without a sign with regions of -1.  (englishStemmer.cpp:251-343.)
KeepsBeforeR1 ==
  [][(step \in {"step2", "step3", "step4", "step5"}) =>
       LET kept == IF R1(token) = NoRegion THEN Len(token) ELSE R1(token)
       IN  Len(token') >= kept /\ SubSeq(token', 1, kept) = SubSeq(token, 1, kept)]_vars

\* What a step of the Russian stemmer cuts off is an ending of the word as it is then,
\* the one the step is about, and never the first vowel or anything before it, although
\* the region it was found in may be one of an earlier, longer word.
\* (setRussianRegions, step1, step1If, process, russianPorterStemmer.cpp:104-296.)
FirstVowel(w) == {k \in RuVowelsOf(w) : \A j \in RuVowelsOf(w) : k <= j}
EndingsCut(s) ==
  IF s = "last" THEN {"n", "q"} ELSE {Endings[s][n] : n \in DOMAIN Endings[s]}
CutsEndings ==
  [][(step \in DOMAIN Endings /\ token' # token) =>
       /\ \E e \in EndingsCut(step) : token = token' \o Spelled(e)
       /\ FirstVowel(token') = FirstVowel(token)]_vars

=============================================================================
