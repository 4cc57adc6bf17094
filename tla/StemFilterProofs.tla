--------------------------- MODULE StemFilterProofs ---------------------------
(***************************************************************************)
(* What both stemmers do to a word, for every word of letters: it stays a  *)
(* word, nothing is changed before its region, and only endings are cut.   *)
(* Of suffixes and endings only the facts of SuffixesAssumption and        *)
(* EndingsAssumption are used.                                             *)
(***************************************************************************)
EXTENDS StemFilter, SequenceTheorems, WellFoundedInduction, TLAPS

Letters    == Seq(STRING)
RegionSets == [rv : Letters, r1 : Letters, r2 : Letters]
Suffixing  == {"step2", "step3", "step4", "step5", "lower"}
EnglishSteps  == {"exceptions", "suffixes", "done"} \cup Suffixing
AfterStep1 == {"i", "derivational", "superlative", "last"}

Shape ==
  /\ word \in Letters \ {<< >>} /\ token \in Letters
  /\ regions \in RegionSets /\ local \in RegionSets
  /\ threw \in BOOLEAN /\ (threw => step = "done")
  /\ \/ language = "en" /\ step \in EnglishSteps
     \/ language = "ru" /\ step \in {"regions", "done"} \cup InStep1 \cup AfterStep1 /\ ~threw

\* The suffixes are looked for in a word that begins with a letter and has its y marked.
Marked == step = "suffixes" => word[1] \in Alphabet /\ token = MarkY(ToLower(word))

\* The word as the Russian stemmer takes it, and what it must not cut into.
Whole == ReplaceLetter(word)
Rv(w) == AfterVowel(w, << >>)
Begun == step = "regions" => token = word /\ regions = NoRegions /\ local = NoRegions
SameVowel ==
  step \in InStep1 \cup AfterStep1 => FirstVowel(token) = FirstVowel(Whole)

\* The region after the vowel is always that of the token, although it is only assigned
\* when there is one.
RvFresh ==
  /\ step \in InStep1 => local.rv = Rv(token)
  /\ step \in AfterStep1 => regions.rv = Rv(token)

\* The second region may be one of a longer word; but then ost or ostq is not its end.
Derivations == {"ost", "ostq"}
WholeRegions ==
  step \in InStep1 =>
    /\ regions = SetRegions(Whole, NoRegions)
    /\ token = Whole \/ \A d \in Derivations : ~EndsIn(regions.r2, d)
R2Behind ==
  step \in {"i", "derivational"} =>
    /\ AfterPair(regions.r1, regions.r2) = regions.r2
    /\ \A d \in Derivations : EndsIn(regions.r2, d) => EndsIn(Rv(token), d)

IInv == /\ Shape /\ StemsAreWords
        /\ Marked
        /\ Begun /\ SameVowel /\ RvFresh /\ WholeRegions /\ R2Behind

-----------------------------------------------------------------------------
\* Lemmas about words.

LEMMA FirstIsLeast ==
  ASSUME NEW S, S \subseteq Nat, S # {}
  PROVE  FirstOf(S) \in S /\ \A n \in S : FirstOf(S) <= n
<1> DEFINE R == {ss \in Nat \X Nat : ss[1] < ss[2]}
<1>1. R = OpToRel(<, Nat)
  BY Zenon DEF OpToRel
<1>2. IsWellFoundedOn(R, Nat)
  BY <1>1, NatLessThanWellFounded, Zenon
<1>3. PICK m \in S : \A n \in S : ~ (<<n, m>> \in R)
  <2> HIDE DEF R
  <2> QED
    BY <1>2, WFMin, Zenon
<1>4. \A n \in S : m <= n
  <2> TAKE n \in S
  <2>1. m \in Nat /\ n \in Nat /\ ~ (n < m)
    BY <1>3
  <2> QED
    BY <2>1
<1> QED
  BY <1>4 DEF FirstOf, F!Min

\* What is left of a word without its last letters, and from a letter on.
LEMMA DropIs ==
  ASSUME NEW w \in Letters, NEW n \in 0 .. Len(w)
  PROVE  /\ Drop(w, n) \in Letters /\ Len(Drop(w, n)) = Len(w) - n
         /\ \A k \in 1 .. Len(w) - n : Drop(w, n)[k] = w[k]
<1>1. \A k \in 1 .. Len(w) - n : w[k] \in STRING
  BY DEF Letters
<1> QED
  BY <1>1, SubSeqProperties DEF Drop, Letters

LEMMA FromIs ==
  ASSUME NEW w \in Letters, NEW k \in 1 .. Len(w) + 1
  PROVE  /\ From(w, k) \in Letters /\ Len(From(w, k)) = Len(w) - k + 1
         /\ \A n \in 1 .. Len(w) - k + 1 : From(w, k)[n] = w[k + n - 1]
<1>1. \A n \in k .. Len(w) : w[n] \in STRING
  BY DEF Letters
<1> QED
  BY <1>1, SubSeqProperties DEF From, Letters

\* A word that ends in a string has its letters at the end.
LEMMA EndsInIs ==
  ASSUME NEW w \in Letters, NEW s, Len(s) \in Nat
  PROVE  EndsIn(w, s) <=>
           /\ Len(w) >= Len(s)
           /\ \A k \in 1 .. Len(s) : w[Len(w) - Len(s) + k] = SubSeq(s, k, k)
<1> DEFINE f == From(w, Len(w) - Len(s) + 1)
<1>0. SUFFICES ASSUME Len(w) >= Len(s)
               PROVE  f = Spelled(s) <=>
                        \A k \in 1 .. Len(s) : w[Len(w) - Len(s) + k] = SubSeq(s, k, k)
  BY DEF EndsIn
<1>1. /\ f \in Seq(STRING) /\ Len(f) = Len(s)
      /\ \A k \in 1 .. Len(s) : f[k] = w[Len(w) - Len(s) + k]
  BY <1>0, FromIs, Len(w) \in Nat DEF Letters
<1> HIDE DEF f
<1>2. f \in [1 .. Len(s) -> STRING]
  BY <1>1, LenProperties
<1>3. f = [k \in 1 .. Len(s) |-> f[k]]
  BY <1>2
<1>4. ASSUME f = Spelled(s), NEW k \in 1 .. Len(s)
      PROVE  w[Len(w) - Len(s) + k] = SubSeq(s, k, k)
  BY <1>1, <1>4 DEF Spelled
<1>5. ASSUME \A k \in 1 .. Len(s) : w[Len(w) - Len(s) + k] = SubSeq(s, k, k)
      PROVE  f = Spelled(s)
  <2>1. \A k \in 1 .. Len(s) : f[k] = SubSeq(s, k, k)
    BY <1>1, <1>5
  <2> QED
    BY <1>3, <2>1 DEF Spelled
<1> QED
  BY <1>4, <1>5

\* Cutting an ending off and putting it back.
LEMMA CutAndJoin ==
  ASSUME NEW w \in Letters, NEW s, Len(s) \in Nat, EndsIn(w, s)
  PROVE  w = Drop(w, Len(s)) \o Spelled(s)
<1> DEFINE n == Len(w) - Len(s)
           d == Drop(w, Len(s))
           e == From(w, n + 1)
<1>1. Len(w) \in Nat /\ n \in 0 .. Len(w) /\ Len(s) \in 0 .. Len(w)
  BY DEF EndsIn, Letters
<1>2. /\ d \in Letters /\ Len(d) = n /\ \A k \in 1 .. n : d[k] = w[k]
  BY <1>1, DropIs
<1>3. /\ e \in Letters /\ Len(e) = Len(s) /\ \A k \in 1 .. Len(s) : e[k] = w[n + k]
  BY <1>1, FromIs
<1>4. e = Spelled(s)
  BY DEF EndsIn
<1> HIDE DEF d, e
<1>5. /\ d \o e \in Letters /\ Len(d \o e) = Len(w)
      /\ \A k \in 1 .. Len(w) : (d \o e)[k] = IF k <= n THEN d[k] ELSE e[k - n]
  BY <1>1, <1>2, <1>3, ConcatProperties DEF Letters
<1>6. ASSUME NEW k \in 1 .. Len(w)
      PROVE  (d \o e)[k] = w[k]
  <2>1. CASE k \in 1 .. n
    BY <1>1, <1>2, <1>5, <2>1
  <2>2. CASE k \notin 1 .. n
    <3> DEFINE j == k - n
    <3>1. j \in 1 .. Len(s) /\ n + j = k /\ ~ (k <= n)
      BY <1>1, <2>2
    <3>2. e[j] = w[k]
      BY <1>3, <3>1
    <3>3. (d \o e)[k] = e[j]
      BY <1>5, <3>1
    <3> QED
      BY <3>2, <3>3
  <2> QED
    BY <2>1, <2>2
<1>7. d \o e = w
  BY <1>5, <1>6, SeqEqual DEF Letters
<1> QED
  BY <1>4, <1>7 DEF d

\* What ends in a string still does with letters before it.
LEMMA EndsInWhole ==
  ASSUME NEW w \in Letters, NEW k \in 1 .. Len(w) + 1, NEW s, Len(s) \in Nat,
         EndsIn(From(w, k), s)
  PROVE  EndsIn(w, s)
<1>1. Len(w) \in Nat
  BY DEF Letters
<1>2. /\ From(w, k) \in Letters /\ Len(From(w, k)) = Len(w) - k + 1
      /\ \A n \in 1 .. Len(w) - k + 1 : From(w, k)[n] = w[k + n - 1]
  BY FromIs
<1>3. /\ Len(w) - k + 1 >= Len(s)
      /\ \A n \in 1 .. Len(s) : From(w, k)[Len(w) - k + 1 - Len(s) + n] = SubSeq(s, n, n)
  BY <1>2, EndsInIs
<1>4. ASSUME NEW n \in 1 .. Len(s)
      PROVE  w[Len(w) - Len(s) + n] = SubSeq(s, n, n)
  <2> DEFINE m == Len(w) - k + 1 - Len(s) + n
  <2>1. m \in 1 .. Len(w) - k + 1 /\ k + m - 1 = Len(w) - Len(s) + n
    BY <1>1, <1>3
  <2> QED
    BY <1>2, <1>3, <2>1
<1> QED
  BY <1>1, <1>3, <1>4, EndsInIs

\* Of two strings at the end of a word the shorter is at the end of the longer.
LEMMA EndsAgree ==
  ASSUME NEW w \in Letters, NEW s, NEW t, Len(s) \in Nat, Len(t) \in Nat,
         EndsIn(w, s), EndsIn(w, t), Len(t) <= Len(s)
  PROVE  EndsIn(Spelled(s), t)
<1> DEFINE e == From(w, Len(w) - Len(s) + 1)
<1>1. e = Spelled(s)
  BY DEF EndsIn
<1>2. Len(w) \in Nat /\ Len(w) >= Len(s)
  BY DEF EndsIn, Letters
<1>3. /\ e \in Letters /\ Len(e) = Len(s)
      /\ \A k \in 1 .. Len(s) : e[k] = w[Len(w) - Len(s) + k]
  BY <1>2, FromIs
<1>4. \A k \in 1 .. Len(t) : w[Len(w) - Len(t) + k] = SubSeq(t, k, k)
  BY EndsInIs
<1> HIDE DEF e
<1>5. ASSUME NEW k \in 1 .. Len(t)
      PROVE  e[Len(e) - Len(t) + k] = SubSeq(t, k, k)
  <2>1. Len(s) - Len(t) + k \in 1 .. Len(s)
    OBVIOUS
  <2>2. e[Len(e) - Len(t) + k] = w[Len(w) - Len(t) + k]
    BY <1>2, <1>3, <2>1
  <2> QED
    BY <1>4, <2>2
<1> QED
  BY <1>1, <1>3, <1>5, EndsInIs

-----------------------------------------------------------------------------
\* Lemmas about the regions of the Russian stemmer.

LEMMA VowelsAre ==
  ASSUME NEW w \in Letters
  PROVE  /\ Len(w) \in Nat /\ RuVowelsOf(w) \subseteq 1 .. Len(w)
         /\ RuVowelsOf(w) # {} => /\ FirstOf(RuVowelsOf(w)) \in RuVowelsOf(w)
                                 /\ \A k \in RuVowelsOf(w) : FirstOf(RuVowelsOf(w)) <= k
<1>1. Len(w) \in Nat /\ RuVowelsOf(w) \subseteq Nat
  BY DEF Letters, RuVowelsOf
<1> QED
  BY <1>1, FirstIsLeast DEF RuVowelsOf

LEMMA NoVowel ==
  ASSUME NEW w \in Letters
  PROVE  FirstVowel(w) = {} <=> RuVowelsOf(w) = {}
BY VowelsAre DEF FirstVowel

\* An ending of what comes after the first vowel is an ending of the word, and may be cut
\* off without touching the vowel.
LEMMA RvCut ==
  ASSUME NEW w \in Letters, NEW s, Len(s) \in Nat \ {0}, EndsIn(Rv(w), s)
  PROVE  /\ EndsIn(w, s)
         /\ Drop(w, Len(s)) \in Letters /\ Len(Drop(w, Len(s))) \in 1 .. Len(w)
         /\ FirstVowel(Drop(w, Len(s))) = FirstVowel(w)
<1> DEFINE V == RuVowelsOf(w)
           v == FirstOf(V)
           left == Drop(w, Len(s))
<1>1. V # {}
  <2>1. SUFFICES ASSUME V = {} PROVE FALSE
    OBVIOUS
  <2>2. Rv(w) = << >>
    BY <2>1 DEF Rv, AfterVowel
  <2> QED
    BY <2>2 DEF EndsIn
<1>2. Len(w) \in Nat /\ V \subseteq 1 .. Len(w) /\ v \in V /\ \A k \in V : v <= k
  BY <1>1, VowelsAre
<1> HIDE DEF v
<1>3. Rv(w) = From(w, v + 1)
  BY <1>1 DEF Rv, AfterVowel, v
<1>4. EndsIn(w, s) /\ Len(s) <= Len(w) - v
  BY <1>2, <1>3, EndsInWhole, FromIs DEF EndsIn
<1>5. /\ left \in Letters /\ Len(left) = Len(w) - Len(s)
      /\ \A k \in 1 .. Len(w) - Len(s) : left[k] = w[k]
  <2>1. Len(s) \in 0 .. Len(w)
    BY <1>2, <1>4
  <2> QED
    BY <2>1, DropIs
<1> HIDE DEF left
<1>6. \A k : k \in RuVowelsOf(left) <=> k \in V /\ k <= Len(w) - Len(s)
  BY <1>2, <1>4, <1>5 DEF RuVowelsOf, RuIsVowel
<1>7. FirstVowel(left) = FirstVowel(w)
  BY <1>2, <1>4, <1>6 DEF FirstVowel
<1> QED
  BY <1>2, <1>4, <1>5, <1>7 DEF left

\* A vowel and the consonant after it.
Pairs(w) == {k \in RuVowelsOf(w) : k < Len(w) /\ ~RuIsVowel(w, k + 1)}
LEMMA PairIs ==
  ASSUME NEW w \in Letters, NEW old \in Letters
  PROVE  /\ AfterPair(w, old) \in Letters
         /\ Pairs(w) = {} => AfterPair(w, old) = old
         /\ Pairs(w) # {} =>
              LET p == FirstOf(Pairs(w))
              IN  /\ p \in Pairs(w) /\ \A k \in Pairs(w) : p <= k
                  /\ p \in 1 .. Len(w) - 1 /\ AfterPair(w, old) = From(w, p + 2)
                  /\ Len(AfterPair(w, old)) = Len(w) - p - 1
<1>1. Len(w) \in Nat /\ Pairs(w) \subseteq Nat /\ \A k \in Pairs(w) : k \in 1 .. Len(w) - 1
  BY VowelsAre DEF Pairs
<1>2. AfterPair(w, old) = IF Pairs(w) = {} THEN old ELSE From(w, FirstOf(Pairs(w)) + 2)
  BY DEF AfterPair, Pairs
<1>3. CASE Pairs(w) = {}
  BY <1>2, <1>3
<1>4. CASE Pairs(w) # {}
  <2> DEFINE p == FirstOf(Pairs(w))
  <2>1. p \in Pairs(w) /\ \A k \in Pairs(w) : p <= k
    BY <1>1, <1>4, FirstIsLeast
  <2> HIDE DEF p
  <2>2. p \in 1 .. Len(w) - 1 /\ p + 2 \in 1 .. Len(w) + 1
    BY <1>1, <2>1
  <2>3. AfterPair(w, old) = From(w, p + 2)
    BY <1>2, <1>4 DEF p
  <2>4. From(w, p + 2) \in Letters /\ Len(From(w, p + 2)) = Len(w) - p - 1
    BY <1>1, <2>2, FromIs
  <2> QED
    BY <1>4, <2>1, <2>2, <2>3, <2>4 DEF p
<1> QED
  BY <1>3, <1>4

\* What comes after a pair of a word comes after its first vowel.
LEMMA PairBehind ==
  ASSUME NEW w \in Letters, NEW old \in Letters, Pairs(w) # {},
         NEW s, Len(s) \in Nat, EndsIn(AfterPair(w, old), s)
  PROVE  EndsIn(Rv(w), s)
<1> DEFINE v == FirstOf(RuVowelsOf(w))
           p == FirstOf(Pairs(w))
<1>1. p \in Pairs(w) /\ p \in 1 .. Len(w) - 1 /\ AfterPair(w, old) = From(w, p + 2)
  BY PairIs
<1>2. RuVowelsOf(w) # {} /\ p \in RuVowelsOf(w)
  BY <1>1 DEF Pairs
<1>3. Len(w) \in Nat /\ v \in 1 .. Len(w) /\ v <= p
  BY <1>2, VowelsAre
<1>4. Rv(w) = From(w, v + 1)
  BY <1>2 DEF Rv, AfterVowel
<1> HIDE DEF v, p
<1>5. EndsIn(w, s) /\ Len(s) <= Len(w) - p - 1
  BY <1>1, <1>3, EndsInWhole, FromIs DEF EndsIn
<1>6. /\ Rv(w) \in Letters /\ Len(Rv(w)) = Len(w) - v
      /\ \A n \in 1 .. Len(w) - v : Rv(w)[n] = w[v + n]
  <2>1. v + 1 \in 1 .. Len(w) + 1 /\ Len(w) - (v + 1) + 1 = Len(w) - v
    BY <1>3
  <2>2. /\ From(w, v + 1) \in Letters /\ Len(From(w, v + 1)) = Len(w) - v
        /\ \A n \in 1 .. Len(w) - v : From(w, v + 1)[n] = w[v + 1 + n - 1]
    BY <2>1, FromIs
  <2>3. \A n \in 1 .. Len(w) - v : v + 1 + n - 1 = v + n
    BY <1>3
  <2> QED
    BY <1>4, <2>2, <2>3
<1>7. ASSUME NEW k \in 1 .. Len(s)
      PROVE  Rv(w)[Len(Rv(w)) - Len(s) + k] = SubSeq(s, k, k)
  <2> DEFINE n == Len(w) - v - Len(s) + k
  <2>1. n \in 1 .. Len(w) - v /\ v + n = Len(w) - Len(s) + k
    BY <1>1, <1>3, <1>5
  <2>2. w[Len(w) - Len(s) + k] = SubSeq(s, k, k)
    BY <1>5, EndsInIs
  <2> QED
    BY <1>6, <2>1, <2>2
<1>8. Len(s) <= Len(Rv(w))
  BY <1>1, <1>3, <1>5, <1>6
<1> QED
  BY <1>6, <1>7, <1>8, EndsInIs

\* So does what comes after a pair in what comes after one.
LEMMA R2Behind2 ==
  ASSUME NEW w \in Letters, NEW old \in Letters, NEW older \in Letters,
         Pairs(w) # {}, Pairs(AfterPair(w, old)) # {},
         NEW s, Len(s) \in Nat, EndsIn(AfterPair(AfterPair(w, old), older), s)
  PROVE  EndsIn(Rv(w), s)
<1> DEFINE r1 == AfterPair(w, old)
           p  == FirstOf(Pairs(r1))
<1>1. r1 \in Letters
  BY PairIs
<1> HIDE DEF r1
<1>2. Len(r1) \in Nat /\ p \in 1 .. Len(r1) - 1 /\ AfterPair(r1, older) = From(r1, p + 2)
  BY <1>1, PairIs DEF r1, Letters
<1> HIDE DEF p
<1>3. EndsIn(r1, s)
  BY <1>1, <1>2, EndsInWhole DEF r1
<1> QED
  BY <1>3, PairBehind DEF r1

\* Regions set again: each is that of the word, or the second is the old one.
LEMMA RegionsSet ==
  ASSUME NEW w \in Letters, NEW old \in RegionSets
  PROVE  LET new == SetRegions(w, old)
         IN  /\ new \in RegionSets
             /\ new.rv = AfterVowel(w, old.rv)
             /\ new.r1 = AfterPair(w, old.r1) /\ new.r2 = AfterPair(new.r1, old.r2)
             /\ AfterPair(new.r1, new.r2) = new.r2
             /\ Pairs(new.r1) = {} => new.r2 = old.r2
             /\ Pairs(w) = {} /\ AfterPair(old.r1, old.r2) = old.r2 => new.r2 = old.r2
<1> DEFINE new == SetRegions(w, old)
           r1  == AfterPair(w, old.r1)
           r2  == AfterPair(r1, old.r2)
<1>1. old.rv \in Letters /\ old.r1 \in Letters /\ old.r2 \in Letters
  BY DEF RegionSets
<1>2. new = [rv |-> AfterVowel(w, old.rv), r1 |-> r1, r2 |-> r2]
  BY DEF SetRegions
<1>3. r1 \in Letters /\ (Pairs(w) = {} => r1 = old.r1)
  BY <1>1, PairIs
<1> HIDE DEF r1
<1>4. /\ r2 \in Letters
      /\ Pairs(r1) = {} => r2 = old.r2 /\ AfterPair(r1, r2) = r2
      /\ Pairs(r1) # {} => r2 = From(r1, FirstOf(Pairs(r1)) + 2)
  BY <1>1, <1>3, PairIs
<1> HIDE DEF r2
<1>5. AfterPair(r1, r2) = r2
  BY <1>3, <1>4, PairIs
<1>6. Pairs(w) = {} /\ AfterPair(old.r1, old.r2) = old.r2 => r2 = old.r2
  BY <1>3 DEF r2
<1>7. AfterVowel(w, old.rv) \in Letters
  <2>1. CASE RuVowelsOf(w) = {}
    BY <1>1, <2>1 DEF AfterVowel
  <2>2. CASE RuVowelsOf(w) # {}
    <3>1. FirstOf(RuVowelsOf(w)) + 1 \in 1 .. Len(w) + 1
      BY <2>2, VowelsAre
    <3> QED
      BY <2>2, <3>1, FromIs DEF AfterVowel
  <2> QED
    BY <2>1, <2>2
<1> HIDE DEF new
<1>8. new.rv = AfterVowel(w, old.rv) /\ new.r1 = r1 /\ new.r2 = r2 /\ new \in RegionSets
  BY <1>2, <1>3, <1>4, <1>7 DEF RegionSets
<1> QED
  BY <1>4, <1>5, <1>6, <1>8 DEF r1, r2, new

\* The region after the vowel is that of the word also when it was set for a longer one
\* with the same vowel.
LEMMA RvSet ==
  ASSUME NEW w \in Letters, NEW longer \in Letters, FirstVowel(w) = FirstVowel(longer)
  PROVE  AfterVowel(w, Rv(longer)) = Rv(w)
<1>1. RuVowelsOf(w) = {} <=> RuVowelsOf(longer) = {}
  BY NoVowel
<1> QED
  BY <1>1 DEF Rv, AfterVowel

\* A pair that is not cut into stays the first one.
LEMMA PairKept ==
  ASSUME NEW w \in Letters, NEW old \in Letters, NEW older \in Letters, Pairs(w) # {},
         NEW n \in Nat, n <= Len(AfterPair(w, old))
  PROVE  /\ Drop(w, n) \in Letters /\ Pairs(Drop(w, n)) # {}
         /\ AfterPair(Drop(w, n), older) = Drop(AfterPair(w, old), n)
<1> DEFINE p == FirstOf(Pairs(w))
           left == Drop(w, n)
           len == Len(w) - n
           r1 == AfterPair(w, old)
<1>1. /\ p \in Pairs(w) /\ \A k \in Pairs(w) : p <= k
      /\ p \in 1 .. Len(w) - 1 /\ r1 = From(w, p + 2) /\ Len(r1) = Len(w) - p - 1
      /\ r1 \in Letters
  BY PairIs
<1> HIDE DEF p, r1
<1>2. Len(w) \in Nat /\ n \in 0 .. Len(w) /\ n \in 0 .. Len(r1) /\ p + 1 <= len /\ len \in Nat
  BY <1>1 DEF r1, Letters
<1>3. left \in Letters /\ Len(left) = len /\ \A k \in 1 .. len : left[k] = w[k]
  BY <1>2, DropIs
<1> HIDE DEF left
<1>4. \A k : k \in Pairs(left) <=> k \in Pairs(w) /\ k < len
  <2>1. \A k \in 1 .. len : RuIsVowel(left, k) <=> RuIsVowel(w, k)
    BY <1>3 DEF RuIsVowel
  <2>2. \A k : k \in Pairs(left) <=>
               k \in 1 .. len /\ RuIsVowel(left, k) /\ k < len /\ ~RuIsVowel(left, k + 1)
    BY <1>3 DEF Pairs, RuVowelsOf
  <2>3. \A k : k \in Pairs(w) <=>
               k \in 1 .. Len(w) /\ RuIsVowel(w, k) /\ k < Len(w) /\ ~RuIsVowel(w, k + 1)
    BY DEF Pairs, RuVowelsOf
  <2>4. \A k \in Int : k < len => k < Len(w) /\ (k \in 1 .. len <=> k \in 1 .. Len(w))
    BY <1>2
  <2>5. \A k \in 1 .. len : k < len => k + 1 \in 1 .. len
    BY <1>2
  <2> HIDE DEF len
  <2> QED
    BY <1>2, <2>1, <2>2, <2>3, <2>4, <2>5
<1>5. p \in Pairs(left) /\ \A k \in Pairs(left) : p <= k
  BY <1>1, <1>2, <1>4
<1>6. /\ FirstOf(Pairs(left)) = p
      /\ AfterPair(left, older) = From(left, p + 2) /\ Len(From(left, p + 2)) = len - p - 1
  <2>1. /\ FirstOf(Pairs(left)) \in Pairs(left) /\ FirstOf(Pairs(left)) <= p
        /\ FirstOf(Pairs(left)) \in Nat
        /\ AfterPair(left, older) = From(left, FirstOf(Pairs(left)) + 2)
        /\ Len(AfterPair(left, older)) = len - FirstOf(Pairs(left)) - 1
    <3>1. Pairs(left) # {}
      BY <1>5
    <3>2. /\ FirstOf(Pairs(left)) \in Pairs(left) /\ \A k \in Pairs(left) : FirstOf(Pairs(left)) <= k
          /\ FirstOf(Pairs(left)) \in 1 .. Len(left) - 1
          /\ AfterPair(left, older) = From(left, FirstOf(Pairs(left)) + 2)
          /\ Len(AfterPair(left, older)) = Len(left) - FirstOf(Pairs(left)) - 1
      BY <1>3, <3>1, PairIs
    <3> QED
      BY <1>2, <1>3, <1>5, <3>2
  <2>2. p <= FirstOf(Pairs(left))
    BY <1>5, <2>1
  <2>3. FirstOf(Pairs(left)) = p
    BY <1>1, <2>1, <2>2
  <2> QED
    BY <2>1, <2>3
<1>7. /\ Drop(r1, n) \in Letters /\ Len(Drop(r1, n)) = len - p - 1
      /\ \A k \in 1 .. len - p - 1 : Drop(r1, n)[k] = r1[k]
  <2>1. Len(r1) - n = len - p - 1
    BY <1>1, <1>2
  <2> QED
    BY <1>1, <1>2, <2>1, DropIs
<1>8. ASSUME NEW k \in 1 .. len - p - 1
      PROVE  From(left, p + 2)[k] = Drop(r1, n)[k]
  <2>1. p + 2 \in 1 .. Len(w) + 1 /\ p + 2 \in 1 .. Len(left) + 1 /\ p + 2 + k - 1 \in 1 .. len
        /\ k \in 1 .. Len(w) - (p + 2) + 1 /\ k \in 1 .. Len(left) - (p + 2) + 1
    BY <1>1, <1>2, <1>3
  <2>2. From(left, p + 2)[k] = left[p + 2 + k - 1] /\ r1[k] = w[p + 2 + k - 1]
    BY <1>1, <1>3, <2>1, FromIs
  <2> QED
    BY <1>3, <1>7, <2>1, <2>2
<1>9. From(left, p + 2) \in Letters
  BY <1>1, <1>2, <1>3, FromIs
<1> HIDE DEF len
<1>10. From(left, p + 2) = Drop(r1, n)
  BY <1>6, <1>7, <1>8, <1>9, SeqEqual DEF Letters
<1> QED
  BY <1>3, <1>5, <1>6, <1>10 DEF left, r1

-----------------------------------------------------------------------------
\* Lemmas about endings.

\* What a step finds is one of its endings, at the end of its region.
LEMMA EndingFound ==
  ASSUME NEW s \in DOMAIN Endings, NEW regs \in RegionSets, Ending(s, regs) # << >>
  PROVE  LET region == IF s = "derivational" THEN regs.r2 ELSE regs.rv
         IN  \E x \in EndingsCut(s) :
               /\ Ending(s, regs) = Spelled(x)
               /\ Len(x) \in Nat \ {0} /\ Len(Spelled(x)) = Len(x) /\ EndsIn(region, x)
               /\ s # "last" => Fits(region, x, s)
<1> DEFINE region == IF s = "derivational" THEN regs.r2 ELSE regs.rv
           list   == Endings[s]
           places == {n \in DOMAIN list : Fits(region, list[n], s)}
           k      == FirstOf(places)
           e      == FirstEnding(region, s)
<1>1. region \in Letters /\ Len(region) \in Nat
  <2>1. regs.r2 \in Letters /\ regs.rv \in Letters
    BY DEF RegionSets
  <2>2. region \in Letters
    BY <2>1
  <2> QED
    BY <2>2 DEF Letters
<1>2. list \in Seq(STRING) /\ \A n \in DOMAIN list : Len(list[n]) \in Nat \ {0}
  BY EndingsAssumption
<1>3. Ending(s, regs) = IF s = "last" /\ e = Spelled("nn") THEN Spelled("n") ELSE e
  BY DEF Ending
<1>4. e = IF k = 0 THEN << >> ELSE Spelled(list[k])
  BY DEF FirstEnding
<1>5. EndingsCut(s) = IF s = "last" THEN {"n", "q"} ELSE {list[n] : n \in DOMAIN list}
  BY DEF EndingsCut
<1>6. s = "last" => list = <<"nn", "q">>
  BY DEF Endings
<1>7. /\ Len("n") = 1 /\ Spelled("n") # << >> /\ EndsIn(Spelled("nn"), "n")
  <2>1. Len("n") = 1 /\ EndsIn(Spelled("nn"), "n")
    BY EndingsAssumption
  <2>2. DOMAIN Spelled("n") = 1 .. 1
    BY <2>1 DEF Spelled
  <2>3. Spelled("n") # << >>
    <3>1. 1 \in DOMAIN Spelled("n") /\ 1 \notin DOMAIN << >>
      BY <2>2
    <3> QED
      BY <3>1
  <2> QED
    BY <2>1, <2>3
<1> HIDE DEF list
<1>8. k # 0 => k \in places
  <2>1. places \subseteq Nat
    BY <1>2
  <2>2. places # {} \/ k = 0
    BY DEF FirstOf
  <2> HIDE DEF places
  <2> QED
    BY <2>1, <2>2, FirstIsLeast
<1>9. k # 0 /\ e = Spelled(list[k])
  <2> HIDE DEF e, k
  <2>1. e # << >>
    <3>1. Len(Spelled("nn")) >= 1
      BY <1>7 DEF EndsIn
    <3>2. Spelled("nn") # << >>
      BY <3>1
    <3> QED
      BY <1>3, <3>2
  <2> QED
    BY <1>4, <2>1
<1>10. k \in DOMAIN list /\ Fits(region, list[k], s)
  BY <1>8, <1>9
<1> DEFINE x == list[k]
<1>11. Len(x) \in Nat \ {0} /\ EndsIn(region, x)
  BY <1>2, <1>10 DEF Fits
<1> HIDE DEF region, places, k, e
<1>12. ASSUME NEW y, Len(y) \in Nat, EndsIn(region, y)
       PROVE  Len(Spelled(y)) = Len(y)
  <2>1. Len(region) >= Len(y) /\ From(region, Len(region) - Len(y) + 1) = Spelled(y)
    BY <1>12 DEF EndsIn
  <2> QED
    BY <1>1, <1>12, <2>1, FromIs
<1>13. CASE s # "last" \/ Spelled(x) # Spelled("nn")
  <2>1. x \in EndingsCut(s)
    <3>1. CASE s # "last"
      BY <1>5, <1>10, <3>1
    <3>2. CASE s = "last"
      <4>1. x \in {"nn", "q"}
        BY <1>6, <1>10, <3>2
      <4>2. x = "q"
        BY <1>13, <3>2, <4>1
      <4> QED
        BY <1>5, <3>2, <4>2
    <3> QED
      BY <3>1, <3>2
  <2> QED
    BY <1>3, <1>9, <1>10, <1>11, <1>12, <1>13, <2>1 DEF region
<1>14. CASE s = "last" /\ Spelled(x) = Spelled("nn")
  <2>2. EndsIn(region, "n")
    <3> DEFINE j == Len(region) - Len(x) + 1
    <3>1. Len(region) >= Len(x) /\ From(region, j) = Spelled("nn")
      BY <1>11, <1>14 DEF EndsIn
    <3> HIDE DEF x
    <3>2. j \in 1 .. Len(region) + 1
      BY <1>1, <1>11, <3>1
    <3> HIDE DEF j
    <3> QED
      BY <1>1, <1>7, <3>1, <3>2, EndsInWhole
  <2>3. Ending(s, regs) = Spelled("n")
    BY <1>3, <1>9, <1>14
  <2> QED
    BY <1>5, <1>7, <1>12, <1>14, <2>2, <2>3 DEF region
<1> QED
  BY <1>13, <1>14

LEMMA DerivationsAre ==
  /\ EndingsCut("derivational") = Derivations
  /\ \A d \in Derivations : Len(d) \in Nat \ {0}
<1>1. "derivational" \in DOMAIN Endings /\ Endings["derivational"] = Derivational
  BY DEF Endings
<1>2. DOMAIN Derivational = {1, 2} /\ Derivational[1] = "ost" /\ Derivational[2] = "ostq"
  BY DEF Derivational
<1>3. \A n \in {1, 2} : Len(Derivational[n]) \in Nat \ {0}
  BY <1>1, <1>2, EndingsAssumption
<1> QED
  BY <1>1, <1>2, <1>3 DEF Derivations, EndingsCut

\* In a region that ends in ost or ostq, step 1 and step 2 find no ending but a noun's q.
LEMMA NoOtherEnding ==
  ASSUME NEW w \in Letters, NEW d \in Derivations, EndsIn(w, d),
         NEW s \in InStep1 \cup {"i"}, NEW e \in EndingsCut(s), Fits(w, e, s)
  PROVE  s = "noun" /\ e = "q"
<1>0. PICK n \in DOMAIN Endings[s] : e = Endings[s][n]
  BY DEF EndingsCut, InStep1
<1>1. s \in DOMAIN Endings /\ Len(e) \in Nat \ {0}
  BY <1>0, EndingsAssumption DEF InStep1, Endings
<1>2. Len(d) \in Nat \ {0}
  BY DerivationsAre
<1>3. \/ s = "noun" /\ e = "q"
      \/ ~Fits(Spelled(d), e, s) /\ ~EndsIn(Spelled(e), d)
  BY <1>0, EndingsAssumption DEF InStep1, Derivations
<1>4. EndsIn(w, e) /\ (e \in OnlyAfterA(s) => IsAfterA(Drop(w, Len(e))))
  BY DEF Fits
<1>5. CASE Len(d) <= Len(e)
  BY <1>1, <1>2, <1>3, <1>4, <1>5, EndsAgree
<1>6. CASE Len(e) < Len(d)
  <2> DEFINE f == From(w, Len(w) - Len(d) + 1)
  <2>1. f = Spelled(d) /\ Len(w) \in Nat /\ Len(w) >= Len(d)
    BY DEF EndsIn, Letters
  <2>2. /\ f \in Letters /\ Len(f) = Len(d)
        /\ \A k \in 1 .. Len(d) : f[k] = w[Len(w) - Len(d) + k]
    <3>1. Len(w) - Len(d) + 1 \in 1 .. Len(w) + 1 /\ Len(w) - (Len(w) - Len(d) + 1) + 1 = Len(d)
      BY <1>2, <2>1
    <3>2. \A k \in 1 .. Len(d) : Len(w) - Len(d) + 1 + k - 1 = Len(w) - Len(d) + k
      BY <1>2, <2>1
    <3> QED
      BY <3>1, <3>2, FromIs
  <2>3. EndsIn(f, e)
    BY <1>1, <1>2, <1>4, <1>6, <2>1, EndsAgree
  <2> HIDE DEF f
  <2>4. /\ Len(Drop(f, Len(e))) = Len(d) - Len(e)
        /\ Drop(f, Len(e))[Len(d) - Len(e)] = f[Len(d) - Len(e)]
    BY <1>1, <1>2, <1>6, <2>2, DropIs
  <2>5. /\ Len(Drop(w, Len(e))) = Len(w) - Len(e)
        /\ Drop(w, Len(e))[Len(w) - Len(e)] = w[Len(w) - Len(e)]
    BY <1>1, <1>2, <1>6, <2>1, DropIs
  <2>6. f[Len(d) - Len(e)] = w[Len(w) - Len(e)]
    <3>1. Len(d) - Len(e) \in 1 .. Len(d) /\ Len(w) - Len(d) + (Len(d) - Len(e)) = Len(w) - Len(e)
      BY <1>1, <1>2, <1>6, <2>1
    <3> QED
      BY <2>2, <3>1
  <2>7. ASSUME IsAfterA(Drop(w, Len(e))) PROVE IsAfterA(Drop(f, Len(e)))
    <3>1. Len(Drop(f, Len(e))) > 0
      BY <1>1, <1>2, <1>6, <2>4
    <3>2. Drop(f, Len(e)) # << >>
      BY <3>1
    <3> QED
      BY <2>4, <2>5, <2>6, <2>7, <3>2 DEF IsAfterA
  <2>8. Fits(f, e, s)
    BY <1>4, <2>3, <2>7 DEF Fits
  <2> QED
    BY <1>3, <2>1, <2>8
<1> QED
  BY <1>1, <1>2, <1>5, <1>6

-----------------------------------------------------------------------------
\* The actions of the Russian stemmer.

LEMMA WholeIs ==
  ASSUME NEW w \in Letters
  PROVE  /\ ReplaceLetter(w) \in Letters /\ Len(ReplaceLetter(w)) = Len(w)
         /\ ToLower(w) \in Letters /\ Len(ToLower(w)) = Len(w)
<1>1. Len(w) \in Nat /\ \A k \in 1 .. Len(w) : w[k] \in STRING
  BY DEF Letters
<1>2. "e" \in STRING /\ "y" \in STRING
  BY SuffixesAssumption DEF Alphabet
<1>3. ReplaceLetter(w) \in [1 .. Len(w) -> STRING] /\ ToLower(w) \in [1 .. Len(w) -> STRING]
  BY <1>1, <1>2 DEF ReplaceLetter, ToLower
<1> QED
  BY <1>1, <1>3, SeqDef DEF Letters

\* What process starts with.
LEMMA RegionsKeeps ==
  ASSUME IInv, Regions
  PROVE  IInv'
<1> DEFINE new == SetRegions(Whole, NoRegions)
<1>1. /\ step = "regions" /\ step' = "gerund" /\ threw' = threw
      /\ word' = word /\ language' = language
      /\ token' = Whole /\ regions' = new /\ local' = new /\ Whole' = Whole
  BY DEF Regions, input, Whole
<1>2. /\ word \in Letters /\ ~threw /\ language = "ru" /\ token = word
      /\ Len(token) \in 1 .. Len(word)
  BY <1>1 DEF IInv, Shape, EnglishSteps, Suffixing, Begun, StemsAreWords
<1>3. Whole \in Letters /\ Len(Whole) = Len(word)
  BY <1>2, WholeIs DEF Whole
<1>4. NoRegions \in RegionSets /\ NoRegions.rv = << >>
  BY EmptySeq DEF NoRegions, RegionSets, Letters
<1>5. new \in RegionSets /\ new.rv = Rv(Whole)
  BY <1>3, <1>4, RegionsSet DEF Rv
<1> HIDE DEF new
<1>6. Shape'
  BY <1>1, <1>2, <1>3, <1>5 DEF IInv, Shape, InStep1
<1>7. StemsAreWords'
  BY <1>1, <1>2, <1>3 DEF StemsAreWords
<1>8. (Marked /\ Begun /\ SameVowel)'
  BY <1>1 DEF Marked, Begun, SameVowel
<1>9. (RvFresh /\ R2Behind)'
  BY <1>1, <1>5 DEF RvFresh, R2Behind, AfterStep1
<1>10. WholeRegions'
  BY <1>1 DEF WholeRegions, new
<1> QED
  BY <1>6, <1>7, <1>8, <1>9, <1>10 DEF IInv

\* What a step cuts off is at the end of what comes after the first vowel.
LEMMA CutIs ==
  ASSUME IInv, Cut
  PROVE  LET own == IF step \in InStep1 THEN local ELSE regions
             e   == Ending(step, own)
         IN  /\ language = "ru" /\ step \in InStep1 \cup AfterStep1 /\ ~threw
             /\ word \in Letters /\ token \in Letters
             /\ own \in RegionSets /\ own.rv = Rv(token)
             /\ token' \in Letters /\ Len(token') \in 1 .. Len(token)
             /\ token' = Drop(token, Len(e)) /\ FirstVowel(token') = FirstVowel(token)
             /\ e = << >> => token' = token
             /\ e # << >> =>
                  \E x \in EndingsCut(step) :
                    /\ Len(x) \in Nat \ {0} /\ token' = Drop(token, Len(x))
                    /\ token = token' \o Spelled(x)
                    /\ step \in InStep1 \cup {"i"} => Fits(Rv(token), x, step)
<1> DEFINE own == IF step \in InStep1 THEN local ELSE regions
           e   == Ending(step, own)
<1>1. /\ step \in DOMAIN AfterFound /\ token' = Drop(token, Len(e))
  BY DEF Cut
<1>2. /\ language = "ru" /\ step \in InStep1 \cup AfterStep1 /\ ~threw
      /\ word \in Letters /\ token \in Letters /\ own \in RegionSets
      /\ Len(token) \in Nat \ {0}
  <2>1. step \in InStep1 \cup AfterStep1
    BY <1>1 DEF AfterFound, InStep1, AfterStep1
  <2> QED
    BY <2>1 DEF IInv, Shape, EnglishSteps, Suffixing, InStep1, AfterStep1, StemsAreWords, Letters
<1>3. own.rv = Rv(token)
  BY <1>2 DEF IInv, RvFresh
<1> HIDE DEF own
<1>4. CASE e = << >>
  <2>1. Len(e) = 0
    BY <1>4
  <2> HIDE DEF e
  <2>2. /\ token' \in Letters /\ Len(token') = Len(token)
        /\ \A k \in 1 .. Len(token) : token'[k] = token[k]
    BY <1>1, <1>2, <2>1, DropIs
  <2>3. token' = token
    BY <1>2, <2>2, SeqEqual DEF Letters
  <2> QED
    BY <1>1, <1>2, <1>3, <1>4, <2>3 DEF own, e
<1>5. CASE e # << >>
  <2> DEFINE region == IF step = "derivational" THEN own.r2 ELSE own.rv
  <2>1. step \in DOMAIN Endings
    BY <1>2 DEF Endings, InStep1, AfterStep1
  <2>2. PICK x \in EndingsCut(step) :
          /\ e = Spelled(x) /\ Len(x) \in Nat \ {0} /\ Len(Spelled(x)) = Len(x)
          /\ EndsIn(region, x) /\ (step # "last" => Fits(region, x, step))
    BY <1>2, <1>5, <2>1, EndingFound
  <2> HIDE DEF e
  <2>3. EndsIn(Rv(token), x)
    <3>1. CASE step = "derivational"
      <4>1. own = regions /\ x \in Derivations
        BY <2>2, <3>1, DerivationsAre DEF own, InStep1
      <4> QED
        BY <2>2, <3>1, <4>1 DEF IInv, R2Behind
    <3>2. CASE step # "derivational"
      BY <1>3, <2>2, <3>2
    <3> QED
      BY <3>1, <3>2
  <2>4. /\ EndsIn(token, x)
        /\ token' \in Letters /\ Len(token') \in 1 .. Len(token)
        /\ FirstVowel(token') = FirstVowel(token)
    BY <1>1, <1>2, <2>2, <2>3, RvCut
  <2>5. token = token' \o Spelled(x) /\ token' = Drop(token, Len(x))
    BY <1>1, <1>2, <2>2, <2>4, CutAndJoin
  <2>6. step \in InStep1 \cup {"i"} => Fits(Rv(token), x, step)
    BY <1>3, <2>2 DEF InStep1
  <2> QED
    BY <1>1, <1>2, <1>3, <1>5, <2>2, <2>4, <2>5, <2>6 DEF own, e
<1> QED
  BY <1>4, <1>5

\* The order of the steps.
LEMMA StepAfter ==
  ASSUME NEW s \in InStep1 \cup AfterStep1,
         NEW next, next = AfterFound[s] \/ next = AfterNone[s]
  PROVE  /\ s \in InStep1 => next \in InStep1 \cup {"i"}
         /\ s = "noun" => next = "i"
         /\ s \in AfterStep1 => next \in (AfterStep1 \cup {"done"}) \ {"i"}
         /\ next = "derivational" => s = "i"
<1>1. /\ DOMAIN AfterFound = InStep1 \cup AfterStep1
      /\ AfterFound["gerund"] = "i" /\ AfterFound["reflexive"] = "adjective"
      /\ AfterFound["adjective"] = "participle" /\ AfterFound["participle"] = "i"
      /\ AfterFound["verb"] = "i" /\ AfterFound["noun"] = "i"
      /\ AfterFound["i"] = "derivational" /\ AfterFound["derivational"] = "superlative"
      /\ AfterFound["superlative"] = "last" /\ AfterFound["last"] = "done"
  BY DEF AfterFound, InStep1, AfterStep1
<1> HIDE DEF AfterFound
<1>2. AfterNone = [x \in InStep1 \cup AfterStep1 |->
                     CASE x = "gerund" -> "reflexive" [] x = "adjective" -> "verb"
                       [] x = "verb" -> "noun" [] OTHER -> AfterFound[x]]
  BY <1>1 DEF AfterNone
<1>3. AfterNone[s] = CASE s = "gerund" -> "reflexive" [] s = "adjective" -> "verb"
                       [] s = "verb" -> "noun" [] OTHER -> AfterFound[s]
  BY <1>2
<1> QED
  BY <1>1, <1>3 DEF InStep1, AfterStep1

\* The second region of the whole word, where it ends in ost or ostq.
LEMMA WholeDerived ==
  ASSUME NEW w \in Letters, NEW d \in Derivations, EndsIn(SetRegions(w, NoRegions).r2, d)
  PROVE  /\ Pairs(w) # {} /\ Pairs(SetRegions(w, NoRegions).r1) # {}
         /\ EndsIn(Rv(w), d)
<1> DEFINE new == SetRegions(w, NoRegions)
<1>1. /\ NoRegions \in RegionSets /\ NoRegions.r1 = << >> /\ NoRegions.r2 = << >>
      /\ << >> \in Letters /\ Len(<< >>) = 0
  BY EmptySeq DEF NoRegions, RegionSets, Letters
<1>2. /\ new.r1 = AfterPair(w, << >>) /\ new.r2 = AfterPair(new.r1, << >>)
      /\ Pairs(new.r1) = {} => new.r2 = << >>
      /\ Pairs(w) = {} /\ AfterPair(<< >>, << >>) = << >> => new.r2 = << >>
  BY <1>1, RegionsSet
<1> HIDE DEF new
<1>3. Pairs(<< >>) = {}
  BY <1>1, VowelsAre DEF Pairs
<1>4. AfterPair(<< >>, << >>) = << >>
  BY <1>1, <1>3, PairIs
<1>5. new.r2 # << >> /\ Len(d) \in Nat \ {0}
  <2>1. Len(d) \in Nat \ {0} /\ Len(new.r2) >= Len(d)
    BY DerivationsAre DEF EndsIn, new
  <2> QED
    BY <1>1, <2>1
<1>6. Pairs(w) # {} /\ Pairs(new.r1) # {}
  BY <1>2, <1>4, <1>5
<1> QED
  BY <1>1, <1>2, <1>5, <1>6, R2Behind2 DEF new

\* On the way out of step 1: the regions of process were those of the whole word.
LEMMA LeavesStep1 ==
  ASSUME IInv, Cut, step \in InStep1,
         NEW new, new = SetRegions(token', regions),
         NEW d \in Derivations, EndsIn(new.r2, d)
  PROVE  EndsIn(Rv(token'), d)
<1> DEFINE whole == SetRegions(Whole, NoRegions)
<1>1. regions = whole /\ regions \in RegionSets
  BY DEF IInv, Shape, WholeRegions
<1>2. Whole \in Letters /\ token' \in Letters
  BY CutIs, WholeIs DEF Whole
<1>3. /\ new.r1 = AfterPair(token', regions.r1)
      /\ new.r2 = AfterPair(new.r1, regions.r2)
      /\ Pairs(new.r1) = {} => new.r2 = regions.r2
      /\ Pairs(token') = {} /\ AfterPair(regions.r1, regions.r2) = regions.r2 => new.r2 = regions.r2
  BY <1>1, <1>2, RegionsSet
<1>4. regions.r1 \in Letters /\ regions.r2 \in Letters /\ Len(d) \in Nat \ {0}
  BY <1>1, DerivationsAre DEF RegionSets
<1>5. CASE Pairs(token') # {} /\ Pairs(new.r1) # {}
  BY <1>2, <1>3, <1>4, <1>5, R2Behind2
<1>6. CASE Pairs(token') = {} \/ Pairs(new.r1) = {}
  <2>1. /\ NoRegions \in RegionSets /\ NoRegions.r1 = << >> /\ NoRegions.r2 = << >>
        /\ << >> \in Letters
    BY EmptySeq DEF NoRegions, RegionSets, Letters
  <2>2. /\ regions.r1 = AfterPair(Whole, << >>) /\ regions.r2 = AfterPair(regions.r1, << >>)
        /\ AfterPair(regions.r1, regions.r2) = regions.r2
    BY <1>1, <1>2, <2>1, RegionsSet
  <2> HIDE DEF whole
  <2>3. new.r2 = regions.r2 /\ EndsIn(regions.r2, d)
    BY <1>3, <1>6, <2>2
  <2>4. token = Whole
    BY <2>3 DEF IInv, WholeRegions
  <2>5. Pairs(Whole) # {} /\ Pairs(regions.r1) # {} /\ EndsIn(Rv(Whole), d)
    BY <1>1, <1>2, <2>3, WholeDerived DEF whole
  <2>6. CASE token' = token
    BY <2>4, <2>5, <2>6
  <2>7. CASE token' # token
    <3>1. PICK x \in EndingsCut(step) : Fits(Rv(token), x, step) /\ token' = Drop(token, Len(x))
      BY <2>7, CutIs
    <3>2. Rv(token) \in Letters
      BY CutIs DEF RegionSets
    <3>3. x = "q" /\ Len(x) = 1
      BY <2>4, <2>5, <3>1, <3>2, NoOtherEnding, EndingsAssumption
    <3>4. 1 <= Len(regions.r2) /\ Len(regions.r2) \in Nat
      BY <1>4, <2>3 DEF EndsIn, Letters
    <3>5. 1 <= Len(regions.r1)
      <4>1. PICK k : k \in RuVowelsOf(regions.r1)
        BY <2>5 DEF Pairs
      <4> QED
        BY <1>4, <4>1, VowelsAre
    <3>6. /\ Pairs(token') # {}
          /\ AfterPair(token', regions.r1) = Drop(regions.r1, 1)
      <4>1. token' = Drop(Whole, 1) /\ 1 <= Len(AfterPair(Whole, << >>))
        BY <2>2, <2>4, <3>1, <3>3, <3>5
      <4>2. /\ Pairs(Drop(Whole, 1)) # {}
            /\ AfterPair(Drop(Whole, 1), regions.r1) = Drop(AfterPair(Whole, << >>), 1)
        BY <1>2, <1>4, <2>1, <2>5, <4>1, PairKept
      <4> QED
        BY <2>2, <4>1, <4>2
    <3>7. Pairs(Drop(regions.r1, 1)) # {}
      BY <1>4, <2>1, <2>2, <2>5, <3>4, PairKept
    <3> QED
      BY <1>3, <1>6, <3>6, <3>7
  <2> QED
    BY <2>6, <2>7
<1> QED
  BY <1>5, <1>6

\* As long as step 1 goes on: of a whole word in ost or ostq it cuts nothing yet.
LEMMA StaysInStep1 ==
  ASSUME IInv, Cut, step \in InStep1, step' \in InStep1
  PROVE  WholeRegions'
<1>1. /\ word' = word /\ Whole' = Whole /\ regions' = regions
      /\ step' = AfterFound[step] \/ step' = AfterNone[step]
  <2>1. step' # "i"
    BY DEF InStep1
  <2> QED
    BY <2>1 DEF Cut, input, Whole
<1>2. step # "noun"
  BY <1>1, StepAfter DEF InStep1
<1>3. ASSUME NEW d \in Derivations, EndsIn(regions.r2, d), token' # token
      PROVE  token # Whole
  <2>1. SUFFICES ASSUME token = Whole PROVE FALSE
    OBVIOUS
  <2>2. regions = SetRegions(Whole, NoRegions) /\ Whole \in Letters
    BY CutIs, WholeIs DEF IInv, WholeRegions, Whole
  <2>3. EndsIn(Rv(Whole), d)
    BY <1>3, <2>2, WholeDerived
  <2>4. PICK x \in EndingsCut(step) : Fits(Rv(token), x, step)
    BY <1>3, CutIs
  <2>5. Rv(token) \in Letters
    BY CutIs DEF RegionSets
  <2> QED
    BY <1>2, <2>1, <2>3, <2>4, <2>5, NoOtherEnding
<1> QED
  BY <1>1, <1>3 DEF IInv, WholeRegions

LEMMA CutKeeps ==
  ASSUME IInv, Cut
  PROVE  IInv'
<1> DEFINE own  == IF step \in InStep1 THEN local ELSE regions
           e    == Ending(step, own)
           next == IF e = << >> THEN AfterNone[step] ELSE AfterFound[step]
<1>1. /\ language = "ru" /\ step \in InStep1 \cup AfterStep1 /\ ~threw
      /\ word \in Letters /\ token \in Letters
      /\ own \in RegionSets /\ own.rv = Rv(token)
      /\ token' \in Letters /\ Len(token') \in 1 .. Len(token)
      /\ FirstVowel(token') = FirstVowel(token)
      /\ e = << >> => token' = token
  BY CutIs
<1>2. /\ step' = next /\ word' = word /\ language' = language /\ threw' = threw
      /\ Whole' = Whole
  BY DEF Cut, input, Whole
<1>3. /\ local' = IF step \in InStep1 /\ e # << >> THEN SetRegions(token', local) ELSE local
      /\ regions' = IF next = "i" \/ (step \notin InStep1 /\ e # << >>)
                    THEN SetRegions(token', regions) ELSE regions
  BY DEF Cut
<1>4. regions \in RegionSets /\ local \in RegionSets /\ Len(token) \in 1 .. Len(word)
  BY DEF IInv, Shape, StemsAreWords
<1> HIDE DEF own, e
<1>5. /\ step \in InStep1 => next \in InStep1 \cup {"i"}
      /\ step \in AfterStep1 => next \in (AfterStep1 \cup {"done"}) \ {"i"}
      /\ next = "derivational" => step = "i"
  BY <1>1, StepAfter
<1> HIDE DEF next
<1>6. regions' \in RegionSets /\ local' \in RegionSets
  BY <1>1, <1>3, <1>4, RegionsSet
<1>7. Shape'
  <2>1. step' \in {"regions", "done"} \cup InStep1 \cup AfterStep1
    BY <1>1, <1>2, <1>5 DEF AfterStep1
  <2> QED
    BY <1>1, <1>2, <1>6, <2>1 DEF IInv, Shape
<1>8. StemsAreWords'
  <2>1. Len(token') \in 1 .. Len(word)
    BY <1>1, <1>4 DEF Letters
  <2> QED
    BY <1>1, <1>2, <2>1 DEF StemsAreWords
<1>9. (Marked /\ Begun)'
  BY <1>1, <1>2, <1>5 DEF Marked, Begun, InStep1, AfterStep1
<1>10. SameVowel' /\ FirstVowel(token') = FirstVowel(Whole)
  BY <1>1, <1>2 DEF IInv, SameVowel
<1>11. RvFresh'
  <2>1. Whole \in Letters
    BY <1>1, WholeIs DEF Whole
  <2>2. AfterVowel(token', Rv(token)) = Rv(token') /\ AfterVowel(token', Rv(Whole)) = Rv(token')
    BY <1>1, <1>10, <2>1, RvSet
  <2>3. ASSUME step' \in InStep1 PROVE local'.rv = Rv(token')
    <3>1. step \in InStep1 /\ local.rv = Rv(token)
      BY <1>1, <1>2, <1>5, <2>3 DEF InStep1, AfterStep1, own
    <3> QED
      BY <1>1, <1>3, <1>4, <2>2, <3>1, RegionsSet
  <2>4. ASSUME step' \in AfterStep1 PROVE regions'.rv = Rv(token')
    <3>1. CASE step \in InStep1
      <4>1. next = "i"
        BY <1>2, <1>5, <2>4, <3>1 DEF InStep1, AfterStep1
      <4>2. regions.rv = Rv(Whole)
        <5>1. NoRegions \in RegionSets /\ NoRegions.rv = << >>
          BY EmptySeq DEF NoRegions, RegionSets, Letters
        <5> QED
          BY <2>1, <3>1, <5>1, RegionsSet DEF IInv, WholeRegions, Rv
      <4> QED
        BY <1>1, <1>3, <1>4, <2>2, <4>1, <4>2, RegionsSet
    <3>2. CASE step \notin InStep1
      <4>1. regions.rv = Rv(token)
        BY <1>1, <3>2 DEF own
      <4>2. next # "i"
        BY <1>1, <1>5, <3>2
      <4> QED
        BY <1>1, <1>3, <1>4, <2>2, <3>2, <4>1, <4>2, RegionsSet
    <3> QED
      BY <3>1, <3>2
  <2> QED
    BY <2>3, <2>4 DEF RvFresh
<1>12. WholeRegions'
  <2>1. CASE step' \in InStep1
    <3>1. step \in InStep1
      BY <1>1, <1>2, <1>5, <2>1 DEF InStep1, AfterStep1
    <3> QED
      BY <2>1, <3>1, StaysInStep1
  <2>2. CASE step' \notin InStep1
    BY <2>2 DEF WholeRegions
  <2> QED
    BY <2>1, <2>2
<1>13. R2Behind'
  <2>1. ASSUME step' \in {"i", "derivational"}
        PROVE  /\ AfterPair(regions'.r1, regions'.r2) = regions'.r2
               /\ \A d \in Derivations : EndsIn(regions'.r2, d) => EndsIn(Rv(token'), d)
    <3>1. CASE step \in InStep1
      <4>1. regions' = SetRegions(token', regions)
        BY <1>2, <1>3, <1>5, <2>1, <3>1 DEF InStep1
      <4> QED
        BY <1>1, <1>4, <3>1, <4>1, RegionsSet, LeavesStep1
    <3>2. CASE step \notin InStep1
      <4>1. /\ step = "i" /\ next = "derivational"
            /\ AfterPair(regions.r1, regions.r2) = regions.r2
            /\ \A d \in Derivations : EndsIn(regions.r2, d) => EndsIn(Rv(token), d)
        BY <1>1, <1>2, <1>5, <2>1, <3>2 DEF IInv, R2Behind
      <4>2. CASE e = << >>
        BY <1>1, <1>3, <4>1, <4>2
      <4>3. CASE e # << >>
        <5>1. regions' = SetRegions(token', regions)
          BY <1>3, <3>2, <4>3
        <5>2. AfterPair(regions'.r1, regions'.r2) = regions'.r2
          BY <1>1, <1>4, <5>1, RegionsSet
        <5>3. ASSUME NEW d \in Derivations, EndsIn(regions'.r2, d)
              PROVE  EndsIn(Rv(token'), d)
          <6>1. /\ regions'.r1 = AfterPair(token', regions.r1)
                /\ regions'.r2 = AfterPair(regions'.r1, regions.r2)
                /\ Pairs(regions'.r1) = {} => regions'.r2 = regions.r2
                /\ Pairs(token') = {} => regions'.r2 = regions.r2
            BY <1>1, <1>4, <4>1, <5>1, RegionsSet
          <6>2. CASE Pairs(token') # {} /\ Pairs(regions'.r1) # {}
            <7>1. regions.r1 \in Letters /\ regions.r2 \in Letters /\ Len(d) \in Nat
              BY <1>4, DerivationsAre DEF RegionSets
            <7> QED
              BY <1>1, <5>3, <6>1, <6>2, <7>1, R2Behind2
          <6>3. CASE Pairs(token') = {} \/ Pairs(regions'.r1) = {}
            <7>1. EndsIn(Rv(token), d) /\ Rv(token) \in Letters
              BY <1>1, <4>1, <5>3, <6>1, <6>3 DEF RegionSets
            <7>2. PICK x \in EndingsCut(step) : Fits(Rv(token), x, step)
              BY <4>1, <4>3, CutIs DEF e, own
            <7> QED
              BY <4>1, <7>1, <7>2, NoOtherEnding
          <6> QED
            BY <6>2, <6>3
        <5> QED
          BY <5>2, <5>3
      <4> QED
        BY <4>2, <4>3
    <3> QED
      BY <3>1, <3>2
  <2> QED
    BY <2>1 DEF R2Behind
<1> QED
  BY <1>7, <1>8, <1>9, <1>10, <1>11, <1>12, <1>13 DEF IInv

-----------------------------------------------------------------------------
\* Lemmas about the steps of the English stemmer.

LEMMA RegionAfterIs ==
  ASSUME NEW w \in Letters, NEW from \in Nat
  PROVE  RegionAfter(w, from) = NoRegion \/ RegionAfter(w, from) \in from + 1 .. Len(w) - 1
<1> DEFINE found == {k \in from + 1 .. Len(w) : ~IsVowel(w, k) /\ IsVowel(w, k - 1)}
<1>1. Len(w) \in Nat /\ found \subseteq from + 1 .. Len(w)
  BY DEF Letters
<1>2. RegionAfter(w, from) =
        IF FirstOf(found) \in 1 .. Len(w) - 1 THEN FirstOf(found) ELSE NoRegion
  BY DEF RegionAfter
<1> HIDE DEF found
<1>3. CASE found = {}
  BY <1>2, <1>3 DEF FirstOf
<1>4. CASE found # {}
  <2>1. found \subseteq Nat
    BY <1>1
  <2>2. FirstOf(found) \in found
    BY <1>4, <2>1, FirstIsLeast
  <2> QED
    BY <1>1, <1>2, <2>2
<1> QED
  BY <1>3, <1>4

LEMMA R1R2 ==
  ASSUME NEW w \in Letters
  PROVE  /\ R1(w) = NoRegion \/ R1(w) \in 2 .. Len(w) - 1
         /\ R2(w) = NoRegion \/ (R1(w) # NoRegion /\ R2(w) \in R1(w) + 1 .. Len(w) - 1)
<1>1. Len(w) \in Nat /\ NoRegion \in Int /\ NoRegion < 0
  BY DEF Letters, NoRegion
<1>2. RegionAfter(w, 1) = NoRegion \/ RegionAfter(w, 1) \in 2 .. Len(w) - 1
  BY <1>1, RegionAfterIs
<1>3. \A n \in {5, 6} : Past(w, n) = NoRegion \/ Past(w, n) \in 2 .. Len(w) - 1
  BY <1>1 DEF Past
<1>4. R1(w) = NoRegion \/ R1(w) \in 2 .. Len(w) - 1
  BY <1>2, <1>3 DEF R1
<1>5. R1(w) # NoRegion => R1(w) \in Nat
  BY <1>1, <1>4
<1> QED
  BY <1>4, <1>5, RegionAfterIs DEF R2

LEMMA FirstSuffixIs ==
  ASSUME NEW w \in Letters, NEW list, NEW S, list \in Seq(S)
  PROVE  FirstSuffix(w, list) # 0 =>
           /\ FirstSuffix(w, list) \in DOMAIN list
           /\ EndsIn(w, list[FirstSuffix(w, list)])
<1> DEFINE places == {k \in DOMAIN list : EndsIn(w, list[k])}
<1>1. FirstSuffix(w, list) = FirstOf(places) /\ places \subseteq Nat
  BY DEF FirstSuffix
<1>2. places # {} \/ FirstOf(places) = 0
  BY DEF FirstOf
<1> HIDE DEF places
<1>3. FirstSuffix(w, list) # 0 => FirstSuffix(w, list) \in places
  BY <1>1, <1>2, FirstIsLeast
<1> QED
  BY <1>3 DEF places

LEMMA SpelledIs ==
  ASSUME NEW s, Len(s) \in Nat, Spelled(s) \in Letters
  PROVE  Len(Spelled(s)) = Len(s)
<1>1. DOMAIN Spelled(s) = 1 .. Len(s)
  BY DEF Spelled
<1>2. DOMAIN Spelled(s) = 1 .. Len(Spelled(s)) /\ Len(Spelled(s)) \in Nat
  BY LenProperties DEF Letters
<1> QED
  BY <1>1, <1>2

\* A word that is another one, or that one from its region on replaced by nothing longer.
Kept(v, w) ==
  /\ v \in Letters
  /\ \/ v = w
     \/ /\ R1(w) # NoRegion
        /\ Len(v) \in R1(w) .. Len(w) /\ SubSeq(v, 1, R1(w)) = SubSeq(w, 1, R1(w))

LEMMA JoinKeeps ==
  ASSUME NEW w \in Letters, NEW n \in 0 .. Len(w), Reaches(Len(w) - n, R1(w)),
         NEW e \in Letters, Len(e) <= n
  PROVE  Kept(Drop(w, n) \o e, w)
<1> DEFINE d == Drop(w, n)
           v == d \o e
           r == R1(w)
<1>1. Len(w) \in Nat /\ Len(e) \in Nat /\ r \in 2 .. Len(w) - 1 /\ Len(w) - n >= r /\ r # NoRegion
  BY R1R2 DEF Reaches, Letters
<1>2. d \in Letters /\ Len(d) = Len(w) - n /\ \A k \in 1 .. Len(w) - n : d[k] = w[k]
  BY DropIs
<1> HIDE DEF d
<1>3. /\ v \in Letters /\ Len(v) = Len(w) - n + Len(e)
      /\ \A k \in 1 .. Len(w) - n : v[k] = d[k]
  <2>1. /\ v \in Seq(STRING) /\ Len(v) = Len(d) + Len(e)
        /\ \A k \in 1 .. Len(d) + Len(e) : v[k] = IF k <= Len(d) THEN d[k] ELSE e[k - Len(d)]
    BY <1>2, ConcatProperties DEF Letters
  <2>2. \A k \in 1 .. Len(w) - n : k \in 1 .. Len(d) + Len(e) /\ k <= Len(d)
    BY <1>1, <1>2
  <2> HIDE DEF v
  <2> QED
    BY <1>2, <2>1, <2>2 DEF Letters
<1> HIDE DEF v, r
<1>4. Len(v) \in r .. Len(w)
  BY <1>1, <1>3
<1>5. \A k \in 1 .. r : v[k] = w[k] /\ v[k] \in STRING /\ w[k] \in STRING
  <2>1. \A k \in 1 .. r : k \in 1 .. Len(w) - n /\ k \in 1 .. Len(v) /\ k \in 1 .. Len(w)
    BY <1>1, <1>4
  <2> QED
    BY <1>2, <1>3, <2>1 DEF Letters
<1>6. /\ SubSeq(v, 1, r) \in Seq(STRING) /\ SubSeq(w, 1, r) \in Seq(STRING)
      /\ Len(SubSeq(v, 1, r)) = r /\ Len(SubSeq(w, 1, r)) = r
      /\ \A k \in 1 .. r : SubSeq(v, 1, r)[k] = v[k] /\ SubSeq(w, 1, r)[k] = w[k]
  <2>1. r - 1 + 1 = r /\ \A k \in 1 .. r : 1 + k - 1 = k
    BY <1>1
  <2> QED
    BY <1>1, <1>5, <2>1, SubSeqProperties
<1>7. SubSeq(v, 1, r) = SubSeq(w, 1, r)
  BY <1>5, <1>6, SeqEqual
<1> QED
  BY <1>1, <1>3, <1>4, <1>7 DEF Kept, v, d, r

\* So does cutting alone.
LEMMA DropKeeps ==
  ASSUME NEW w \in Letters, NEW n \in 0 .. Len(w), Reaches(Len(w) - n, R1(w))
  PROVE  Kept(Drop(w, n), w)
<1>1. << >> \in Letters /\ Len(<< >>) = 0
  BY EmptySeq DEF Letters
<1>2. Drop(w, n) \in Letters
  BY DropIs
<1>3. Drop(w, n) \o << >> = Drop(w, n)
  BY <1>2, ConcatEmptySeq DEF Letters
<1>4. Kept(Drop(w, n) \o << >>, w)
  <2>1. Len(<< >>) <= n
    BY <1>1
  <2> QED
    BY <1>1, <2>1, JoinKeeps
<1> QED
  BY <1>3, <1>4

\* What reaches into the second region reaches into the first.
LEMMA ReachesBoth ==
  ASSUME NEW w \in Letters, NEW n \in Int, Reaches(n, R2(w))
  PROVE  Reaches(n, R1(w))
<1>1. Len(w) \in Nat
  BY DEF Letters
<1> QED
  BY <1>1, R1R2 DEF Reaches

\* Steps 2 and 3 replace a suffix by one that is not longer.
LEMMA ReplaceKeeps ==
  ASSUME NEW w \in Letters, NEW pairs \in {Suffixes2, Suffixes3},
         NEW k, k = FirstSuffix(w, SuffixesOf(pairs)), k # 0,
         Reaches(Len(Drop(w, Len(pairs[k][1]))), R1(w))
  PROVE  Kept(Drop(w, Len(pairs[k][1])) \o Spelled(pairs[k][2]), w)
<1> DEFINE list == SuffixesOf(pairs)
<1>1. /\ pairs \in Seq(STRING \X STRING)
      /\ \A n \in DOMAIN pairs :
           /\ Len(pairs[n][1]) \in Nat /\ Len(pairs[n][2]) \in 0 .. Len(pairs[n][1])
           /\ Spelled(pairs[n][2]) \in Seq(STRING)
  BY SuffixesAssumption
<1>2. list = [n \in DOMAIN pairs |-> pairs[n][1]]
  BY DEF SuffixesOf
<1>3. list \in Seq(STRING)
  <2>1. pairs \in [1 .. Len(pairs) -> STRING \X STRING] /\ Len(pairs) \in Nat
    BY <1>1, LenProperties
  <2>2. list \in [1 .. Len(pairs) -> STRING]
    BY <1>2, <2>1
  <2> QED
    BY <2>1, <2>2, SeqDef
<1> HIDE DEF list
<1>4. k \in DOMAIN list /\ EndsIn(w, list[k])
  BY <1>3, FirstSuffixIs DEF list
<1>5. k \in DOMAIN pairs /\ EndsIn(w, pairs[k][1])
  BY <1>2, <1>4
<1> DEFINE n == Len(pairs[k][1])
           e == Spelled(pairs[k][2])
<1>6. n \in Nat /\ Len(w) \in Nat /\ n <= Len(w) /\ Len(w) - n = Len(Drop(w, n))
  <2>1. n \in Nat /\ Len(w) \in Nat /\ n <= Len(w)
    BY <1>1, <1>5 DEF EndsIn, Letters
  <2> HIDE DEF n
  <2>2. n \in 0 .. Len(w)
    BY <2>1
  <2>3. Len(Drop(w, n)) = Len(w) - n
    BY <2>2, DropIs
  <2> QED
    BY <2>1, <2>3
<1>7. e \in Letters /\ Len(e) = Len(pairs[k][2]) /\ Len(pairs[k][2]) <= n
  <2>1. e \in Letters /\ Len(pairs[k][2]) \in 0 .. n
    BY <1>1, <1>5 DEF Letters
  <2> QED
    BY <1>6, <2>1, SpelledIs
<1> HIDE DEF e, n
<1>8. Reaches(Len(w) - n, R1(w))
  BY <1>6 DEF n
<1>9. Kept(Drop(w, n) \o e, w)
  BY <1>6, <1>7, <1>8, JoinKeeps
<1> QED
  BY <1>9 DEF n, e

LEMMA Steps2To5 ==
  ASSUME NEW w \in Letters
  PROVE  Kept(Step2(w), w) /\ Kept(Step3(w), w) /\ Kept(Step4(w), w) /\ Kept(Step5(w), w)
<1>1. Kept(w, w)
  BY DEF Kept
<1>2. Kept(Step2(w), w)
  <2> DEFINE k == FirstSuffix(w, SuffixesOf(Suffixes2))
  <2> HIDE DEF k
  <2>1. CASE Step2(w) = w
    BY <1>1, <2>1
  <2>2. CASE Step2(w) # w
    <3>1. /\ k # 0 /\ Reaches(Len(Drop(w, Len(Suffixes2[k][1]))), R1(w))
          /\ Step2(w) = Drop(w, Len(Suffixes2[k][1])) \o Spelled(Suffixes2[k][2])
      BY <2>2 DEF Step2, k
    <3> QED
      BY <3>1, ReplaceKeeps DEF k
  <2> QED
    BY <2>1, <2>2
<1>3. Kept(Step3(w), w)
  <2> DEFINE k == FirstSuffix(w, SuffixesOf(Suffixes3))
  <2> HIDE DEF k
  <2>1. CASE Step3(w) = w
    BY <1>1, <2>1
  <2>2. CASE Step3(w) # w
    <3>1. /\ k # 0 /\ Reaches(Len(Drop(w, Len(Suffixes3[k][1]))), R1(w))
          /\ Step3(w) = Drop(w, Len(Suffixes3[k][1])) \o Spelled(Suffixes3[k][2])
      BY <2>2 DEF Step3, k
    <3> QED
      BY <3>1, ReplaceKeeps DEF k
  <2> QED
    BY <2>1, <2>2
<1>4. Kept(Step4(w), w)
  <2> DEFINE k == FirstSuffix(w, Suffixes4)
             n == Len(Suffixes4[k])
  <2> HIDE DEF k
  <2>1. CASE Step4(w) = w
    BY <1>1, <2>1
  <2>2. CASE Step4(w) # w
    <3>1. k # 0 /\ Reaches(Len(Drop(w, n)), R2(w)) /\ Step4(w) = Drop(w, n)
      BY <2>2 DEF Step4, k
    <3>2. Suffixes4 \in Seq(STRING) /\ \A m \in DOMAIN Suffixes4 : Len(Suffixes4[m]) \in Nat
      BY SuffixesAssumption
    <3>3. n \in Nat /\ EndsIn(w, Suffixes4[k])
      BY <3>1, <3>2, FirstSuffixIs DEF k
    <3> HIDE DEF n
    <3>4. n \in 0 .. Len(w) /\ Len(w) \in Nat
      BY <3>3 DEF EndsIn, Letters, n
    <3>5. Len(Drop(w, n)) = Len(w) - n
      BY <3>4, DropIs
    <3>6. Reaches(Len(w) - n, R1(w))
      BY <3>1, <3>4, <3>5, ReachesBoth
    <3> QED
      BY <3>1, <3>4, <3>6, DropKeeps
  <2> QED
    BY <2>1, <2>2
<1>5. Kept(Step5(w), w)
  <2>1. CASE Step5(w) = w
    BY <1>1, <2>1
  <2>2. CASE Step5(w) # w
    <3>1. /\ EndsIn(w, "e") \/ EndsIn(w, "ll")
          /\ Reaches(Len(Drop(w, 1)), R2(w)) \/ Reaches(Len(Drop(w, 1)), R1(w))
          /\ Step5(w) = Drop(w, 1)
      BY <2>2 DEF Step5
    <3>2. 1 \in 0 .. Len(w) /\ Len(w) \in Nat
      <4>1. Len("e") = 1 /\ Len("ll") = 2
        BY SuffixesAssumption
      <4>2. Len(w) \in Nat
        BY DEF Letters
      <4>3. Len(w) >= 1
        <5>1. CASE EndsIn(w, "e")
          BY <4>1, <4>2, <5>1 DEF EndsIn
        <5>2. CASE EndsIn(w, "ll")
          BY <4>1, <4>2, <5>2 DEF EndsIn
        <5> QED
          BY <3>1, <5>1, <5>2
      <4> QED
        BY <4>2, <4>3
    <3>3. Len(Drop(w, 1)) = Len(w) - 1
      BY <3>2, DropIs
    <3>4. Reaches(Len(w) - 1, R1(w))
      BY <3>1, <3>2, <3>3, ReachesBoth
    <3> QED
      BY <3>1, <3>2, <3>4, DropKeeps
  <2> QED
    BY <2>1, <2>2
<1> QED
  BY <1>2, <1>3, <1>4, <1>5

\* A word whose end is replaced; its first letter stays as long as one is left.
LEMMA JoinIs ==
  ASSUME NEW w \in Letters, NEW n \in 0 .. Len(w), NEW e \in Letters
  PROVE  /\ Drop(w, n) \o e \in Letters /\ Len(Drop(w, n) \o e) = Len(w) - n + Len(e)
         /\ n < Len(w) => (Drop(w, n) \o e)[1] = w[1]
         /\ e # << >> => (Drop(w, n) \o e)[Len(w) - n + Len(e)] = e[Len(e)]
<1> DEFINE d == Drop(w, n)
<1>1. Len(w) \in Nat /\ Len(e) \in Nat /\ (e # << >> => Len(e) >= 1)
  BY EmptySeq DEF Letters
<1>2. d \in Letters /\ Len(d) = Len(w) - n /\ \A k \in 1 .. Len(w) - n : d[k] = w[k]
  BY DropIs
<1> HIDE DEF d
<1>3. /\ d \o e \in Letters /\ Len(d \o e) = Len(d) + Len(e)
      /\ \A k \in 1 .. Len(d) + Len(e) : (d \o e)[k] = IF k <= Len(d) THEN d[k] ELSE e[k - Len(d)]
  BY <1>2, ConcatProperties DEF Letters
<1>4. ASSUME n < Len(w) PROVE (d \o e)[1] = w[1]
  BY <1>1, <1>2, <1>3, <1>4
<1>5. ASSUME e # << >> PROVE (d \o e)[Len(w) - n + Len(e)] = e[Len(e)]
  <2> DEFINE j == Len(d) + Len(e)
  <2>1. j \in 1 .. Len(d) + Len(e) /\ ~(j <= Len(d)) /\ j - Len(d) = Len(e) /\ j = Len(w) - n + Len(e)
    BY <1>1, <1>2, <1>5
  <2> HIDE DEF j
  <2> QED
    BY <1>3, <2>1
<1> QED
  BY <1>2, <1>3, <1>4, <1>5 DEF d

LEMMA SpelledEndings ==
  /\ <<"e">> \in Letters /\ <<"i">> \in Letters
  /\ <<"e", "e">> \in Letters /\ <<"i", "e">> \in Letters
BY SuffixesAssumption DEF Letters, Alphabet

LEMMA Step0Is ==
  ASSUME NEW w \in Letters \ {<< >>}, w[1] \in Alphabet
  PROVE  Step0(w) \in Letters /\ Len(Step0(w)) \in 1 .. Len(w) /\ Step0(w)[1] = w[1]
<1> DEFINE k == FirstSuffix(w, Suffixes0)
           s == Suffixes0[k]
<1>1. Len(w) \in Nat \ {0} /\ w \in Letters
  BY EmptySeq DEF Letters
<1>2. Step0(w) = IF k = 0 THEN w ELSE Drop(w, Len(s))
  BY DEF Step0
<1>3. CASE k = 0
  BY <1>1, <1>2, <1>3
<1>4. CASE k # 0
  <2>1. /\ Suffixes0 \in Seq(STRING)
        /\ \A n \in DOMAIN Suffixes0 :
             Len(Suffixes0[n]) \in Nat \ {0} /\ SubSeq(Suffixes0[n], 1, 1) \notin Alphabet
    BY SuffixesAssumption
  <2>2. Len(s) \in Nat \ {0} /\ SubSeq(s, 1, 1) \notin Alphabet /\ EndsIn(w, s)
    BY <1>1, <1>4, <2>1, FirstSuffixIs
  <2> HIDE DEF k, s
  <2>3. Len(w) >= Len(s) /\ w[Len(w) - Len(s) + 1] = SubSeq(s, 1, 1)
    BY <1>1, <2>2, EndsInIs
  <2>4. Len(w) # Len(s)
    <3>1. Len(w) = Len(s) => Len(w) - Len(s) + 1 = 1
      BY <1>1
    <3> QED
      BY <2>2, <2>3, <3>1
  <2>5. Len(s) \in 0 .. Len(w) /\ Len(w) - Len(s) \in 1 .. Len(w)
    BY <1>1, <2>2, <2>3, <2>4
  <2> QED
    BY <1>1, <1>2, <1>4, <2>5, DropIs
<1> QED
  BY <1>3, <1>4

LEMMA Step1aIs ==
  ASSUME NEW w \in Letters \ {<< >>}
  PROVE  LET v == Step1a(w)
         IN  /\ v \in Letters /\ Len(v) \in 1 .. Len(w)
             /\ v[1] = w[1] \/ v[Len(v)] \in {"e", "i"}
<1>1. Len(w) \in Nat \ {0} /\ w \in Letters
  BY EmptySeq DEF Letters
<1>2. ASSUME NEW n \in Nat, n < Len(w)
      PROVE  /\ Drop(w, n) \in Letters /\ Len(Drop(w, n)) \in 1 .. Len(w)
             /\ Drop(w, n)[1] = w[1]
  <2>1. n \in 0 .. Len(w) /\ Len(w) - n \in 1 .. Len(w)
    BY <1>1, <1>2
  <2> QED
    BY <1>1, <2>1, DropIs
<1>3. CASE EndsIn(w, "sses")
  <2>1. Len(w) >= 4
    BY <1>3, SuffixesAssumption DEF EndsIn
  <2>2. Step1a(w) = Drop(w, 2)
    BY <1>3 DEF Step1a
  <2> QED
    BY <1>1, <1>2, <2>1, <2>2
<1>4. CASE ~EndsIn(w, "sses") /\ InIe(w)
  <2>1. Len(w) >= 3
    BY <1>4, SuffixesAssumption DEF EndsIn, InIe
  <2> DEFINE e == IF Len(w) > 4 THEN <<"i">> ELSE <<"i", "e">>
  <2>2. Step1a(w) = Drop(w, 3) \o e
    BY <1>4 DEF Step1a
  <2>3. /\ e \in Letters /\ e # << >> /\ Len(e) \in {1, 2} /\ e[Len(e)] \in {"e", "i"}
        /\ Len(w) > 4 \/ Len(e) = 2
    <3>1. CASE Len(w) > 4
      BY <3>1, SpelledEndings
    <3>2. CASE ~(Len(w) > 4)
      BY <3>2, SpelledEndings
    <3> QED
      BY <3>1, <3>2
  <2> HIDE DEF e
  <2>4. 3 \in 0 .. Len(w)
    BY <1>1, <2>1
  <2>5. /\ Step1a(w) \in Letters /\ Len(Step1a(w)) = Len(w) - 3 + Len(e)
        /\ Step1a(w)[Len(w) - 3 + Len(e)] = e[Len(e)]
    BY <1>1, <2>2, <2>3, <2>4, JoinIs
  <2>6. Len(w) - 3 + Len(e) \in 1 .. Len(w)
    BY <1>1, <2>1, <2>3
  <2> QED
    BY <2>3, <2>5, <2>6
<1>5. CASE ~EndsIn(w, "sses") /\ ~InIe(w)
  <2>1. Step1a(w) = w \/ (Step1a(w) = Drop(w, 1) /\ Len(w) > 2)
    BY <1>5 DEF Step1a
  <2> QED
    BY <1>1, <1>2, <2>1
<1> QED
  BY <1>3, <1>4, <1>5

LEMMA Stem1bIs ==
  ASSUME NEW w \in Letters, Stem1b(w) # w
  PROVE  /\ Stem1b(w) \in Letters /\ Len(Stem1b(w)) \in 1 .. Len(w) - 2
         /\ HasVowel(Stem1b(w)) /\ Stem1b(w)[1] = w[1]
         /\ w[Len(w)] \notin {"e", "i"}
<1> DEFINE k == FirstSuffix(w, Suffixes1)
           s == Suffixes1[k]
           v == Stem1b(w)
<1>1. k # 0 /\ v = Drop(w, Len(s)) /\ HasVowel(v)
  BY DEF Stem1b
<1>2. /\ Suffixes1 \in Seq(STRING)
      /\ \A n \in DOMAIN Suffixes1 :
           /\ Len(Suffixes1[n]) \in Nat \ {0, 1}
           /\ SubSeq(Suffixes1[n], Len(Suffixes1[n]), Len(Suffixes1[n])) \notin {"e", "i"}
  BY SuffixesAssumption
<1>3. k \in DOMAIN Suffixes1 /\ EndsIn(w, s)
  BY <1>1, <1>2, FirstSuffixIs
<1>4. Len(s) \in Nat \ {0, 1} /\ SubSeq(s, Len(s), Len(s)) \notin {"e", "i"} /\ Len(w) \in Nat
  BY <1>2, <1>3 DEF Letters
<1> HIDE DEF k, s, v
<1>5. Len(w) >= Len(s) /\ w[Len(w) - Len(s) + Len(s)] = SubSeq(s, Len(s), Len(s))
  BY <1>3, <1>4, EndsInIs
<1>6. w[Len(w)] \notin {"e", "i"}
  <2>1. Len(w) - Len(s) + Len(s) = Len(w)
    BY <1>4
  <2> QED
    BY <1>4, <1>5, <2>1
<1>7. /\ v \in Letters /\ Len(v) = Len(w) - Len(s)
      /\ \A j \in 1 .. Len(w) - Len(s) : v[j] = w[j]
  <2>1. Len(s) \in 0 .. Len(w)
    BY <1>4, <1>5
  <2> QED
    BY <1>1, <2>1, DropIs
<1>8. Len(v) \in 1 .. Len(w) - 2
  <2>1. PICK j \in 1 .. Len(v) : TRUE
    BY <1>1 DEF HasVowel
  <2> DEFINE n == Len(s)
             m == Len(w)
  <2>2. n >= 2 /\ m \in Nat /\ n \in Nat
    <3>1. n \in Nat \ {0, 1} /\ m \in Nat
      BY <1>4
    <3> HIDE DEF n, m
    <3> QED
      BY <3>1
  <2>4. Len(v) \in Int /\ Len(v) = m - n
    <3>1. Len(v) = m - n
      BY <1>7
    <3> HIDE DEF n, m
    <3> QED
      BY <2>2, <3>1
  <2>3. Len(v) >= 1
    BY <2>1, <2>2
  <2> QED
    BY <1>4, <1>7, <2>2, <2>3
<1>9. v[1] = w[1]
  BY <1>4, <1>7, <1>8
<1> QED
  BY <1>1, <1>6, <1>7, <1>8, <1>9 DEF v

LEMMA RepairedIs ==
  ASSUME NEW s \in Letters, Len(s) >= 1
  PROVE  Repaired(s) \in Letters /\ Len(Repaired(s)) \in 1 .. Len(s) + 2
<1> DEFINE added == IF EndsIn(s, "at") \/ EndsIn(s, "bl") \/ EndsIn(s, "iz") THEN s \o <<"e">> ELSE s
<1>1. Len(s) \in Nat /\ <<"e">> \in Letters /\ Len(<<"e">>) = 1
  BY SpelledEndings DEF Letters
<1>2. \A w \in Letters : w \o <<"e">> \in Letters /\ Len(w \o <<"e">>) = Len(w) + 1
  BY <1>1, ConcatProperties DEF Letters
<1>3. added \in Letters /\ Len(added) \in Len(s) .. Len(s) + 1
  BY <1>1, <1>2
<1>4. \/ Repaired(s) \in {s, added, added \o <<"e">>}
      \/ Len(s) > 2 /\ Repaired(s) = Drop(s, 1)
  BY DEF Repaired
<1> HIDE DEF added
<1>5. Drop(s, 1) \in Letters /\ Len(Drop(s, 1)) = Len(s) - 1
  <2>1. 1 \in 0 .. Len(s)
    BY <1>1
  <2> QED
    BY <2>1, DropIs
<1>6. added \o <<"e">> \in Letters /\ Len(added \o <<"e">>) = Len(added) + 1
  BY <1>2, <1>3
<1>7. CASE Repaired(s) \in {s, added, added \o <<"e">>}
  <2>1. CASE Repaired(s) = s
    BY <1>1, <2>1
  <2>2. CASE Repaired(s) = added
    BY <1>1, <1>3, <2>2
  <2>3. CASE Repaired(s) = added \o <<"e">>
    BY <1>1, <1>3, <1>6, <2>3
  <2> QED
    BY <1>7, <2>1, <2>2, <2>3
<1>8. CASE Len(s) > 2 /\ Repaired(s) = Drop(s, 1)
  BY <1>1, <1>5, <1>8
<1> QED
  BY <1>4, <1>7, <1>8

LEMMA Step1bIs ==
  ASSUME NEW w \in Letters \ {<< >>}
  PROVE  Step1b(w) \in Letters /\ Len(Step1b(w)) \in 1 .. Len(w)
<1> DEFINE n == IF EndsIn(w, "eedly") THEN 5 ELSE 3
<1>1. Len(w) \in Nat \ {0} /\ w \in Letters
  BY EmptySeq DEF Letters
<1>2. CASE Step1b(w) = w
  BY <1>1, <1>2
<1>3. CASE Step1b(w) # w /\ InEed(w)
  <2>1. Reaches(Len(w) - n, R1(w)) /\ Step1b(w) = Drop(w, n) \o <<"e", "e">>
    BY <1>3 DEF Step1b
  <2>2. R1(w) \in Nat
    BY <1>1, <2>1, R1R2 DEF Reaches
  <2>3. n \in {3, 5} /\ n \in 0 .. Len(w) /\ Len(w) - n + 2 \in 1 .. Len(w)
    <3>1. n \in {3, 5}
      OBVIOUS
    <3> HIDE DEF n
    <3> QED
      BY <1>1, <2>1, <2>2, <3>1 DEF Reaches
  <2> HIDE DEF n
  <2>4. <<"e", "e">> \in Letters /\ Len(<<"e", "e">>) = 2
    BY SpelledEndings
  <2>5. Step1b(w) \in Letters /\ Len(Step1b(w)) = Len(w) - n + 2
    BY <1>1, <2>1, <2>3, <2>4, JoinIs
  <2> QED
    BY <2>3, <2>5
<1>4. CASE Step1b(w) # w /\ ~InEed(w)
  <2>1. Stem1b(w) # w /\ Step1b(w) = Repaired(Stem1b(w))
    BY <1>4 DEF Step1b
  <2>2. Stem1b(w) \in Letters /\ Len(Stem1b(w)) \in 1 .. Len(w) - 2
    BY <1>1, <2>1, Stem1bIs
  <2>3. Step1b(w) \in Letters /\ Len(Step1b(w)) \in 1 .. Len(Stem1b(w)) + 2
    BY <2>1, <2>2, RepairedIs
  <2> QED
    BY <1>1, <2>2, <2>3
<1> QED
  BY <1>2, <1>3, <1>4

LEMMA Step1cIs ==
  ASSUME NEW w \in Letters \ {<< >>}
  PROVE  Step1c(w) \in Letters /\ Len(Step1c(w)) = Len(w)
<1>1. Len(w) \in Nat \ {0} /\ w \in Letters /\ 1 \in 0 .. Len(w)
  BY EmptySeq DEF Letters
<1>2. <<"i">> \in Letters /\ Len(<<"i">>) = 1
  BY SpelledEndings
<1>3. Drop(w, 1) \o <<"i">> \in Letters /\ Len(Drop(w, 1) \o <<"i">>) = Len(w) - 1 + 1
  BY <1>1, <1>2, JoinIs
<1> QED
  BY <1>1, <1>3 DEF Step1c

LEMMA LowerSame ==
  ASSUME NEW w \in Letters
  PROVE  /\ (\A k \in 1 .. Len(w) : w[k] # "Y") => ToLower(w) = w
         /\ ToLower(ToLower(w)) = ToLower(w)
<1>1. \A v \in Letters :
        /\ ToLower(v) \in Letters /\ Len(ToLower(v)) = Len(v) /\ Len(v) \in Nat
        /\ \A k \in 1 .. Len(v) : ToLower(v)[k] = IF v[k] = "Y" THEN "y" ELSE v[k]
  BY WholeIs DEF ToLower, Letters
<1>2. ASSUME NEW v \in Letters, \A k \in 1 .. Len(v) : v[k] # "Y"
      PROVE  ToLower(v) = v
  BY <1>1, <1>2, SeqEqual DEF Letters
<1>3. \A k \in 1 .. Len(ToLower(w)) : ToLower(w)[k] # "Y"
  BY <1>1
<1> QED
  BY <1>1, <1>2, <1>3

LEMMA MarkYIs ==
  ASSUME NEW w \in Letters
  PROVE  /\ MarkY(w) \in Letters /\ Len(MarkY(w)) = Len(w)
         /\ w # << >> => MarkY(w)[1] = IF w[1] = "y" THEN "Y" ELSE w[1]
<1>1. Len(w) \in Nat /\ (\A k \in 1 .. Len(w) : w[k] \in STRING) /\ "Y" \in STRING
  BY SuffixesAssumption DEF Letters, Alphabet
<1>2. PICK C :
        MarkY(w) = [k \in 1 .. Len(w) |->
                      IF (IF k = 1 THEN w[1] = "y" ELSE C[k]) THEN "Y" ELSE w[k]]
  BY Zenon DEF MarkY
<1>3. MarkY(w) \in [1 .. Len(w) -> STRING]
  BY <1>1, <1>2
<1>4. MarkY(w) \in Letters /\ Len(MarkY(w)) = Len(w)
  BY <1>1, <1>3, SeqDef DEF Letters
<1>5. ASSUME w # << >> PROVE MarkY(w)[1] = IF w[1] = "y" THEN "Y" ELSE w[1]
  <2>1. 1 \in 1 .. Len(w)
    BY <1>5, EmptySeq DEF Letters
  <2> QED
    BY <1>2, <2>1
<1> QED
  BY <1>4, <1>5

\* The first letter, marked: the word's own, or a y.
LEMMA FirstLetter ==
  ASSUME NEW w \in Letters \ {<< >>}, w[1] \in Alphabet
  PROVE  LET v == MarkY(ToLower(w))
         IN  /\ v \in Letters \ {<< >>} /\ Len(v) = Len(w)
             /\ v[1] \in Alphabet /\ (v[1] \in Vowels => v[1] = w[1])
<1> DEFINE lower == ToLower(w)
<1>1. w \in Letters /\ Len(w) \in Nat \ {0}
  BY EmptySeq DEF Letters
<1>2. /\ lower \in Letters /\ Len(lower) = Len(w)
      /\ lower[1] = IF w[1] = "Y" THEN "y" ELSE w[1]
  BY <1>1, WholeIs DEF ToLower
<1> HIDE DEF lower
<1>3. lower # << >>
  BY <1>1, <1>2
<1>4. /\ MarkY(lower) \in Letters /\ Len(MarkY(lower)) = Len(w)
      /\ MarkY(lower)[1] = IF lower[1] = "y" THEN "Y" ELSE lower[1]
  BY <1>2, <1>3, MarkYIs
<1>5. MarkY(lower) # << >>
  BY <1>1, <1>4
<1>6. MarkY(lower)[1] \in Alphabet
  BY <1>2, <1>4 DEF Alphabet
<1>7. MarkY(lower)[1] \in Vowels => MarkY(lower)[1] = w[1]
  BY <1>2, <1>4 DEF Vowels
<1> QED
  BY <1>4, <1>5, <1>6, <1>7 DEF lower

-----------------------------------------------------------------------------
\* The actions of the English stemmer.

LEMMA EnglishFrame ==
  ASSUME Shape, step \in EnglishSteps \ {"done"}, Turns(token', step'), step' \in EnglishSteps, token' \in Letters
  PROVE  ~threw /\ (Shape /\ Begun /\ SameVowel /\ RvFresh /\ WholeRegions /\ R2Behind)'
<1>1. /\ word' = word /\ language' = language /\ regions' = regions /\ local' = local
      /\ threw' = threw
  BY DEF Turns, input
<1>2. step' \notin InStep1 \cup AfterStep1 \cup {"regions"}
  BY DEF EnglishSteps, Suffixing, InStep1, AfterStep1
<1>0. language = "en" /\ ~threw
  BY DEF Shape, EnglishSteps, Suffixing, InStep1, AfterStep1
<1>3. Shape'
  BY <1>0, <1>1 DEF Shape
<1>4. (Begun /\ SameVowel /\ RvFresh /\ WholeRegions /\ R2Behind)'
  BY <1>2 DEF Begun, SameVowel, RvFresh, WholeRegions, R2Behind, AfterStep1
<1> QED
  BY <1>0, <1>3, <1>4

LEMMA ExceptionsKeeps ==
  ASSUME IInv, Exceptions
  PROVE  IInv'
<1> DEFINE lower == ToLower(word)
<1>1. word \in Letters \ {<< >>} /\ Len(word) \in Nat \ {0} /\ step = "exceptions" /\ ~threw
  <2>1. word \in Letters \ {<< >>} /\ step = "exceptions" /\ ~threw
    BY DEF IInv, Shape, Exceptions
  <2> QED
    BY <2>1, EmptySeq DEF Letters
<1>2. lower \in Letters /\ Len(lower) = Len(word)
  BY <1>1, WholeIs
<1>3. CASE word[1] \notin Alphabet /\ Turns(word, "done")
  <2>1. token' = word /\ step' = "done" /\ word' = word /\ threw' = threw /\ Turns(token', step')
    BY <1>3 DEF Turns, input
  <2> QED
    BY <1>1, <1>3, <2>1, EnglishFrame DEF IInv, EnglishSteps, Suffixing, StemsAreWords, Marked
<1>4. CASE /\ word[1] \in Alphabet
           /\ \E x \in DOMAIN Exceptions1 : lower = Spelled(x) /\ Turns(Spelled(Exceptions1[x]), "done")
  <2>1. PICK x \in DOMAIN Exceptions1 : lower = Spelled(x) /\ Turns(Spelled(Exceptions1[x]), "done")
    BY <1>4
  <2> DEFINE y == Exceptions1[x]
  <2>2. /\ Len(x) \in Nat /\ Len(y) \in 1 .. Len(x)
        /\ ToLower(Spelled(y)) = Spelled(y) /\ Spelled(y) \in Letters
    BY SuffixesAssumption DEF Letters
  <2> HIDE DEF y, lower
  <2>3. Len(x) = Len(word) /\ Len(Spelled(y)) = Len(y)
    BY <1>2, <2>1, <2>2, SpelledIs
  <2>4. token' = Spelled(y) /\ step' = "done" /\ word' = word /\ threw' = threw /\ Turns(token', step')
    BY <2>1 DEF Turns, input, y
  <2>5. Len(token') \in 1 .. Len(word)
    BY <2>2, <2>3, <2>4
  <2>6. StemsAreWords'
    BY <1>1, <2>2, <2>4, <2>5 DEF StemsAreWords
  <2> QED
    BY <1>1, <2>2, <2>4, <2>6, EnglishFrame DEF IInv, EnglishSteps, Suffixing, Marked
<1>5. CASE word[1] \in Alphabet /\ Turns(MarkY(lower), "suffixes")
  <2>1. /\ token' = MarkY(lower) /\ step' = "suffixes" /\ word' = word /\ threw' = threw
        /\ Turns(token', step')
    BY <1>5 DEF Turns, input
  <2>2. token' \in Letters /\ Len(token') \in 1 .. Len(word)
    BY <1>1, <1>5, <2>1, FirstLetter
  <2>3. Marked'
    BY <1>5, <2>1 DEF Marked
  <2>4. StemsAreWords'
    BY <1>1, <2>1, <2>2 DEF StemsAreWords
  <2> QED
    BY <1>1, <2>1, <2>2, <2>3, <2>4, EnglishFrame DEF IInv, EnglishSteps, Suffixing
<1> QED
  BY <1>3, <1>4, <1>5 DEF Exceptions

\* The word after steps 0 and 1a.
LEMMA Stripped ==
  ASSUME IInv, step = "suffixes"
  PROVE  LET w == Step1a(Step0(token))
         IN  /\ language = "en" /\ word[1] \in Alphabet
             /\ token \in Letters \ {<< >>} /\ Len(token) \in 1 .. Len(word) /\ Len(word) \in Nat
             /\ w \in Letters \ {<< >>} /\ Len(w) \in 1 .. Len(token)
             /\ w[Len(w)] \in {"e", "i"} \/ (w[1] \in Vowels => w[1] = word[1])
<1> DEFINE v == Step0(token)
           w == Step1a(v)
<1>1. /\ language = "en" /\ word \in Letters \ {<< >>} /\ word[1] \in Alphabet
      /\ token = MarkY(ToLower(word)) /\ Len(token) \in 1 .. Len(word) /\ Len(word) \in Nat
  <2>1. language = "en" /\ word \in Letters \ {<< >>}
    BY DEF IInv, Shape, InStep1, AfterStep1
  <2>2. word[1] \in Alphabet /\ token = MarkY(ToLower(word)) /\ Len(token) \in 1 .. Len(word)
    BY DEF IInv, Marked, StemsAreWords
  <2>3. Len(word) \in Nat
    BY <2>1 DEF Letters
  <2> QED
    BY <2>1, <2>2, <2>3
<1>2. token \in Letters \ {<< >>} /\ token[1] \in Alphabet /\ (token[1] \in Vowels => token[1] = word[1])
  BY <1>1, FirstLetter
<1>3. v \in Letters /\ Len(v) \in 1 .. Len(token) /\ v[1] = token[1]
  BY <1>2, Step0Is
<1> HIDE DEF v
<1>4. v \in Letters \ {<< >>}
  BY <1>3
<1>5. w \in Letters /\ Len(w) \in 1 .. Len(v) /\ (w[1] = v[1] \/ w[Len(w)] \in {"e", "i"})
  BY <1>4, Step1aIs
<1> HIDE DEF w
<1>6. w # << >> /\ Len(w) \in 1 .. Len(token)
  BY <1>1, <1>3, <1>5
<1> QED
  BY <1>1, <1>2, <1>3, <1>5, <1>6 DEF w, v

LEMMA ReplaceSuffixesKeeps ==
  ASSUME IInv, ReplaceSuffixes
  PROVE  IInv'
<1> DEFINE w == Step1a(Step0(token))
           v == Step1b(w)
<1>1. /\ step = "suffixes" /\ token' = Step1c(v) /\ step' = "step2" /\ word' = word
      /\ threw' = threw /\ Turns(token', step')
  BY DEF ReplaceSuffixes, Turns, input
<1>2. /\ w \in Letters \ {<< >>} /\ Len(w) \in 1 .. Len(token)
      /\ Len(token) \in 1 .. Len(word) /\ Len(word) \in Nat
  BY <1>1, Stripped
<1> HIDE DEF w
<1>3. v \in Letters /\ Len(v) \in 1 .. Len(w)
  BY <1>2, Step1bIs
<1> HIDE DEF v
<1>4. v \in Letters \ {<< >>}
  BY <1>3
<1>5. token' \in Letters /\ Len(token') = Len(v)
  BY <1>1, <1>4, Step1cIs
<1>6. Len(token') \in 1 .. Len(word)
  BY <1>2, <1>3, <1>5
<1>7. StemsAreWords'
  <2>1. ~threw
    BY <1>1 DEF IInv, Shape
  <2> QED
    BY <1>1, <1>6, <2>1 DEF StemsAreWords
<1> QED
  BY <1>1, <1>5, <1>7, EnglishFrame DEF IInv, EnglishSteps, Suffixing, Marked

\* The stem that is too short: one vowel, the first letter of the word.
LEMMA ReplaceThrowsKeeps ==
  ASSUME IInv, ReplaceThrows
  PROVE  IInv'
<1> DEFINE w == Step1a(Step0(token))
           v == Stem1b(w)
<1>1. /\ step = "suffixes" /\ Throws1b(w) /\ token' = v /\ step' = "done" /\ threw' = TRUE
      /\ word' = word /\ language' = language /\ regions' = regions /\ local' = local
  BY DEF ReplaceThrows, input
<1>2. /\ language = "en" /\ word[1] \in Alphabet /\ Len(word) \in Nat
      /\ w \in Letters \ {<< >>} /\ Len(w) \in 1 .. Len(token) /\ Len(token) \in 1 .. Len(word)
      /\ w[Len(w)] \in {"e", "i"} \/ (w[1] \in Vowels => w[1] = word[1])
  BY <1>1, Stripped
<1> HIDE DEF w
<1>3. v # w /\ Len(v) < 2
  BY <1>1 DEF Throws1b
<1>4. /\ v \in Letters /\ Len(v) \in 1 .. Len(w) - 2 /\ HasVowel(v) /\ v[1] = w[1]
      /\ w[Len(w)] \notin {"e", "i"}
  BY <1>2, <1>3, Stem1bIs
<1> HIDE DEF v
<1>5. Len(v) = 1
  BY <1>3, <1>4
<1>6. v[1] \in Vowels /\ v[1] \in STRING
  BY <1>4, <1>5 DEF HasVowel, IsVowel, Letters
<1>7. v = << word[1] >> /\ word[1] \in Vowels
  <2>1. word[1] = v[1]
    BY <1>2, <1>4, <1>6
  <2>2. << v[1] >> \in Letters /\ Len(<< v[1] >>) = 1 /\ << v[1] >>[1] = v[1]
    BY <1>6 DEF Letters
  <2>3. v = << v[1] >>
    BY <1>4, <1>5, <2>2, SeqEqual DEF Letters
  <2> QED
    BY <1>6, <2>1, <2>3
<1>8. ToLower(v) = v
  <2>1. \A k \in 1 .. Len(v) : v[k] # "Y"
    BY <1>5, <1>6 DEF Vowels
  <2> QED
    BY <1>4, <2>1, LowerSame
<1>9. StemsAreWords'
  <2>1. Len(v) \in 1 .. Len(word)
    BY <1>2, <1>5
  <2> QED
    BY <1>1, <1>2, <1>7, <1>8, <2>1 DEF StemsAreWords
<1>10. Shape'
  BY <1>1, <1>2, <1>4 DEF IInv, Shape, EnglishSteps
<1>11. (Marked /\ Begun /\ SameVowel /\ RvFresh /\ WholeRegions /\ R2Behind)'
  BY <1>1 DEF Marked, Begun, SameVowel, RvFresh, WholeRegions, R2Behind, InStep1, AfterStep1
<1> QED
  BY <1>9, <1>10, <1>11 DEF IInv

LEMMA KeptIs ==
  ASSUME NEW w \in Letters \ {<< >>}, NEW v, Kept(v, w)
  PROVE  /\ v \in Letters /\ Len(v) \in 1 .. Len(w)
         /\ LET kept == IF R1(w) = NoRegion THEN Len(w) ELSE R1(w)
            IN  Len(v) >= kept /\ SubSeq(v, 1, kept) = SubSeq(w, 1, kept)
<1>1. w \in Letters /\ Len(w) \in Nat \ {0}
  BY EmptySeq DEF Letters
<1>2. R1(w) = NoRegion \/ R1(w) \in 2 .. Len(w) - 1
  BY <1>1, R1R2
<1>3. CASE v = w
  <2>1. Len(w) >= IF R1(w) = NoRegion THEN Len(w) ELSE R1(w)
    BY <1>1, <1>2
  <2> QED
    BY <1>1, <1>3, <2>1
<1>4. CASE v # w
  BY <1>1, <1>2, <1>4 DEF Kept
<1> QED
  BY <1>3, <1>4

LEMMA SuffixesKeeps ==
  ASSUME IInv, Suffixes
  PROVE  IInv'
<1>1. /\ step \in Suffixing /\ step' \in Suffixing \cup {"done"} /\ Turns(token', step')
      /\ word' = word /\ threw' = threw /\ language' = language
  BY DEF Suffixes, Turns, input, Suffixing
<1>2. /\ token \in Letters \ {<< >>} /\ word \in Letters /\ Len(word) \in Nat
      /\ Len(token) \in 1 .. Len(word) /\ ~threw
  <2>1. token \in Letters /\ word \in Letters /\ Len(token) \in 1 .. Len(word) /\ ~threw
    BY <1>1 DEF IInv, Shape, StemsAreWords, Suffixing
  <2>2. token # << >>
    BY <2>1
  <2> QED
    BY <2>1, <2>2 DEF Letters
<1>3. token' \in Letters /\ Len(token') \in 1 .. Len(token)
  <2>1. CASE step = "lower"
    <3>1. token' = ToLower(token)
      BY <2>1 DEF Suffixes, Turns
    <3> QED
      BY <1>2, <3>1, WholeIs
  <2>2. CASE step # "lower"
    <3>1. Kept(token', token)
      BY <1>2, <2>2, Steps2To5 DEF Suffixes, Turns
    <3> QED
      BY <1>2, <3>1, KeptIs
  <2> QED
    BY <2>1, <2>2
<1>4. step' = "done" => ToLower(token') = token'
  BY <1>2, LowerSame DEF Suffixes, Turns
<1>5. StemsAreWords'
  <2>1. Len(token') \in 1 .. Len(word)
    BY <1>2, <1>3
  <2> QED
    BY <1>1, <1>2, <1>4, <2>1 DEF StemsAreWords
<1>6. Marked'
  BY <1>1 DEF Marked, Suffixing
<1> QED
  BY <1>1, <1>3, <1>5, <1>6, EnglishFrame DEF IInv, EnglishSteps, Suffixing

-----------------------------------------------------------------------------
LEMMA InitIInv == Init => IInv
<1> SUFFICES ASSUME Init PROVE IInv
  OBVIOUS
<1>1. /\ word \in Letters \ {<< >>} /\ token = word /\ ~threw /\ threw \in BOOLEAN
      /\ regions = NoRegions /\ local = NoRegions
      /\ \/ language = "en" /\ step = "exceptions"
         \/ language = "ru" /\ step = "regions"
  BY StemAssumption DEF Init, Letters
<1>2. NoRegions \in RegionSets
  BY EmptySeq DEF NoRegions, RegionSets, Letters
<1>3. Shape
  BY <1>1, <1>2 DEF Shape, EnglishSteps
<1>4. StemsAreWords
  <2>1. Len(word) \in 1 .. Len(word)
    BY <1>1, EmptySeq DEF Letters
  <2> QED
    BY <1>1, <2>1 DEF StemsAreWords
<1>5. Marked /\ Begun /\ SameVowel /\ RvFresh /\ WholeRegions /\ R2Behind
  BY <1>1 DEF Marked, Begun, SameVowel, RvFresh, WholeRegions, R2Behind, InStep1, AfterStep1
<1> QED
  BY <1>3, <1>4, <1>5 DEF IInv

LEMMA NextIInv == IInv /\ [Next]_vars => IInv'
<1> SUFFICES ASSUME IInv, [Next]_vars PROVE IInv'
  OBVIOUS
<1>1. CASE Next
  BY <1>1, ExceptionsKeeps, ReplaceSuffixesKeeps, ReplaceThrowsKeeps, SuffixesKeeps,
     RegionsKeeps, CutKeeps DEF Next
<1>2. CASE UNCHANGED vars
  <2>1. /\ word' = word /\ language' = language /\ token' = token /\ step' = step
        /\ regions' = regions /\ local' = local /\ threw' = threw
    BY <1>2 DEF vars, input
  <2> QED
    BY <2>1 DEF IInv, Shape, StemsAreWords, Marked, Begun, SameVowel, RvFresh, WholeRegions,
                R2Behind, Whole
<1> QED
  BY <1>1, <1>2

\* Whatever word comes, what the StemFilter hands on has a letter and no more than the
\* word, is in lower case, and only a word whose stem is one vowel, its first letter,
\* makes the stemmer throw (EnglishStemmer::process, RussianPorterStemmer::process).
THEOREM StemsStayWords == Spec => []StemsAreWords
<1>1. Init => IInv
  BY InitIInv
<1>2. IInv /\ [Next]_vars => IInv'
  BY NextIInv
<1>3. IInv => StemsAreWords
  BY DEF IInv
<1> QED
  BY <1>1, <1>2, <1>3, PTL DEF Spec

\* Steps 2 to 5 of the English stemmer change no letter before the region R1 of any word,
\* nor any of a word without one, where the code compares sizes with a -1
\* (english_replace_suffixes and steps, englishStemmer.cpp:251-343).
THEOREM NothingBeforeR1 == Spec => KeepsBeforeR1
<1>1. IInv /\ [Next]_vars =>
        [(step \in {"step2", "step3", "step4", "step5"}) =>
           LET kept == IF R1(token) = NoRegion THEN Len(token) ELSE R1(token)
           IN  Len(token') >= kept /\ SubSeq(token', 1, kept) = SubSeq(token, 1, kept)]_vars
  <2> SUFFICES ASSUME IInv, Next, step \in {"step2", "step3", "step4", "step5"}
               PROVE  LET kept == IF R1(token) = NoRegion THEN Len(token) ELSE R1(token)
                      IN  Len(token') >= kept /\ SubSeq(token', 1, kept) = SubSeq(token, 1, kept)
    OBVIOUS
  <2>1. Suffixes
    BY DEF Next, Exceptions, ReplaceSuffixes, ReplaceThrows, Regions, Cut, AfterFound
  <2>2. token \in Letters \ {<< >>}
    <3>1. token \in Letters /\ Len(token) >= 1
      BY DEF IInv, Shape, StemsAreWords, Letters
    <3> QED
      BY <3>1
  <2>3. Kept(token', token)
    BY <2>1, <2>2, Steps2To5 DEF Suffixes, Turns
  <2> QED
    BY <2>2, <2>3, KeptIs
<1> QED
  BY <1>1, InitIInv, NextIInv, PTL DEF Spec, KeepsBeforeR1

\* A step of the Russian stemmer only cuts an ending of its own off the word, and leaves
\* the first vowel and what is before it, whatever word its regions were set for
\* (process, step1, step1If, russianPorterStemmer.cpp:104-296).
THEOREM OnlyEndingsCut == Spec => CutsEndings
<1>1. IInv /\ [Next]_vars =>
        [(step \in DOMAIN Endings /\ token' # token) =>
           /\ \E e \in EndingsCut(step) : token = token' \o Spelled(e)
           /\ FirstVowel(token') = FirstVowel(token)]_vars
  <2> SUFFICES ASSUME IInv, Next, step \in DOMAIN Endings, token' # token
               PROVE  /\ \E e \in EndingsCut(step) : token = token' \o Spelled(e)
                      /\ FirstVowel(token') = FirstVowel(token)
    OBVIOUS
  <2>1. Cut
    BY DEF Next, Exceptions, ReplaceSuffixes, ReplaceThrows, Suffixes, Regions, Endings
  <2> QED
    BY <2>1, CutIs
<1> QED
  BY <1>1, InitIInv, NextIInv, PTL DEF Spec, CutsEndings

=============================================================================
