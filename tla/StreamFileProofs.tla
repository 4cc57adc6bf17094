-------------------------- MODULE StreamFileProofs --------------------------
(***************************************************************************)
(* What the operators of StreamFile return: how long a file is, which      *)
(* cells it has after others were put into it, what a slice of it shows.   *)
(* Both storages' proofs rest on these facts.                              *)
(***************************************************************************)
EXTENDS StreamFile, FiniteSetTheorems, WellFoundedInduction, TLAPS

\* A set of addresses below a bound is finite, and the other way round.
LEMMA FiniteIsBounded ==
  ASSUME NEW S, S \subseteq Nat
  PROVE  IsFiniteSet(S) <=> \E m \in Nat : \A a \in S : a < m
<1> DEFINE Bounded(T) == \E m \in Nat : \A a \in T : a < m
           Unbounded == {T \in FiniteSubsetsOf(Nat) : ~ Bounded(T)}
<1>1. Unbounded = {}
  <2> SUFFICES ASSUME Unbounded # {} PROVE FALSE
    OBVIOUS
  <2>1. PICK T \in Unbounded : \A U \in Unbounded : ~ (<<U, T>> \in StrictSubsetOrdering(Nat))
    <3>1. Unbounded \subseteq FiniteSubsetsOf(Nat)
      OBVIOUS
    <3> HIDE DEF Unbounded
    <3> QED
      BY <3>1, FS_StrictSubsetOrderingWellFounded, WFMin
  <2>2. T \subseteq Nat /\ IsFiniteSet(T) /\ ~ Bounded(T)
    BY DEF FiniteSubsetsOf
  <2>3. PICK x \in T : TRUE
    <3>1. T # {}
      <4>1. Bounded({})
        OBVIOUS
      <4> QED
        BY <2>2, <4>1
    <3> QED
      BY <3>1
  <2>4. T \ {x} \subseteq Nat /\ IsFiniteSet(T \ {x})
    BY <2>2, FS_RemoveElement
  <2>5. Bounded(T \ {x})
    <3>1. <<T \ {x}, T>> \in StrictSubsetOrdering(Nat)
      BY <2>2, <2>3 DEF StrictSubsetOrdering
    <3>2. T \ {x} \notin Unbounded
      BY <2>1, <3>1
    <3> QED
      BY <2>4, <3>2 DEF FiniteSubsetsOf
  <2>6. PICK m \in Nat : \A a \in T \ {x} : a < m
    BY <2>5
  <2>7. PICK top \in Nat : top >= m /\ top > x
    <3>1. x \in Nat /\ m + x + 1 \in Nat /\ m + x + 1 >= m /\ m + x + 1 > x
      BY <2>2
    <3> QED
      BY <3>1
  <2>8. \A a \in T : a < top
    BY <2>2, <2>6, <2>7
  <2> QED
    BY <2>2, <2>8
<1>2. ASSUME NEW m \in Nat, \A a \in S : a < m PROVE IsFiniteSet(S)
  BY <1>2, FS_BoundedSetOfNaturals
<1>3. ASSUME IsFiniteSet(S) PROVE Bounded(S)
  BY <1>1, <1>3 DEF FiniteSubsetsOf
<1> QED
  BY <1>2, <1>3

\* A non-empty bounded set of addresses has a last one.
LEMMA LastAddress ==
  ASSUME NEW S, S \subseteq Nat, S # {}, IsFiniteSet(S)
  PROVE  \E a \in S : \A b \in S : b <= a
<1> DEFINE R == {ss \in Nat \X Nat : ss[1] < ss[2]}
<1>1. R = OpToRel(<, Nat)
  BY Zenon DEF OpToRel
<1>2. IsWellFoundedOn(R, Nat)
  BY <1>1, NatLessThanWellFounded, Zenon
<1>3. PICK m \in Nat : \A a \in S : a < m
  <2> HIDE DEF R
  <2> QED
    BY FiniteIsBounded
<1> DEFINE T == {m - a : a \in S}
<1>4. T \subseteq Nat /\ T # {}
  <2>1. \A a \in S : m - a \in Nat
    BY <1>3
  <2> QED
    BY <2>1
<1>5. PICK x \in T : \A y \in T : ~ (<<y, x>> \in R)
  <2> HIDE DEF R, T
  <2> QED
    BY <1>2, <1>4, WFMin, Zenon
<1>6. PICK a \in S : x = m - a
  OBVIOUS
<1>7. \A b \in S : b <= a
  <2> TAKE b \in S
  <2>1. m - b \in T /\ m - b \in Nat /\ x \in Nat
    BY <1>4
  <2>2. ~ (m - b < x)
    BY <1>5, <2>1
  <2> QED
    BY <1>6, <2>1, <2>2
<1> QED
  BY <1>7

\* The length of a file is one past its last cell.
LEMMA LengthPast ==
  ASSUME NEW file, DOMAIN file \subseteq Nat, IsFiniteSet(DOMAIN file)
  PROVE  /\ Length(file) \in Nat
         /\ \A a \in DOMAIN file : a < Length(file)
         /\ Length(file) > 0 => Length(file) - 1 \in DOMAIN file
<1>1. CASE DOMAIN file = {}
  BY <1>1 DEF Length
<1>2. CASE DOMAIN file # {}
  <2> DEFINE last == CHOOSE a \in DOMAIN file : \A b \in DOMAIN file : b <= a
  <2>1. last \in DOMAIN file /\ \A b \in DOMAIN file : b <= last
    BY <1>2, LastAddress
  <2>2. Length(file) = 1 + last
    BY <1>2 DEF Length
  <2> HIDE DEF last
  <2> QED
    BY <2>1, <2>2
<1> QED
  BY <1>1, <1>2

\* Which cells there are after some were written over others, and what they hold.
LEMMA OverCells ==
  ASSUME NEW new, NEW old
  PROVE  /\ DOMAIN Over(new, old) = DOMAIN new \cup DOMAIN old
         /\ \A a \in DOMAIN new : Over(new, old)[a] = new[a]
         /\ \A a \in DOMAIN old : a \notin DOMAIN new => Over(new, old)[a] = old[a]
BY Zenon DEF Over

LEMMA OverFinite ==
  ASSUME NEW new, NEW old, IsFiniteSet(DOMAIN new), IsFiniteSet(DOMAIN old)
  PROVE  IsFiniteSet(DOMAIN Over(new, old))
<1>1. DOMAIN Over(new, old) = DOMAIN new \cup DOMAIN old
  BY OverCells
<1> HIDE DEF Over
<1> QED
  BY <1>1, FS_Union

\* A run of n cells put at an address.
LEMMA PlaceCells ==
  ASSUME NEW n \in Nat, NEW S, NEW cells \in [1 .. n -> S], NEW at \in Nat
  PROVE  /\ DOMAIN Place(cells, at) = at .. at + n - 1
         /\ \A k \in 1 .. n : Place(cells, at)[at + k - 1] = cells[k]
         /\ \A a \in DOMAIN Place(cells, at) : /\ a - at + 1 \in 1 .. n
                                               /\ Place(cells, at)[a] = cells[a - at + 1]
         /\ IsFiniteSet(DOMAIN Place(cells, at))
<1>1. Len(cells) = n
  OBVIOUS
<1>2. DOMAIN Place(cells, at) = at .. at + n - 1
  BY <1>1 DEF Place
<1>3. \A a \in DOMAIN Place(cells, at) : /\ a - at + 1 \in 1 .. n
                                         /\ Place(cells, at)[a] = cells[a - at + 1]
  BY <1>1, <1>2 DEF Place
<1>4. \A k \in 1 .. n : Place(cells, at)[at + k - 1] = cells[k]
  <2> TAKE k \in 1 .. n
  <2>1. at + k - 1 \in at .. at + n - 1 /\ (at + k - 1) - at + 1 = k
    OBVIOUS
  <2> QED
    BY <1>2, <1>3, <2>1
<1>5. IsFiniteSet(at .. at + n - 1)
  BY FS_Interval
<1> QED
  BY <1>2, <1>3, <1>4, <1>5

LEMMA CutCells ==
  ASSUME NEW tail, NEW cut
  PROVE  /\ DOMAIN Before(tail, cut) = {a \in DOMAIN tail : a < cut}
         /\ \A a \in DOMAIN Before(tail, cut) : Before(tail, cut)[a] = tail[a]
         /\ DOMAIN From(tail, cut) = {a \in DOMAIN tail : a >= cut}
         /\ \A a \in DOMAIN From(tail, cut) : From(tail, cut)[a] = tail[a]
BY DEF Before, From

=============================================================================
