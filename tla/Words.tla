-------------------------------- MODULE Words --------------------------------
(***************************************************************************)
(* Words as the stemmers see them: sequences of letters.  Their suffixes   *)
(* and endings are written as strings, and spelled where they are compared *)
(* with a word or put behind one.                                          *)
(***************************************************************************)
EXTENDS Integers, Sequences
F == INSTANCE FiniteSetsExt

Spelled(s)      == [k \in 1 .. Len(s) |-> SubSeq(s, k, k)]
IsOneOf(w, S)   == \E s \in S : w = Spelled(s)
Drop(w, n)      == SubSeq(w, 1, Len(w) - n)
From(w, k)      == SubSeq(w, k, Len(w))
EndsIn(w, s)    == Len(w) >= Len(s) /\ From(w, Len(w) - Len(s) + 1) = Spelled(s)
StartsIn(w, s)  == Len(w) >= Len(s) /\ SubSeq(w, 1, Len(s)) = Spelled(s)

\* The first place that is among some places of a list, or 0.
FirstOf(places) == IF places = {} THEN 0 ELSE F!Min(places)

=============================================================================
