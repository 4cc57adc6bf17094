------------------------------ MODULE MCEngine ------------------------------
(***************************************************************************)
(* Instance of Engine for TLC: every text is of three words, the first     *)
(* twice, and the buffer holds two or three positions, so that it overflows*)
(* within a text and between texts, at a known word, a new word, a new     *)
(* text.                                                                   *)
(***************************************************************************)
EXTENDS Engine

CONSTANTS a, b
Texts == {<<a, a, b>>}

=============================================================================
