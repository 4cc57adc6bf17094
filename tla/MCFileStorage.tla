--------------------------- MODULE MCFileStorage ----------------------------
(***************************************************************************)
(* Instance of FileStorage for TLC: two objects at a time, texts of no, of *)
(* one and of several chunks.                                              *)
(***************************************************************************)
EXTENDS FileStorage, TLC

Symmetry == Permutations(Handles)

=============================================================================
