------------------------ MODULE MCSingleIndexStorage ------------------------
(***************************************************************************)
(* Instance of SingleIndexStorage for TLC: two or three tokens and block   *)
(* sizes scaled down from 1, 8, 64, ... base blocks so that blocks outgrow *)
(* each other, are freed and are reused, overlapping the block they        *)
(* replace, within a few rows.                                             *)
(***************************************************************************)
EXTENDS SingleIndexStorage, TLC

Symmetry == Permutations(Tokens)

=============================================================================
