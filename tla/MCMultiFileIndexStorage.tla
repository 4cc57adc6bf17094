---------------------- MODULE MCMultiFileIndexStorage ----------------------
(***************************************************************************)
(* Instance of MultiFileIndexStorage for TLC: an ordinary token, one whose *)
(* line looks like the counter, one with white space, in shared files.     *)
(***************************************************************************)
EXTENDS MultiFileIndexStorage

=============================================================================
