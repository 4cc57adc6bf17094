---------------------------- MODULE IndexStorage ----------------------------
(***************************************************************************)
(* What an IIndexStorage promises to Indexer and Search, as far as the two *)
(* storages keep it: a store from tokens to lists of postings that only    *)
(* grow, of which a restart finds what the last save left.  The promise    *)
(* has two exceptions, and this module says how far they go.  A process    *)
(* that ends, or an object that is replaced, damages the tokens at risk at *)
(* that moment, and no other; and damage spreads only to tokens indexed    *)
(* after it.  An object may fail over a damaged token, and only over one:  *)
(* from then on it answers with garbage for every token, though the lists  *)
(* are there, and the object that replaces it finds them.  A storage says  *)
(* which tokens it cannot read back (Frail) and which it may put at risk   *)
(* without indexing them (Exposed).                                        *)
(***************************************************************************)
EXTENDS Integers, Sequences, FiniteSets

CONSTANTS
  Tokens,
  Row,        \* a posting: file, position, word position
  MaxBatch,   \* bound: postings of one token in one call of createIndex
  Damaged,    \* instead of a list: rows that are anything
  Frail, Exposed

VARIABLES
  postings,   \* token -> the list that is kept for it
  answers,    \* token -> what getRawIndex returns for it
  saved,      \* token -> what the next process starts from
  atRisk      \* tokens that the end of the process would damage now

vars == <<postings, answers, saved, atRisk>>

Init ==
  /\ postings = [t \in Tokens |-> << >>]
  /\ answers = postings
  /\ saved = postings
  /\ atRisk = {}

\* createIndex, one token: its list grows at the end, nobody else's changes.  An object
\* that has failed keeps nothing.
Index(t) ==
  /\ postings[t] # Damaged /\ answers = postings
  /\ LET list == postings'[t]
     IN  /\ list \in Seq(Row)
         /\ Len(list) - Len(postings[t]) \in 1 .. MaxBatch
         /\ SubSeq(list, 1, Len(postings[t])) = postings[t]
         /\ postings' = [postings EXCEPT ![t] = list]
  /\ answers' = postings'
  /\ atRisk' \subseteq atRisk \cup {t}
  /\ UNCHANGED saved

\* Only a storage that is damaged already can damage what it is given.
Spoil(t) ==
  /\ \E u \in Tokens : postings[u] = Damaged
  /\ postings' = [postings EXCEPT ![t] = Damaged]
  /\ answers' = [answers EXCEPT ![t] = Damaged]
  /\ saved' = [saved EXCEPT ![t] = Damaged]
  /\ atRisk' \subseteq atRisk \cup {t}

\* Indexing moves the list elsewhere, or a buffer is written out.
Rearrange ==
  /\ \E t \in Tokens : atRisk' \subseteq atRisk \cup {t}
  /\ UNCHANGED <<postings, answers, saved>>

\* A damaged list is read, by a lookup or to move it, and the object fails: it will find
\* no token any more, but for those that have no postings.
Fail(t) ==
  /\ postings[t] = Damaged
  /\ answers' = [u \in Tokens |-> IF postings[u] = << >> THEN << >> ELSE Damaged]
  /\ atRisk' \subseteq atRisk \cup {t}
  /\ UNCHANGED <<postings, saved>>

\* close: the object that comes next finds what is kept.
Close ==
  /\ answers' = postings
  /\ atRisk' \subseteq atRisk
  /\ UNCHANGED <<postings, saved>>

\* saveStorageMeta: of what is saved, the list indexed last is not settled yet.
Save ==
  /\ saved' = postings
  /\ \E t \in Tokens : atRisk' \subseteq {t} \cup Frail
  /\ UNCHANGED <<postings, answers>>

\* A save has begun that must not be cut short.
Expose ==
  /\ atRisk' \subseteq atRisk \cup Exposed
  /\ UNCHANGED <<postings, answers, saved>>

\* The process or the object ends and the next one starts from what was saved.
Restart ==
  /\ \E hit \in SUBSET atRisk :
       /\ postings' = [t \in Tokens |-> IF t \in hit THEN Damaged ELSE saved[t]]
       /\ saved' = postings'
  /\ answers' = postings'
  /\ atRisk' \subseteq Exposed

Next ==
  \/ \E t \in Tokens : Index(t) \/ Spoil(t) \/ Fail(t)
  \/ Rearrange
  \/ Close
  \/ Save
  \/ Expose
  \/ Restart

Spec == Init /\ [][Next]_vars

=============================================================================
