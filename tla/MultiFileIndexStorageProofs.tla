-------------------- MODULE MultiFileIndexStorageProofs --------------------
(***************************************************************************)
(* The multi-file storage for every set of tokens, every batch and every   *)
(* bound: types, that no file in use is written again, that a token        *)
(* outside `lost` reads back its batches, and that the storage implements  *)
(* the promise of IndexStorage.                                            *)
(*                                                                         *)
(* The argument: what a token's entries find is compared with what was     *)
(* indexed, twice - the entries in memory with `expected`, those a loader  *)
(* would make of the metadata file with `savedExpected`.  Files are only   *)
(* written at the counter, and the entries of both kinds stay below it:    *)
(* those in memory below the counter, those on the disk below the file     *)
(* that is being written, since that file may be cut when the process      *)
(* ends.                                                                   *)
(***************************************************************************)
EXTENDS MultiFileIndexStorage, StreamFileProofs, SequenceTheorems

\* What the entries of a token find in the files is the list; no entries, no list.
Finds(files, entries, list) ==
  /\ Len(entries) = Len(list)
  /\ \A i \in 1 .. Len(list) :
       /\ entries[i].file \in DOMAIN files
       /\ entries[i].offset \in DOMAIN files[entries[i].file]
       /\ files[entries[i].file][entries[i].offset] = list[i]
Reads(files, map, t, list) ==
  /\ t \in DOMAIN map <=> list # << >>
  /\ t \in DOMAIN map => Finds(files, map[t], list)

\* The entries of a token are in files before number n.
Below(map, t, n) == t \in DOMAIN map => \A i \in DOMAIN map[t] : map[t][i].file < n

\* Files before this one are complete.
Closed == IF work = {} THEN fileCounter ELSE fileCounter - 1

InMemory ==
  proc = "open" => \A t \in Tokens \ lost : /\ Reads(index, metadata, t, expected[t])
                                            /\ Below(metadata, t, fileCounter)
OnDisk ==
  ~saving => \A t \in Tokens \ (lost \cup Fragile) :
               /\ Reads(index, LoadedMap(Saved), t, savedExpected[t])
               /\ Below(LoadedMap(Saved), t, LoadedCounter(Saved))
               /\ proc = "open" => Below(LoadedMap(Saved), t, Closed)

\* A token with a line in the metadata file has entries in memory: the next save writes
\* a newer line behind it.
Renewed ==
  proc = "open" => \A t \in Tokens \ (lost \cup Fragile) : LinesOf(Saved, t) # {} => t \in DOMAIN metadata

\* Without an object there is nothing but what was saved.
NoObject ==
  proc # "open" => /\ metadata = Empty /\ fileCounter = 0 /\ work = {} /\ ~saving
                   /\ expected = savedExpected
                   /\ Unreadable \subseteq lost
Batch ==
  work # {} => /\ ~saving
               /\ fileCounter > 0 /\ fileCounter - 1 \in DOMAIN index
               /\ work \cap lost = {}
               /\ \A t \in work : Len(expected[t]) < MaxRows

\* A metadata file without a counter is left by a process that ended inside a save.
CutShort == meta # NoMeta /\ ~saving /\ Marks(Saved) = {} => lost = Tokens

Bounded ==
  /\ IsFiniteSet(DOMAIN metadata)
  /\ \A i \in DOMAIN Saved : MarkedCount(Saved[i]) <= MaxFiles

IInv ==
  /\ TypeOK
  /\ isMetadataLoaded <=> proc # "down"
  /\ InMemory /\ OnDisk /\ Renewed /\ NoObject /\ Batch /\ CutShort /\ Bounded

-----------------------------------------------------------------------------
\* Places in the metadata file: a non-empty set of them has a last one.
LEMMA LastPlace ==
  ASSUME NEW lines \in Seq(MetaLine), NEW T, T \subseteq DOMAIN lines, T # {}
  PROVE  F!Max(T) \in T /\ \A i \in T : i <= F!Max(T)
<1>1. IsFiniteSet(DOMAIN lines)
  <2>1. DOMAIN lines = 1 .. Len(lines) /\ Len(lines) \in Int
    OBVIOUS
  <2> QED
    BY <2>1, FS_Interval
<1>2. T \subseteq Nat /\ IsFiniteSet(T)
  BY <1>1, FS_Subset
<1>3. PICK last \in T : \A i \in T : i <= last
  BY <1>2, LastAddress
<1>4. \A i \in T : last >= i
  BY <1>2, <1>3
<1> QED
  BY <1>2, <1>3, <1>4 DEF F!Max

\* What loading a metadata file gives: entries for tokens, finitely many, and a counter
\* within the bound; the lines of fragile tokens are not read back.
LEMMA LoadedTypes ==
  ASSUME NEW lines \in Seq(MetaLine), \A i \in DOMAIN lines : MarkedCount(lines[i]) <= MaxFiles
  PROVE  /\ IsEntryMap(LoadedMap(lines)) /\ IsFiniteSet(DOMAIN LoadedMap(lines))
         /\ LoadedCounter(lines) \in 0 .. MaxFiles
         /\ DOMAIN LoadedMap(lines) \cap Fragile = {}
<1> DEFINE map == LoadedMap(lines)
           last == [t \in DOMAIN map |-> F!Max(LinesOf(lines, t))]
<1>1. ASSUME NEW t \in DOMAIN map
      PROVE  /\ t \in Tokens \ BlankTokens /\ LinesOf(lines, t) # {}
             /\ map[t] = lines[last[t]].entries
             /\ last[t] \in LinesOf(lines, t)
  <2>1. t \in Tokens \ BlankTokens /\ LinesOf(lines, t) # {}
    BY DEF LoadedMap
  <2>2. map[t] = lines[F!Max(LinesOf(lines, t))].entries
    BY <2>1 DEF LoadedMap
  <2>3. F!Max(LinesOf(lines, t)) \in LinesOf(lines, t)
    BY <2>1, LastPlace DEF LinesOf
  <2> QED
    BY <2>1, <2>2, <2>3
<1>2. ASSUME NEW t \in Tokens, NEW i \in LinesOf(lines, t)
      PROVE  /\ i \in DOMAIN lines /\ lines[i].token = t
             /\ lines[i].entries \in Seq(Entry) /\ t \notin ColonTokens
  <2>1. i \in DOMAIN lines /\ lines[i].token = t /\ ~ BeginsWithMetaChar(lines[i])
    BY DEF LinesOf, Marks
  <2>2. lines[i] \in MetaLine
    BY <2>1
  <2> QED
    BY <2>1, <2>2 DEF BeginsWithMetaChar, MetaLine
<1>3. IsEntryMap(map)
  <2>1. map \in [DOMAIN map -> Seq(Entry)]
    <3>1. \A t \in DOMAIN map : map[t] \in Seq(Entry)
      BY <1>1, <1>2
    <3>2. map = [t \in DOMAIN map |-> map[t]]
      BY DEF LoadedMap
    <3> HIDE DEF map
    <3> QED
      BY <3>1, <3>2
  <2> QED
    BY <1>1, <2>1 DEF IsEntryMap
<1>4. IsFiniteSet(DOMAIN map)
  <2>1. IsFiniteSet(DOMAIN lines)
    <3>1. DOMAIN lines = 1 .. Len(lines) /\ Len(lines) \in Int
      OBVIOUS
    <3> QED
      BY <3>1, FS_Interval
  <2>2. last \in Injection(DOMAIN map, DOMAIN lines)
    <3>1. \A t \in DOMAIN map : last[t] \in DOMAIN lines /\ lines[last[t]].token = t
      BY <1>1, <1>2
    <3>2. last = [t \in DOMAIN map |-> last[t]]
      OBVIOUS
    <3> HIDE DEF last, map
    <3> QED
      BY <3>1, <3>2 DEF Injection, IsInjective
  <2> HIDE DEF last, map
  <2> QED
    BY <2>1, <2>2, FS_Injection
<1>5. LoadedCounter(lines) \in 0 .. MaxFiles
  <2>1. CASE Marks(lines) = {}
    BY <2>1, MultiAssumption DEF LoadedCounter
  <2>2. CASE Marks(lines) # {}
    <3>1. PICK i \in DOMAIN lines : LoadedCounter(lines) = MarkedCount(lines[i])
      BY <2>2, LastPlace DEF LoadedCounter, Marks
    <3>2. lines[i] \in MetaLine
      OBVIOUS
    <3>3. MarkedCount(lines[i]) \in Nat
      BY <3>2 DEF MarkedCount, MetaLine
    <3> QED
      BY <3>1, <3>3, MultiAssumption
  <2> QED
    BY <2>1, <2>2
<1>6. DOMAIN map \cap Fragile = {}
  BY <1>1, <1>2 DEF Fragile
<1> QED
  BY <1>3, <1>4, <1>5, <1>6

\* A metadata file to which the lines of the tokens and the counter were appended.
Appended(lines, order, n) == lines \o TokenLines(order) \o <<CounterLine(n)>>

\* What saving over a file that was cut gives: for each token that can be read back the
\* entries in memory, for no other one more than before, and the counter.
Restores(new, lines, n) ==
  /\ new \in Seq(MetaLine)
  /\ Marks(new) # {} /\ LoadedCounter(new) = n
  /\ \A t \in DOMAIN metadata \ Fragile :
       t \in DOMAIN LoadedMap(new) /\ LoadedMap(new)[t] = metadata[t]
  /\ \A t \in Tokens \ DOMAIN metadata : LinesOf(new, t) # {} => LinesOf(lines, t) # {}
  /\ \A i \in DOMAIN new : \/ i \in DOMAIN lines /\ new[i] = lines[i]
                           \/ MarkedCount(new[i]) \in {0, n}
LEMMA LoadedAfterSave ==
  ASSUME NEW lines \in Seq(MetaLine), IsEntryMap(metadata), IsFiniteSet(DOMAIN metadata),
         NEW order \in Orders, NEW n \in Nat,
         NEW new, new = Appended(lines, order, n)
  PROVE  Restores(new, lines, n)
<1>1. PICK N \in Nat : N = Cardinality(DOMAIN metadata)
  BY FS_CardinalityType
<1>2. PICK L \in Nat : L = Len(lines)
  OBVIOUS
<1>3. /\ order \in [1 .. N -> DOMAIN metadata]
      /\ \A t \in DOMAIN metadata : \E k \in 1 .. N : order[k] = t
      /\ \A k, l \in 1 .. N : k # l => order[k] # order[l]
  BY <1>1 DEF Orders, Bijection, Surjection, Injection, IsInjective
<1>4. ASSUME NEW k \in 1 .. N
      PROVE  TokenLine(order[k], metadata[order[k]]) \in MetaLine
  BY <1>3, <1>4 DEF IsEntryMap, MetaLine, TokenLine
<1>5. PICK middle \in Seq(MetaLine) :
        /\ middle = TokenLines(order) /\ Len(middle) = N
        /\ \A k \in 1 .. N : middle[k] = TokenLine(order[k], metadata[order[k]])
  <2>1. TokenLines(order) = [k \in 1 .. N |-> TokenLine(order[k], metadata[order[k]])]
    BY <1>3 DEF TokenLines
  <2>2. [k \in 1 .. N |-> TokenLine(order[k], metadata[order[k]])] \in [1 .. N -> MetaLine]
    BY <1>4, Zenon
  <2>3. TokenLines(order) \in Seq(MetaLine) /\ Len(TokenLines(order)) = N
    BY <1>1, <2>1, <2>2
  <2> QED
    BY <2>1, <2>3
<1>6. PICK end \in MetaLine : end = CounterLine(n) /\ BeginsWithMetaChar(end)
  <2>1. CounterLine(n) \in MetaLine /\ BeginsWithMetaChar(CounterLine(n))
    BY DEF CounterLine, MetaLine, BeginsWithMetaChar
  <2> QED
    BY <2>1
<1>7. /\ new \in Seq(MetaLine) /\ DOMAIN new = 1 .. (L + N + 1)
      /\ \A i \in 1 .. L : new[i] = lines[i]
      /\ \A i \in (L + 1) .. (L + N) : new[i] = middle[i - L]
      /\ new[L + N + 1] = end
  <2>1. new = lines \o middle \o <<end>>
    BY <1>5, <1>6 DEF Appended
  <2>2. PICK front \in Seq(MetaLine) :
          /\ front = lines \o middle /\ Len(front) = L + N
          /\ \A i \in 1 .. L : front[i] = lines[i]
          /\ \A i \in (L + 1) .. (L + N) : front[i] = middle[i - L]
    <3>1. /\ lines \o middle \in Seq(MetaLine) /\ Len(lines \o middle) = L + N
          /\ \A i \in 1 .. (L + N) :
               (lines \o middle)[i] = IF i <= L THEN lines[i] ELSE middle[i - L]
      BY <1>2, <1>5, ConcatProperties
    <3>2. PICK both : both = lines \o middle
      OBVIOUS
    <3>3. \A i \in 1 .. (L + N) : both[i] = IF i <= L THEN lines[i] ELSE middle[i - L]
      BY <3>1, <3>2
    <3>4. \A i \in 1 .. L : both[i] = lines[i]
      BY <3>3
    <3>5. \A i \in (L + 1) .. (L + N) : both[i] = middle[i - L]
      BY <3>3
    <3> QED
      BY <3>1, <3>2, <3>4, <3>5
  <2>3. new = Append(front, end)
    BY <2>1, <2>2
  <2>4. /\ new \in Seq(MetaLine) /\ Len(new) = L + N + 1
        /\ \A i \in 1 .. (L + N) : new[i] = front[i]
        /\ new[L + N + 1] = end
    BY <2>2, <2>3
  <2>5. /\ new \in Seq(MetaLine) /\ DOMAIN new = 1 .. (L + N + 1)
        /\ new[L + N + 1] = end
    BY <2>4
  <2>6. \A i \in 1 .. L : new[i] = lines[i]
    <3> TAKE i \in 1 .. L
    <3>1. i \in 1 .. (L + N)
      OBVIOUS
    <3> QED
      BY <2>2, <2>4, <3>1
  <2>7. \A i \in (L + 1) .. (L + N) : new[i] = middle[i - L]
    <3> TAKE i \in (L + 1) .. (L + N)
    <3>1. i \in 1 .. (L + N)
      OBVIOUS
    <3> QED
      BY <2>2, <2>4, <3>1
  <2> QED
    BY <2>5, <2>6, <2>7
<1>8. /\ \A i \in DOMAIN new : i \in 1 .. L \/ i \in (L + 1) .. (L + N) \/ i = L + N + 1
      /\ \A i \in (L + 1) .. (L + N) : i - L \in 1 .. N
  BY <1>7
<1>9. ASSUME NEW i \in (L + 1) .. (L + N)
      PROVE  /\ i - L \in 1 .. N /\ order[i - L] \in DOMAIN metadata
             /\ new[i] = TokenLine(order[i - L], metadata[order[i - L]])
             /\ new[i].kind = "token" /\ new[i].token = order[i - L]
  <2>1. /\ i - L \in 1 .. N /\ order[i - L] \in DOMAIN metadata
        /\ new[i] = TokenLine(order[i - L], metadata[order[i - L]])
    BY <1>3, <1>5, <1>7, <1>8
  <2> QED
    BY <2>1 DEF TokenLine
<1>10. Marks(new) # {} /\ LoadedCounter(new) = n
  <2>1. L + N + 1 \in Marks(new)
    BY <1>6, <1>7 DEF Marks
  <2>2. PICK top : top = F!Max(Marks(new))
    OBVIOUS
  <2>3. top \in DOMAIN new /\ L + N + 1 <= top
    BY <1>7, <2>1, <2>2, LastPlace DEF Marks
  <2>4. top = L + N + 1
    BY <1>7, <2>3
  <2>5. LoadedCounter(new) = MarkedCount(end)
    BY <1>7, <2>1, <2>2, <2>4 DEF LoadedCounter
  <2> QED
    BY <1>6, <2>1, <2>5 DEF MarkedCount, CounterLine
<1>11. ASSUME NEW t \in DOMAIN metadata \ Fragile
       PROVE  t \in DOMAIN LoadedMap(new) /\ LoadedMap(new)[t] = metadata[t]
  <2>1. PICK k \in 1 .. N : order[k] = t
    BY <1>3
  <2>2. PICK here \in (L + 1) .. (L + N) : here - L = k
    <3>1. L + k \in (L + 1) .. (L + N) /\ (L + k) - L = k
      OBVIOUS
    <3> QED
      BY <3>1
  <2>3. here \in DOMAIN new /\ new[here] = TokenLine(t, metadata[t])
    BY <1>7, <1>9, <2>1, <2>2
  <2>4. here \in LinesOf(new, t)
    BY <2>3 DEF LinesOf, Marks, BeginsWithMetaChar, TokenLine, Fragile
  <2>5. ASSUME NEW i \in LinesOf(new, t) PROVE i <= here
    <3>1. i \in DOMAIN new /\ ~ BeginsWithMetaChar(new[i]) /\ new[i].token = t
      BY DEF LinesOf, Marks
    <3>2. CASE i \in 1 .. L
      BY <3>2
    <3>3. CASE i \in (L + 1) .. (L + N)
      <4>1. order[i - L] = t /\ i - L \in 1 .. N
        BY <1>9, <3>1, <3>3
      <4>2. i - L = k
        BY <1>3, <2>1, <4>1
      <4> QED
        BY <2>2, <3>3, <4>2
    <3>4. i # L + N + 1
      BY <1>6, <1>7, <3>1
    <3> QED
      BY <1>8, <3>1, <3>2, <3>3, <3>4
  <2>6. PICK last : last = F!Max(LinesOf(new, t))
    OBVIOUS
  <2>7. last \in LinesOf(new, t) /\ here <= last /\ LinesOf(new, t) \subseteq DOMAIN new
    BY <1>7, <2>4, <2>6, LastPlace DEF LinesOf
  <2>8. last = here
    BY <1>7, <2>5, <2>7
  <2>9. t \in Tokens \ BlankTokens
    BY DEF Fragile, IsEntryMap
  <2>10. t \in DOMAIN LoadedMap(new) /\ LoadedMap(new)[t] = new[here].entries
    BY <2>4, <2>6, <2>8, <2>9 DEF LoadedMap
  <2> QED
    BY <2>3, <2>10 DEF TokenLine
<1>12. ASSUME NEW t \in Tokens \ DOMAIN metadata, LinesOf(new, t) # {} PROVE LinesOf(lines, t) # {}
  <2>1. PICK i \in LinesOf(new, t) : TRUE
    BY <1>12
  <2>2. i \in DOMAIN new /\ ~ BeginsWithMetaChar(new[i]) /\ new[i].token = t
    BY DEF LinesOf, Marks
  <2>3. i # L + N + 1
    BY <1>6, <1>7, <2>2
  <2>4. i \notin (L + 1) .. (L + N)
    BY <1>9, <2>2
  <2>5. i \in DOMAIN lines /\ new[i] = lines[i]
    BY <1>2, <1>7, <1>8, <2>2, <2>3, <2>4
  <2> QED
    BY <2>2, <2>5 DEF LinesOf, Marks
<1>13. ASSUME NEW i \in DOMAIN new
       PROVE  \/ i \in DOMAIN lines /\ new[i] = lines[i]
              \/ MarkedCount(new[i]) \in {0, n}
  <2>1. CASE i \in 1 .. L
    BY <1>2, <1>7, <2>1
  <2>2. CASE i \in (L + 1) .. (L + N)
    BY <1>9, <2>2 DEF MarkedCount
  <2>3. CASE i = L + N + 1
    BY <1>6, <1>7, <2>3 DEF MarkedCount, CounterLine
  <2> QED
    BY <1>8, <2>1, <2>2, <2>3
<1> QED
  BY <1>7, <1>10, <1>11, <1>12, <1>13 DEF Restores

\* What getRawIndex returns for a token all of whose entries find their lines.
LEMMA ViewShowsList ==
  ASSUME NEW t, NEW list \in Seq(Line), Reads(index, Map, t, list),
         t \in DOMAIN Map => Map[t] \in Seq(Entry)
  PROVE  View(t) = list
<1>1. CASE t \notin DOMAIN Map
  BY <1>1 DEF View, Reads
<1>2. CASE t \in DOMAIN Map
  <2>1. PICK entries \in Seq(Entry) : entries = Map[t]
    BY <1>2
  <2>2. PICK n \in Nat : n = Len(list)
    OBVIOUS
  <2>3. /\ Len(entries) = n
        /\ \A i \in 1 .. n : HasLine(entries[i]) /\ LineAt(entries[i]) = list[i]
    BY <1>2, <2>1, <2>2 DEF Reads, Finds, HasLine, LineAt
  <2>4. Found(entries) = 1 .. n
    BY <2>3 DEF Found
  <2>5. Cardinality(1 .. n) = n
    BY FS_Interval
  <2>6. ASSUME NEW k \in 1 .. n PROVE Nth(1 .. n, k) = k
    <3>1. ASSUME NEW i \in 1 .. n PROVE Cardinality({j \in 1 .. n : j <= i}) = i
      <4>1. {j \in 1 .. n : j <= i} = 1 .. i
        OBVIOUS
      <4>2. Cardinality(1 .. i) = i
        BY FS_Interval
      <4> QED
        BY <4>1, <4>2
    <3> QED
      BY <3>1 DEF Nth
  <2>7. View(t) = [k \in 1 .. n |-> LineAt(entries[Nth(1 .. n, k)])]
    BY <1>2, <2>1, <2>4, <2>5 DEF View
  <2>8. View(t) = [k \in 1 .. n |-> list[k]]
    BY <2>3, <2>6, <2>7
  <2>9. list = [k \in 1 .. n |-> list[k]]
    BY <2>2
  <2> QED
    BY <2>8, <2>9
<1> QED
  BY <1>1, <1>2

\* Files before number n are still there and have their lines where they were.
Grown(files, more, n) ==
  \A f \in DOMAIN files :
    f < n => /\ f \in DOMAIN more
             /\ \A o \in DOMAIN files[f] : o \in DOMAIN more[f] /\ more[f][o] = files[f][o]

\* A list that is read from files that have only grown is read as before.
LEMMA ReadsGrown ==
  ASSUME NEW files, NEW more, NEW map, NEW t, NEW list \in Seq(Line), NEW n \in Nat,
         Reads(files, map, t, list), Below(map, t, n), Grown(files, more, n),
         t \in DOMAIN map => map[t] \in Seq(Entry)
  PROVE  Reads(more, map, t, list)
<1>1. CASE t \notin DOMAIN map
  BY <1>1 DEF Reads
<1>2. CASE t \in DOMAIN map
  <2>1. Finds(files, map[t], list)
    BY <1>2 DEF Reads
  <2>2. \A i \in 1 .. Len(list) : map[t][i].file < n
    BY <1>2, <2>1 DEF Finds, Below
  <2>3. Finds(more, map[t], list)
    BY <2>1, <2>2 DEF Finds, Grown
  <2> QED
    BY <1>2, <2>3 DEF Reads
<1> QED
  BY <1>1, <1>2

LEMMA BelowMore ==
  ASSUME NEW map, NEW t, NEW n \in Nat, NEW m \in Nat, n <= m, Below(map, t, n),
         t \in DOMAIN map => map[t] \in Seq(Entry)
  PROVE  Below(map, t, m)
<1>1. ASSUME t \in DOMAIN map, NEW i \in DOMAIN map[t] PROVE map[t][i].file < m
  <2>1. map[t] \in Seq(Entry) /\ map[t][i].file < n
    BY <1>1 DEF Below
  <2>2. map[t][i] \in Entry
    BY <2>1
  <2>3. map[t][i].file \in Nat
    BY <2>2 DEF Entry
  <2> QED
    BY <2>1, <2>3
<1> QED
  BY <1>1 DEF Below

LEMMA InitIInv == Init => IInv
<1> SUFFICES ASSUME Init PROVE IInv
  OBVIOUS
<1> USE DEF Init
<1>1. Saved = << >> /\ Saved \in Seq(MetaLine)
  BY DEF Saved
<1>2. DOMAIN LoadedMap(Saved) = {} /\ \A t \in Tokens : LinesOf(Saved, t) = {}
  BY <1>1 DEF LoadedMap, LinesOf
<1>3. TypeOK
  <2>1. /\ fileCounter \in 0 .. MaxFiles /\ ends \in 0 .. MaxEnds
        /\ work \subseteq Tokens /\ lost \subseteq Tokens
    BY MultiAssumption
  <2>2. Empty \in [{} -> Seq(Entry)] /\ Empty \in [{} -> Seq(Line)] /\ DOMAIN Empty = {}
    BY DEF Empty
  <2>3. [t \in Tokens |-> << >>] \in [Tokens -> Seq(Line)]
    OBVIOUS
  <2>4. isMetadataLoaded \in BOOLEAN /\ saving \in BOOLEAN /\ proc \in {"down", "none", "open"}
    BY Zenon
  <2> QED
    BY <2>1, <2>2, <2>3, <2>4 DEF TypeOK, IsEntryMap
<1>4. OnDisk
  BY <1>2 DEF OnDisk, Reads, Below
<1>5. InMemory /\ Renewed /\ Batch /\ CutShort
  BY DEF InMemory, Renewed, Batch, CutShort
<1>6. NoObject
  BY DEF NoObject, Unreadable, SavedTokens
<1>7. Bounded
  BY <1>1, FS_EmptySet DEF Bounded, Empty
<1> QED
  BY <1>3, <1>4, <1>5, <1>6, <1>7 DEF IInv

-----------------------------------------------------------------------------
\* Steps that leave both files and lists alone keep what is read.
LEMMA ConstructIInv ==
  ASSUME IInv, Construct
  PROVE  IInv'
<1> USE DEF Construct
<1>1. /\ TypeOK /\ Saved' = Saved /\ Saved \in Seq(MetaLine)
      /\ proc # "open" /\ work = {} /\ work' = {} /\ ~saving /\ ~saving'
  BY DEF IInv, NoObject, Saved, TypeOK
<1>2. CASE isMetadataLoaded
  <2>1. /\ proc = "none" /\ metadata' = Empty /\ fileCounter' = 0
        /\ lost' = lost \cup SavedTokens /\ expected = savedExpected
    BY <1>1, <1>2 DEF IInv, NoObject
  <2>2. ASSUME NEW t \in Tokens \ lost' PROVE expected'[t] = << >> /\ savedExpected'[t] = << >>
    BY <2>1 DEF SavedTokens
  <2>3. DOMAIN metadata' = {} /\ IsFiniteSet(DOMAIN metadata') /\ metadata' \in [{} -> Seq(Entry)]
    BY <2>1, FS_EmptySet DEF Empty
  <2>4. TypeOK'
    BY <1>1, <2>1, <2>3, MultiAssumption DEF TypeOK, IsEntryMap, SavedTokens
  <2>5. InMemory'
    BY <2>2, <2>3 DEF InMemory, Reads, Below
  <2>6. ASSUME NEW t \in Tokens \ (lost' \cup Fragile)
        PROVE  t \notin DOMAIN LoadedMap(Saved) /\ LinesOf(Saved, t) = {}
    <3>1. Reads(index, LoadedMap(Saved), t, savedExpected[t]) /\ t \notin lost
      BY <1>1, <2>1 DEF IInv, OnDisk
    <3>2. t \notin DOMAIN LoadedMap(Saved)
      BY <2>2, <3>1 DEF Reads
    <3> QED
      BY <3>2 DEF LoadedMap, Fragile
  <2>7. OnDisk' /\ Renewed'
    BY <1>1, <2>2, <2>6 DEF OnDisk, Renewed, Reads, Below
  <2>8. NoObject' /\ Batch'
    BY <1>1 DEF NoObject, Batch
  <2>9. CutShort' /\ Bounded'
    BY <1>1, <2>1, <2>3 DEF IInv, CutShort, Bounded, TypeOK, SavedTokens
  <2> QED
    BY <1>1, <1>2, <2>4, <2>5, <2>7, <2>8, <2>9 DEF IInv
<1>3. CASE ~isMetadataLoaded
  <2>1. /\ metadata' = LoadedMap(Saved) /\ fileCounter' = LoadedCounter(Saved)
        /\ lost' = lost /\ expected = savedExpected
    BY <1>1, <1>3 DEF IInv, NoObject
  <2>2. /\ IsEntryMap(metadata') /\ IsFiniteSet(DOMAIN metadata')
        /\ fileCounter' \in 0 .. MaxFiles
        /\ DOMAIN metadata' \cap Fragile = {}
    <3>1. \A i \in DOMAIN Saved : MarkedCount(Saved[i]) <= MaxFiles
      BY DEF IInv, Bounded
    <3> QED
      BY <1>1, <2>1, <3>1, LoadedTypes
  <2>3. TypeOK'
    BY <1>1, <2>1, <2>2 DEF TypeOK
  <2>4. ASSUME NEW t \in Tokens \ (lost \cup Fragile)
        PROVE  /\ Reads(index, metadata', t, savedExpected[t])
               /\ Below(metadata', t, fileCounter')
    BY <1>1, <2>1 DEF IInv, OnDisk
  <2>5. ASSUME NEW t \in Fragile \ lost
        PROVE  /\ Reads(index, metadata', t, savedExpected[t])
               /\ Below(metadata', t, fileCounter')
    <3>1. t \in Tokens /\ t \notin Unreadable
      BY <1>1, MultiAssumption DEF IInv, NoObject, Fragile
    <3>2. savedExpected[t] = << >>
      BY <3>1 DEF Unreadable, SavedTokens, Fragile
    <3> QED
      BY <2>2, <3>2 DEF Reads, Below
  <2>6. InMemory'
    BY <2>1, <2>4, <2>5 DEF InMemory
  <2>7. OnDisk'
    BY <1>1, <2>1, <2>4 DEF OnDisk, Closed
  <2>8. Renewed'
    BY <1>1, <2>1 DEF Renewed, LoadedMap, Fragile
  <2>9. NoObject' /\ Batch' /\ CutShort' /\ Bounded'
    BY <1>1, <2>1, <2>2 DEF IInv, NoObject, Batch, CutShort, Bounded
  <2> QED
    BY <1>1, <2>3, <2>6, <2>7, <2>8, <2>9 DEF IInv
<1> QED
  BY <1>2, <1>3

\* What the invariant says of single variables, for the steps below.
LEMMA Types ==
  ASSUME IInv
  PROVE  /\ TypeOK
         /\ fileCounter \in Nat /\ fileCounter <= MaxFiles
         /\ \A f \in DOMAIN index : f \in Nat /\ index[f] \in Seq(Line)
         /\ \A t \in Tokens : expected[t] \in Seq(Line) /\ savedExpected[t] \in Seq(Line)
         /\ \A t \in DOMAIN metadata : t \in Tokens /\ metadata[t] \in Seq(Entry)
         /\ Saved \in Seq(MetaLine)
         /\ \A t \in DOMAIN LoadedMap(Saved) : LoadedMap(Saved)[t] \in Seq(Entry)
<1>1. TypeOK
  BY DEF IInv
<1>2. fileCounter \in Nat /\ fileCounter <= MaxFiles
  BY <1>1, MultiAssumption DEF TypeOK
<1>3. \A f \in DOMAIN index : f \in Nat /\ index[f] \in Seq(Line)
  BY <1>1 DEF TypeOK
<1>4. \A t \in Tokens : expected[t] \in Seq(Line) /\ savedExpected[t] \in Seq(Line)
  BY <1>1 DEF TypeOK
<1>5. \A t \in DOMAIN metadata : t \in Tokens /\ metadata[t] \in Seq(Entry)
  BY <1>1 DEF TypeOK, IsEntryMap
<1>6. Saved \in Seq(MetaLine)
  BY <1>1 DEF TypeOK, Saved
<1>7. \A t \in DOMAIN LoadedMap(Saved) : LoadedMap(Saved)[t] \in Seq(Entry)
  <2>1. IsEntryMap(LoadedMap(Saved))
    BY <1>6, LoadedTypes DEF IInv, Bounded
  <2> QED
    BY <2>1 DEF IsEntryMap
<1> QED
  BY <1>1, <1>2, <1>3, <1>4, <1>5, <1>6, <1>7

\* A batch begins: a file that no entry is in is emptied or made.
LEMMA CreateIndexIInv ==
  ASSUME IInv, NEW batch, batch \subseteq Tokens, CreateIndex(batch)
  PROVE  IInv'
<1>1. /\ TypeOK /\ Saved' = Saved /\ Saved \in Seq(MetaLine)
      /\ proc = "open" /\ proc' = "open" /\ work = {} /\ ~saving /\ ~saving'
      /\ lost' = lost /\ expected' = expected /\ savedExpected' = savedExpected
      /\ metadata' = metadata /\ fileCounter' = fileCounter + 1
      /\ fileCounter \in Nat /\ fileCounter < MaxFiles
      /\ work' = batch /\ batch \cap lost = {} /\ \A t \in batch : Len(expected[t]) < MaxRows
      /\ isMetadataLoaded' = isMetadataLoaded /\ saving' = saving /\ meta' = meta /\ ends' = ends
  BY Types DEF CreateIndex, Idle, observer, Saved
<1>2. PICK now : now = index'
  OBVIOUS
<1>3. /\ DOMAIN now = DOMAIN index \cup {fileCounter}
      /\ now[fileCounter] = << >>
      /\ \A f \in DOMAIN index : f # fileCounter => now[f] = index[f]
      /\ now = [f \in DOMAIN now |-> now[f]]
  BY <1>2 DEF CreateIndex
<1>4. Grown(index, now, fileCounter)
  BY <1>1, <1>3, Types DEF Grown
<1>5. TypeOK'
  <2>1. now \in [DOMAIN now -> Seq(Line)] /\ DOMAIN now \subseteq Nat
    <3>1. \A f \in DOMAIN now : now[f] \in Seq(Line)
      <4> TAKE f \in DOMAIN now
      <4>1. CASE f = fileCounter
        BY <1>3, <4>1
      <4>2. CASE f # fileCounter
        BY <1>3, <4>2, Types
      <4> QED
        BY <4>1, <4>2
    <3> QED
      BY <1>1, <1>3, <3>1, Types
  <2>2. fileCounter' \in 0 .. MaxFiles
    BY <1>1, MultiAssumption
  <2>3. isMetadataLoaded' \in BOOLEAN /\ saving' \in BOOLEAN
    BY <1>1, Zenon DEF TypeOK
  <2>4. index' \in [DOMAIN index' -> Seq(Line)] /\ DOMAIN index' \subseteq Nat
    BY <1>2, <2>1
  <2> QED
    BY <1>1, <2>2, <2>3, <2>4 DEF TypeOK
<1>6. ASSUME NEW t \in Tokens \ lost
      PROVE  Reads(now, metadata, t, expected[t]) /\ Below(metadata, t, fileCounter + 1)
  <2>1. Reads(index, metadata, t, expected[t]) /\ Below(metadata, t, fileCounter)
    BY <1>1 DEF IInv, InMemory
  <2>2. expected[t] \in Seq(Line) /\ (t \in DOMAIN metadata => metadata[t] \in Seq(Entry))
    BY Types
  <2>3. Reads(now, metadata, t, expected[t])
    BY <1>1, <1>4, <2>1, <2>2, ReadsGrown
  <2> QED
    <3>1. fileCounter <= fileCounter + 1 /\ fileCounter + 1 \in Nat
      BY <1>1
    <3> QED
      BY <1>1, <2>1, <2>2, <2>3, <3>1, BelowMore
<1>7. InMemory'
  BY <1>1, <1>2, <1>6 DEF InMemory
<1>8. ASSUME NEW t \in Tokens \ (lost \cup Fragile)
      PROVE  /\ Reads(now, LoadedMap(Saved), t, savedExpected[t])
             /\ Below(LoadedMap(Saved), t, LoadedCounter(Saved))
             /\ Below(LoadedMap(Saved), t, fileCounter)
  <2>1. /\ Reads(index, LoadedMap(Saved), t, savedExpected[t])
        /\ Below(LoadedMap(Saved), t, LoadedCounter(Saved))
        /\ Below(LoadedMap(Saved), t, fileCounter)
    BY <1>1 DEF IInv, OnDisk, Closed
  <2>2. savedExpected[t] \in Seq(Line)
    BY Types
  <2>3. t \in DOMAIN LoadedMap(Saved) => LoadedMap(Saved)[t] \in Seq(Entry)
    BY Types
  <2> QED
    BY <1>1, <1>4, <2>1, <2>2, <2>3, ReadsGrown
<1>9. OnDisk'
  <2>1. work' # {} => Closed' = fileCounter
    BY <1>1 DEF Closed
  <2>2. work' = {} => Closed' = fileCounter + 1
    BY <1>1 DEF Closed
  <2>3. ASSUME NEW t \in Tokens \ (lost \cup Fragile)
        PROVE  Below(LoadedMap(Saved), t, Closed')
    <3>1. t \in DOMAIN LoadedMap(Saved) => LoadedMap(Saved)[t] \in Seq(Entry)
      BY Types
    <3> QED
      BY <1>1, <1>8, <2>1, <2>2, <3>1, BelowMore
  <2> QED
    BY <1>1, <1>2, <1>8, <2>3 DEF OnDisk
<1>10. Renewed' /\ NoObject'
  BY <1>1 DEF IInv, Renewed, NoObject
<1>11. Batch'
  BY <1>1, <1>2, <1>3 DEF Batch
<1>12. CutShort' /\ Bounded'
  BY <1>1 DEF IInv, CutShort, Bounded
<1> QED
  BY <1>1, <1>5, <1>7, <1>9, <1>10, <1>11, <1>12 DEF IInv

LEMMA CreateIndexFailsIInv ==
  ASSUME IInv, CreateIndexFails
  PROVE  IInv'
<1>1. /\ TypeOK /\ Saved' = Saved /\ Saved \in Seq(MetaLine) /\ index' = index
      /\ proc = "open" /\ proc' = "open" /\ work = {} /\ work' = {} /\ ~saving /\ ~saving'
      /\ lost' = lost /\ expected' = expected /\ savedExpected' = savedExpected
      /\ metadata' = metadata /\ fileCounter' = fileCounter + 1 /\ fileCounter \in Nat
      /\ Closed = fileCounter /\ Closed' = fileCounter + 1 /\ fileCounter + 1 \in 0 .. MaxFiles
      /\ isMetadataLoaded' = isMetadataLoaded /\ saving' = saving /\ meta' = meta /\ ends' = ends
  BY Types, MultiAssumption DEF CreateIndexFails, Idle, observer, Saved, Closed
<1>2. TypeOK'
  <2>1. isMetadataLoaded' \in BOOLEAN /\ saving' \in BOOLEAN
    BY <1>1, Zenon DEF TypeOK
  <2> QED
    BY <1>1, <2>1 DEF TypeOK
<1>3. InMemory'
  <2>1. ASSUME NEW t \in Tokens \ lost PROVE Below(metadata, t, fileCounter + 1)
    <3>1. t \in DOMAIN metadata => metadata[t] \in Seq(Entry)
      BY Types
    <3> QED
      BY <1>1, <3>1, BelowMore DEF IInv, InMemory
  <2> QED
    BY <1>1, <2>1 DEF IInv, InMemory
<1>4. OnDisk'
  <2>1. ASSUME NEW t \in Tokens \ (lost \cup Fragile) PROVE Below(LoadedMap(Saved), t, fileCounter + 1)
    <3>1. t \in DOMAIN LoadedMap(Saved) => LoadedMap(Saved)[t] \in Seq(Entry)
      BY Types
    <3> QED
      BY <1>1, <3>1, BelowMore DEF IInv, OnDisk
  <2> QED
    BY <1>1, <2>1 DEF IInv, OnDisk
<1>5. Renewed' /\ NoObject' /\ Batch' /\ CutShort' /\ Bounded'
  BY <1>1 DEF IInv, Renewed, NoObject, Batch, CutShort, Bounded
<1> QED
  BY <1>1, <1>2, <1>3, <1>4, <1>5 DEF IInv

\* One token of the batch: a line at the end of the file, an entry at the end of its
\* list; every other list is read as before.
LEMMA WriteTokenIInv ==
  ASSUME IInv, NEW t \in Tokens, WriteToken(t)
  PROVE  IInv'
<1>1. /\ TypeOK /\ Saved' = Saved /\ Saved \in Seq(MetaLine)
      /\ ~saving /\ ~saving' /\ t \in work /\ t \in Tokens \ lost /\ work' = work \ {t}
      /\ lost' = lost /\ savedExpected' = savedExpected
      /\ fileCounter' = fileCounter /\ fileCounter - 1 \in Nat /\ fileCounter \in Nat
      /\ fileCounter - 1 \in DOMAIN index
      /\ isMetadataLoaded' = isMetadataLoaded /\ proc' = proc /\ saving' = saving
      /\ meta' = meta /\ ends' = ends
  BY Types DEF WriteToken, Saved, IInv, Batch
<1>2. proc = "open"
  BY <1>1 DEF IInv, NoObject
<1>3. PICK last \in Nat : last = fileCounter - 1 /\ last \in DOMAIN index /\ last < fileCounter
  BY <1>1
<1>4. PICK line \in Line : line = <<t, Len(expected[t]) + 1, ends>>
  <2>1. Len(expected[t]) + 1 \in 1 .. MaxRows
    <3>1. Len(expected[t]) \in Nat
      BY Types
    <3>2. Len(expected[t]) < MaxRows
      BY <1>1 DEF IInv, Batch
    <3> QED
      BY <3>1, <3>2, MultiAssumption
  <2>2. ends \in 0 .. MaxEnds
    BY <1>1 DEF TypeOK
  <2> QED
    BY <2>1, <2>2 DEF Line
<1>5. PICK entry \in Entry : entry = NextEntry
  <2>1. Len(index[fileCounter - 1]) + 1 \in Nat
    BY <1>3, Types
  <2> QED
    BY <1>1, <2>1 DEF Entry, NextEntry
<1>6. entry.file = last /\ entry.offset = Len(index[last]) + 1
  BY <1>3, <1>5 DEF NextEntry
<1>7. PICK now : now = index'
  OBVIOUS
<1>8. /\ DOMAIN now = DOMAIN index /\ now[last] = Append(index[last], line)
      /\ \A f \in DOMAIN index : f # last => now[f] = index[f]
      /\ now \in [DOMAIN now -> Seq(Line)]
  <2>1. now = [index EXCEPT ![last] = Append(@, line)]
    BY <1>3, <1>4, <1>7 DEF WriteToken
  <2>2. index \in [DOMAIN index -> Seq(Line)] /\ index[last] \in Seq(Line)
    BY <1>1, <1>3 DEF TypeOK
  <2>3. Append(index[last], line) \in Seq(Line)
    BY <2>2
  <2> QED
    BY <1>3, <2>1, <2>2, <2>3
<1>9. index[last] \in Seq(Line)
  BY <1>3, Types
<1>10. /\ entry.offset \in DOMAIN now[last] /\ now[last][entry.offset] = line
       /\ \A o \in DOMAIN index[last] : o \in DOMAIN now[last] /\ now[last][o] = index[last][o]
  BY <1>6, <1>8, <1>9
<1>11. Grown(index, now, fileCounter)
  <2> SUFFICES ASSUME NEW f \in DOMAIN index
               PROVE  /\ f \in DOMAIN now
                      /\ \A o \in DOMAIN index[f] : o \in DOMAIN now[f] /\ now[f][o] = index[f][o]
    BY DEF Grown
  <2> QED
    BY <1>8, <1>10
<1>12. PICK entries \in Seq(Entry) :
         entries = EntriesOf(t) /\ (t \in DOMAIN metadata => entries = metadata[t])
                                /\ (t \notin DOMAIN metadata => entries = << >>)
  <2>1. << >> \in Seq(Entry)
    OBVIOUS
  <2> QED
    BY <2>1, Types DEF EntriesOf
<1>13. PICK map : map = metadata'
  OBVIOUS
<1>14. /\ DOMAIN map = DOMAIN metadata \cup {t} /\ map[t] = Append(entries, entry)
       /\ \A u \in DOMAIN metadata : u # t => map[u] = metadata[u]
       /\ map = [u \in DOMAIN map |-> map[u]]
  BY <1>5, <1>12, <1>13 DEF WriteToken
<1>15. PICK lists : lists = expected'
  OBVIOUS
<1>16. /\ lists \in [Tokens -> Seq(Line)] /\ lists[t] = Append(expected[t], line)
       /\ \A u \in Tokens : u # t => lists[u] = expected[u]
  <2>1. lists = [expected EXCEPT ![t] = Append(@, line)]
    BY <1>4, <1>15 DEF WriteToken
  <2>2. expected \in [Tokens -> Seq(Line)] /\ Append(expected[t], line) \in Seq(Line)
    BY <1>1, Types DEF TypeOK
  <2> QED
    BY <2>1, <2>2
<1>17. Append(entries, entry) \in Seq(Entry)
  OBVIOUS
<1>18. ASSUME NEW u \in DOMAIN map PROVE u \in Tokens /\ map[u] \in Seq(Entry)
  BY <1>14, <1>17, Types
<1>19. TypeOK'
  <2>1. IsEntryMap(map)
    <3>1. map \in [DOMAIN map -> Seq(Entry)]
      BY <1>14, <1>18
    <3> QED
      BY <1>18, <3>1 DEF IsEntryMap
  <2>2. isMetadataLoaded' \in BOOLEAN /\ saving' \in BOOLEAN
    BY <1>1, Zenon DEF TypeOK
  <2>3. index' \in [DOMAIN index' -> Seq(Line)] /\ DOMAIN index' \subseteq Nat
    BY <1>7, <1>8, Types
  <2> QED
    BY <1>1, <1>13, <1>15, <1>16, <2>1, <2>2, <2>3 DEF TypeOK
<1>20. ASSUME NEW u \in Tokens \ lost
       PROVE  /\ Reads(now, metadata, u, expected[u])
              /\ Below(metadata, u, fileCounter)
  <2>1. Reads(index, metadata, u, expected[u]) /\ Below(metadata, u, fileCounter)
    BY <1>2 DEF IInv, InMemory
  <2>2. expected[u] \in Seq(Line) /\ (u \in DOMAIN metadata => metadata[u] \in Seq(Entry))
    BY Types
  <2> QED
    BY <1>1, <1>11, <2>1, <2>2, ReadsGrown
<1>21. ASSUME NEW u \in Tokens \ lost, u # t
       PROVE  Reads(now, map, u, lists[u]) /\ Below(map, u, fileCounter)
  BY <1>14, <1>16, <1>20, <1>21 DEF Reads, Below
<1>22. Reads(now, map, t, lists[t]) /\ Below(map, t, fileCounter)
  <2>1. PICK old \in Seq(Line) : old = expected[t]
    BY Types
  <2>2. /\ Len(entries) = Len(old)
        /\ Finds(now, entries, old)
        /\ \A i \in DOMAIN entries : entries[i].file < fileCounter
    <3>1. CASE t \in DOMAIN metadata
      BY <1>1, <1>12, <1>20, <2>1, <3>1 DEF Reads, Finds, Below
    <3>2. CASE t \notin DOMAIN metadata
      BY <1>1, <1>12, <1>20, <2>1, <3>2 DEF Reads, Finds
    <3> QED
      BY <3>1, <3>2
  <2>3. PICK n \in Nat : n = Len(old)
    OBVIOUS
  <2>4. PICK more \in Seq(Entry) :
          /\ more = Append(entries, entry) /\ Len(more) = n + 1 /\ more[n + 1] = entry
          /\ \A i \in 1 .. n : more[i] = entries[i]
    <3>1. Len(entries) = n
      BY <2>2, <2>3
    <3>2. /\ Len(Append(entries, entry)) = n + 1
          /\ Append(entries, entry)[n + 1] = entry
      BY <3>1
    <3>3. \A i \in 1 .. n : Append(entries, entry)[i] = entries[i]
      BY <3>1
    <3> QED
      BY <1>17, <3>2, <3>3
  <2>5. PICK list \in Seq(Line) :
          /\ list = Append(old, line) /\ Len(list) = n + 1 /\ list[n + 1] = line
          /\ \A i \in 1 .. n : list[i] = old[i]
    <3>1. Append(old, line) \in Seq(Line)
      OBVIOUS
    <3>2. /\ Len(Append(old, line)) = n + 1
          /\ Append(old, line)[n + 1] = line
      BY <2>3
    <3>3. \A i \in 1 .. n : Append(old, line)[i] = old[i]
      BY <2>3
    <3> QED
      BY <3>1, <3>2, <3>3
  <2>6. \A i \in 1 .. (n + 1) : i \in 1 .. n \/ i = n + 1
    OBVIOUS
  <2>7. last \in DOMAIN now
    BY <1>3, <1>8
  <2>8. Finds(now, more, list)
    BY <1>6, <1>10, <2>2, <2>3, <2>4, <2>5, <2>6, <2>7 DEF Finds
  <2>9. \A i \in DOMAIN more : more[i].file < fileCounter
    BY <1>3, <1>6, <2>2, <2>3, <2>4, <2>6
  <2>10. list # << >>
    BY <2>5
  <2>11. map[t] = more /\ lists[t] = list /\ t \in DOMAIN map
    BY <1>14, <1>16, <2>1, <2>4, <2>5
  <2> QED
    BY <2>8, <2>9, <2>10, <2>11 DEF Reads, Below
<1>23. InMemory'
  BY <1>1, <1>7, <1>13, <1>15, <1>21, <1>22 DEF InMemory
<1>24. OnDisk'
  <2>1. PICK disk : disk = LoadedMap(Saved)
    OBVIOUS
  <2>2. ASSUME NEW u \in Tokens \ (lost \cup Fragile)
        PROVE  /\ Reads(now, disk, u, savedExpected[u])
               /\ Below(disk, u, LoadedCounter(Saved))
               /\ Below(disk, u, Closed')
    <3>1. /\ Reads(index, disk, u, savedExpected[u])
          /\ Below(disk, u, LoadedCounter(Saved))
          /\ Below(disk, u, last)
      BY <1>1, <1>2, <1>3, <2>1 DEF IInv, OnDisk, Closed
    <3>2. savedExpected[u] \in Seq(Line) /\ (u \in DOMAIN disk => disk[u] \in Seq(Entry))
      BY <2>1, Types
    <3>3. Below(disk, u, fileCounter)
      BY <1>1, <1>3, <3>1, <3>2, BelowMore
    <3>4. Reads(now, disk, u, savedExpected[u])
      BY <1>1, <1>11, <3>1, <3>2, <3>3, ReadsGrown
    <3>5. Closed' \in {last, fileCounter}
      BY <1>1, <1>3 DEF Closed
    <3> QED
      BY <3>1, <3>3, <3>4, <3>5
  <2> QED
    BY <1>1, <1>7, <2>1, <2>2 DEF OnDisk
<1>25. Renewed' /\ NoObject'
  BY <1>1, <1>2, <1>13, <1>14 DEF IInv, Renewed, NoObject
<1>26. Batch'
  <2>1. work \subseteq Tokens /\ work \cap lost = {} /\ \A u \in work : Len(expected[u]) < MaxRows
    BY <1>1 DEF IInv, Batch, TypeOK
  <2>2. ASSUME NEW u \in work' PROVE u \notin lost /\ Len(lists[u]) < MaxRows
    BY <1>1, <1>16, <2>1
  <2>3. fileCounter > 0 /\ fileCounter - 1 \in DOMAIN now
    BY <1>1, <1>8
  <2> QED
    BY <1>1, <1>7, <1>15, <2>2, <2>3 DEF Batch
<1>27. CutShort'
  BY <1>1 DEF IInv, CutShort
<1>28. Bounded'
  <2>1. IsFiniteSet(DOMAIN map)
    BY <1>14, FS_AddElement DEF IInv, Bounded
  <2> QED
    BY <1>1, <1>13, <2>1 DEF IInv, Bounded
<1> QED
  BY <1>1, <1>19, <1>23, <1>24, <1>25, <1>26, <1>27, <1>28 DEF IInv

\* Some of the lines of the tokens, whatever their order.
LEMMA TokenLinesTypes ==
  ASSUME IsEntryMap(metadata), IsFiniteSet(DOMAIN metadata), NEW order \in Orders
  PROVE  /\ TokenLines(order) \in Seq(MetaLine)
         /\ Len(TokenLines(order)) = Cardinality(DOMAIN metadata)
         /\ \A k \in DOMAIN TokenLines(order) : MarkedCount(TokenLines(order)[k]) = 0
<1>1. PICK N \in Nat : N = Cardinality(DOMAIN metadata)
  BY FS_CardinalityType
<1>2. order \in [1 .. N -> DOMAIN metadata]
  BY <1>1 DEF Orders, Bijection, Surjection, Injection, IsInjective
<1>3. PICK middle : middle = TokenLines(order)
  OBVIOUS
<1>4. middle = [k \in 1 .. N |-> TokenLine(order[k], metadata[order[k]])]
  BY <1>2, <1>3 DEF TokenLines
<1>5. ASSUME NEW k \in 1 .. N PROVE middle[k] \in MetaLine /\ MarkedCount(middle[k]) = 0
  <2>1. order[k] \in Tokens /\ metadata[order[k]] \in Seq(Entry)
    BY <1>2 DEF IsEntryMap
  <2>2. TokenLine(order[k], metadata[order[k]]) \in MetaLine
    BY <2>1 DEF TokenLine, MetaLine
  <2>3. MarkedCount(TokenLine(order[k], metadata[order[k]])) = 0
    BY DEF TokenLine, MarkedCount
  <2> QED
    BY <1>4, <2>2, <2>3
<1>6. middle \in [1 .. N -> MetaLine]
  BY <1>4, <1>5
<1>7. middle \in Seq(MetaLine) /\ Len(middle) = N /\ DOMAIN middle = 1 .. N
  BY <1>6
<1> QED
  BY <1>1, <1>3, <1>5, <1>7

\* The file is cut: some lines of it are left, from the front.
LEMMA TruncateMetaIInv ==
  ASSUME IInv, TruncateMeta
  PROVE  IInv'
<1>1. /\ TypeOK /\ Saved \in Seq(MetaLine) /\ CanSave /\ meta' = Kept
      /\ proc = "open" /\ proc' = "open" /\ work = {} /\ work' = {} /\ ~saving /\ saving'
      /\ lost' = lost /\ expected' = expected /\ savedExpected' = savedExpected
      /\ metadata' = metadata /\ fileCounter' = fileCounter /\ index' = index
      /\ isMetadataLoaded' = isMetadataLoaded /\ ends' = ends
  BY Types DEF TruncateMeta, Idle, observer
<1>2. PICK kept : kept = Saved'
  OBVIOUS
<1>3. /\ kept \in Seq(MetaLine)
      /\ meta' # NoMeta => meta' \in Seq(MetaLine)
      /\ \A i \in DOMAIN kept : i \in DOMAIN Saved /\ kept[i] = Saved[i]
  <2>1. CASE meta = NoMeta
    BY <1>1, <1>2, <2>1 DEF Saved, Kept
  <2>2. CASE meta # NoMeta
    <3>1. PICK top : top = F!Max(Marks(Saved))
      OBVIOUS
    <3>2. top \in DOMAIN Saved
      BY <1>1, <2>2, <3>1, LastPlace DEF CanSave, Marks
    <3>3. PICK lines : lines = SubSeq(Saved, 1, top - 1)
      OBVIOUS
    <3>4. /\ lines \in Seq(MetaLine)
          /\ \A i \in DOMAIN lines : i \in DOMAIN Saved /\ lines[i] = Saved[i]
      BY <1>1, <3>2, <3>3
    <3>5. meta' = lines
      BY <1>1, <2>2, <3>1, <3>3 DEF Kept
    <3>6. Saved' = lines
      BY <3>4, <3>5, NoMetaAssumption DEF Saved
    <3> QED
      BY <1>2, <3>4, <3>5, <3>6
  <2> QED
    BY <2>1, <2>2
<1>4. TypeOK'
  <2>1. isMetadataLoaded' \in BOOLEAN /\ saving' \in BOOLEAN
    BY <1>1, Zenon DEF TypeOK, TruncateMeta
  <2> QED
    BY <1>1, <1>3, <2>1 DEF TypeOK
<1>5. InMemory' /\ OnDisk'
  BY <1>1 DEF IInv, InMemory, OnDisk
<1>6. Renewed'
  <2>1. \A t : LinesOf(kept, t) \subseteq LinesOf(Saved, t)
    BY <1>3 DEF LinesOf, Marks
  <2>2. \A t \in Tokens \ (lost \cup Fragile) : LinesOf(kept, t) # {} => t \in DOMAIN metadata
    BY <1>1, <2>1 DEF IInv, Renewed
  <2> QED
    BY <1>1, <1>2, <2>2 DEF Renewed
<1>7. NoObject' /\ Batch' /\ CutShort'
  BY <1>1 DEF NoObject, Batch, CutShort
<1>8. Bounded'
  <2>1. \A i \in DOMAIN kept : MarkedCount(kept[i]) <= MaxFiles
    BY <1>3 DEF IInv, Bounded
  <2> QED
    BY <1>1, <1>2, <2>1 DEF IInv, Bounded
<1> QED
  BY <1>1, <1>4, <1>5, <1>6, <1>7, <1>8 DEF IInv

\* The lists and the counter are appended: what a loader finds is what is in memory.
LEMMA AppendMetaIInv ==
  ASSUME IInv, AppendMeta
  PROVE  IInv'
<1>1. /\ TypeOK /\ Saved \in Seq(MetaLine)
      /\ saving /\ saving' = FALSE
      /\ lost' = lost /\ expected' = expected /\ savedExpected' = expected
      /\ metadata' = metadata /\ fileCounter' = fileCounter /\ index' = index /\ work' = work
      /\ isMetadataLoaded' = isMetadataLoaded /\ ends' = ends /\ proc' = proc
  BY Types DEF AppendMeta
<1>2. proc = "open" /\ work = {}
  BY <1>1 DEF IInv, NoObject, Batch
<1>3. PICK order \in Orders : meta' = Appended(Saved, order, fileCounter)
  BY DEF AppendMeta, Appended
<1>4. PICK new : new = Appended(Saved, order, fileCounter)
  OBVIOUS
<1>5. IsEntryMap(metadata) /\ IsFiniteSet(DOMAIN metadata) /\ fileCounter \in Nat
  BY <1>1, Types DEF IInv, Bounded, TypeOK
<1>6. /\ new \in Seq(MetaLine)
      /\ Marks(new) # {} /\ LoadedCounter(new) = fileCounter
      /\ \A t \in DOMAIN metadata \ Fragile :
           t \in DOMAIN LoadedMap(new) /\ LoadedMap(new)[t] = metadata[t]
      /\ \A t \in Tokens \ DOMAIN metadata : LinesOf(new, t) # {} => LinesOf(Saved, t) # {}
      /\ \A i \in DOMAIN new : \/ i \in DOMAIN Saved /\ new[i] = Saved[i]
                               \/ MarkedCount(new[i]) \in {0, fileCounter}
  <2>1. Restores(new, Saved, fileCounter)
    BY <1>1, <1>4, <1>5, LoadedAfterSave
  <2> QED
    BY <2>1 DEF Restores
<1>7. meta' = new /\ Saved' = new
  <2>1. meta' = new
    BY <1>3, <1>4
  <2>2. new # NoMeta
    BY <1>6, NoMetaAssumption
  <2> QED
    BY <2>1, <2>2 DEF Saved
<1>8. TypeOK'
  <2>1. isMetadataLoaded' \in BOOLEAN /\ saving' \in BOOLEAN
    BY <1>1, Zenon DEF TypeOK
  <2> QED
    BY <1>1, <1>6, <1>7, <2>1 DEF TypeOK
<1>9. InMemory'
  BY <1>1 DEF IInv, InMemory
<1>10. ASSUME NEW t \in Tokens \ (lost \cup Fragile)
       PROVE  LinesOf(new, t) # {} => t \in DOMAIN metadata
  BY <1>2, <1>6 DEF IInv, Renewed
<1>11. Renewed'
  BY <1>1, <1>7, <1>10 DEF Renewed
<1>12. ASSUME NEW t \in Tokens \ (lost \cup Fragile)
       PROVE  /\ Reads(index, LoadedMap(new), t, expected[t])
              /\ Below(LoadedMap(new), t, fileCounter)
  <2>1. Reads(index, metadata, t, expected[t]) /\ Below(metadata, t, fileCounter)
    BY <1>2 DEF IInv, InMemory
  <2>2. t \in DOMAIN LoadedMap(new) => t \in DOMAIN metadata
    BY <1>10 DEF LoadedMap
  <2>3. CASE t \in DOMAIN metadata
    BY <1>6, <2>1, <2>3 DEF Reads, Below
  <2>4. CASE t \notin DOMAIN metadata
    BY <2>1, <2>2, <2>4 DEF Reads, Below
  <2> QED
    BY <2>3, <2>4
<1>13. OnDisk'
  <2>1. Closed' = fileCounter
    BY <1>1, <1>2 DEF Closed
  <2> QED
    BY <1>1, <1>6, <1>7, <1>12, <2>1 DEF OnDisk
<1>14. NoObject' /\ Batch' /\ CutShort'
  BY <1>1, <1>2, <1>6, <1>7 DEF NoObject, Batch, CutShort
<1>15. Bounded'
  <2>1. \A i \in DOMAIN new : MarkedCount(new[i]) <= MaxFiles
    BY <1>5, <1>6, Types, MultiAssumption DEF IInv, Bounded
  <2> QED
    BY <1>1, <1>5, <1>7, <2>1 DEF Bounded
<1> QED
  BY <1>1, <1>8, <1>9, <1>11, <1>13, <1>14, <1>15 DEF IInv

\* A save that writes nowhere happens only to a file a save was cut short on.
LEMMA SaveNothingIInv ==
  ASSUME IInv, SaveNothing
  PROVE  IInv'
<1>1. /\ TypeOK /\ Saved' = Saved /\ lost = Tokens
      /\ proc = "open" /\ work = {} /\ ~saving
      /\ lost' = lost /\ expected' = expected /\ savedExpected' = expected
      /\ metadata' = metadata /\ fileCounter' = fileCounter /\ index' = index /\ work' = work
      /\ isMetadataLoaded' = isMetadataLoaded /\ ends' = ends /\ proc' = proc
      /\ meta' = meta /\ saving' = saving
  BY Types DEF SaveNothing, Idle, object, Saved, CanSave, IInv, CutShort
<1>2. TypeOK'
  <2>1. isMetadataLoaded' \in BOOLEAN /\ saving' \in BOOLEAN
    BY <1>1, Zenon DEF TypeOK
  <2> QED
    BY <1>1, <2>1 DEF TypeOK
<1>3. InMemory' /\ OnDisk' /\ Renewed'
  BY <1>1 DEF InMemory, OnDisk, Renewed
<1>4. NoObject' /\ Batch' /\ CutShort' /\ Bounded'
  BY <1>1 DEF IInv, NoObject, Batch, CutShort, Bounded
<1> QED
  BY <1>1, <1>2, <1>3, <1>4 DEF IInv

\* The object is gone: the observer expects what was saved, and loses what cannot be
\* read back.
LEMMA DestroyIInv ==
  ASSUME IInv, Destroy
  PROVE  IInv'
<1>1. /\ TypeOK /\ Saved' = Saved /\ Saved \in Seq(MetaLine)
      /\ proc = "open" /\ proc' = "none" /\ work = {} /\ work' = {} /\ ~saving /\ saving' = FALSE
      /\ lost' = lost \cup Unreadable /\ expected' = savedExpected /\ savedExpected' = savedExpected
      /\ metadata' = Empty /\ fileCounter' = 0 /\ index' = index
      /\ isMetadataLoaded' = isMetadataLoaded /\ ends' = ends /\ meta' = meta
  BY Types DEF Destroy, Idle, Forget, Saved
<1>2. DOMAIN metadata' = {} /\ IsFiniteSet(DOMAIN metadata') /\ metadata' \in [{} -> Seq(Entry)]
  BY <1>1, FS_EmptySet DEF Empty
<1>3. TypeOK'
  <2>1. isMetadataLoaded' \in BOOLEAN /\ saving' \in BOOLEAN
    BY <1>1, Zenon DEF TypeOK
  <2> QED
    BY <1>1, <1>2, <2>1, MultiAssumption DEF TypeOK, IsEntryMap, Unreadable, SavedTokens
<1>4. InMemory' /\ Renewed' /\ Batch'
  BY <1>1 DEF InMemory, Renewed, Batch
<1>5. OnDisk'
  BY <1>1 DEF IInv, OnDisk
<1>6. NoObject'
  <2>1. Unreadable' = Unreadable
    BY <1>1 DEF Unreadable, SavedTokens
  <2> QED
    BY <1>1, <2>1 DEF NoObject
<1>7. CutShort' /\ Bounded'
  BY <1>1, <1>2 DEF IInv, CutShort, Bounded, TypeOK, Unreadable, SavedTokens
<1> QED
  BY <1>1, <1>3, <1>4, <1>5, <1>6, <1>7 DEF IInv

\* The process ends.  The file that was being written may be cut: no saved entry is in
\* it.  A metadata file that was being written has lines of tokens at its end.
LEMMA ProcessEndsIInv ==
  ASSUME IInv, ProcessEnds
  PROVE  IInv'
<1>1. /\ TypeOK /\ Saved \in Seq(MetaLine)
      /\ proc # "down" /\ proc' = "down" /\ work' = {} /\ saving' = FALSE
      /\ lost' = (IF saving THEN Tokens ELSE lost \cup Unreadable)
      /\ expected' = savedExpected /\ savedExpected' = savedExpected
      /\ metadata' = Empty /\ fileCounter' = 0
      /\ isMetadataLoaded' = FALSE /\ ends < MaxEnds /\ ends' = ends + 1
      /\ index' \in CutIndex /\ meta' \in CutMeta
  BY Types DEF ProcessEnds, Forget
<1>2. DOMAIN metadata' = {} /\ IsFiniteSet(DOMAIN metadata') /\ metadata' \in [{} -> Seq(Entry)]
  BY <1>1, FS_EmptySet DEF Empty
<1>3. PICK now : now = index'
  OBVIOUS
<1>4. /\ DOMAIN now \subseteq Nat /\ now \in [DOMAIN now -> Seq(Line)]
      /\ work = {} => now = index
      /\ work # {} => Grown(index, now, fileCounter - 1)
  <2>1. index \in [DOMAIN index -> Seq(Line)] /\ DOMAIN index \subseteq Nat
    BY <1>1 DEF TypeOK
  <2>2. CASE work = {}
    BY <1>1, <1>3, <2>1, <2>2 DEF CutIndex
  <2>3. CASE work # {}
    <3>1. PICK last \in DOMAIN index : last = fileCounter - 1
      BY <2>3 DEF IInv, Batch
    <3>2. PICK n \in 0 .. Len(index[last]) : now = [index EXCEPT ![last] = SubSeq(@, 1, n)]
      BY <1>1, <1>3, <2>3, <3>1 DEF CutIndex
    <3>3. SubSeq(index[last], 1, n) \in Seq(Line)
      BY <2>1
    <3>4. now \in [DOMAIN now -> Seq(Line)] /\ DOMAIN now = DOMAIN index
      BY <2>1, <3>2, <3>3
    <3>5. ASSUME NEW f \in DOMAIN index, f < last PROVE now[f] = index[f]
      BY <2>1, <3>2, <3>5
    <3>6. Grown(index, now, last)
      BY <3>4, <3>5 DEF Grown
    <3> QED
      BY <2>1, <2>3, <3>1, <3>4, <3>6
  <2> QED
    BY <2>2, <2>3
<1>5. /\ meta' # NoMeta => meta' \in Seq(MetaLine)
      /\ ~saving => meta' = meta
      /\ Saved' \in Seq(MetaLine)
      /\ \A i \in DOMAIN Saved' : MarkedCount(Saved'[i]) <= MaxFiles
  <2>1. CASE ~saving
    <3>1. meta' = meta
      BY <1>1, <2>1 DEF CutMeta
    <3>2. Saved' = Saved
      BY <3>1 DEF Saved
    <3> QED
      BY <1>1, <2>1, <3>1, <3>2 DEF TypeOK, IInv, Bounded
  <2>2. CASE saving
    <3>1. PICK order \in Orders, n \in 0 .. Cardinality(DOMAIN metadata) :
            meta' = Saved \o SubSeq(TokenLines(order), 1, n)
      BY <1>1, <2>2 DEF CutMeta
    <3>2. IsEntryMap(metadata) /\ IsFiniteSet(DOMAIN metadata)
      BY <1>1 DEF IInv, Bounded, TypeOK
    <3>3. PICK middle \in Seq(MetaLine) :
            /\ middle = TokenLines(order) /\ Len(middle) = Cardinality(DOMAIN metadata)
            /\ \A k \in DOMAIN middle : MarkedCount(middle[k]) = 0
      BY <3>2, TokenLinesTypes
    <3>4. Cardinality(DOMAIN metadata) \in Nat
      BY <3>2, FS_CardinalityType
    <3>5. PICK part \in Seq(MetaLine) :
            /\ part = SubSeq(middle, 1, n)
            /\ \A k \in DOMAIN part : MarkedCount(part[k]) = 0
      <4>1. PICK cut : cut = SubSeq(middle, 1, n)
        OBVIOUS
      <4>2. n \in Nat /\ n <= Len(middle)
        BY <3>3, <3>4
      <4>3. cut \in Seq(MetaLine) /\ \A k \in DOMAIN cut : k \in DOMAIN middle /\ cut[k] = middle[k]
        BY <4>1, <4>2
      <4> QED
        BY <3>3, <4>1, <4>3
    <3>6. PICK lines \in Seq(MetaLine) :
            /\ lines = Saved
            /\ \A k \in DOMAIN lines : MarkedCount(lines[k]) <= MaxFiles
      BY <1>1 DEF IInv, Bounded
    <3>7. PICK new \in Seq(MetaLine) :
            /\ new = lines \o part
            /\ Len(new) = Len(lines) + Len(part)
            /\ \A i \in 1 .. Len(lines) + Len(part) :
                 new[i] = IF i <= Len(lines) THEN lines[i] ELSE part[i - Len(lines)]
      <4>1. PICK both : both = lines \o part
        OBVIOUS
      <4>2. /\ both \in Seq(MetaLine) /\ Len(both) = Len(lines) + Len(part)
            /\ \A i \in 1 .. Len(lines) + Len(part) :
                 both[i] = IF i <= Len(lines) THEN lines[i] ELSE part[i - Len(lines)]
        BY <4>1, ConcatProperties
      <4> QED
        BY <4>1, <4>2
    <3>8. ASSUME NEW i \in DOMAIN new PROVE MarkedCount(new[i]) <= MaxFiles
      <4>1. i \in 1 .. Len(lines) + Len(part)
        BY <3>7
      <4>2. CASE i <= Len(lines)
        BY <3>6, <3>7, <4>1, <4>2
      <4>3. CASE i > Len(lines)
        <5>1. i - Len(lines) \in DOMAIN part /\ new[i] = part[i - Len(lines)]
          BY <3>7, <4>1, <4>3
        <5> QED
          BY <3>5, <5>1, MultiAssumption
      <4> QED
        BY <4>1, <4>2, <4>3
    <3>9. meta' = new /\ new # NoMeta
      BY <3>1, <3>3, <3>5, <3>6, <3>7, NoMetaAssumption
    <3>10. Saved' = new
      BY <3>9 DEF Saved
    <3> QED
      BY <2>2, <3>8, <3>9, <3>10
  <2> QED
    BY <2>1, <2>2
<1>6. TypeOK'
  <2>1. isMetadataLoaded' \in BOOLEAN /\ saving' \in BOOLEAN
    BY <1>1, Zenon
  <2>2. lost' \subseteq Tokens /\ ends' \in 0 .. MaxEnds
    BY <1>1, MultiAssumption DEF TypeOK, Unreadable, SavedTokens
  <2> QED
    BY <1>1, <1>2, <1>3, <1>4, <1>5, <2>1, <2>2, MultiAssumption DEF TypeOK, IsEntryMap
<1>7. InMemory' /\ Renewed' /\ Batch'
  BY <1>1 DEF InMemory, Renewed, Batch
<1>8. OnDisk'
  <2>1. CASE saving
    BY <1>1, <2>1 DEF OnDisk
  <2>2. CASE ~saving
    <3>1. Saved' = Saved
      BY <1>5, <2>2 DEF Saved
    <3>2. PICK disk : disk = LoadedMap(Saved)
      OBVIOUS
    <3>3. ASSUME NEW t \in Tokens \ (lost' \cup Fragile)
          PROVE  /\ Reads(now, disk, t, savedExpected[t])
                 /\ Below(disk, t, LoadedCounter(Saved))
      <4>1. /\ Reads(index, disk, t, savedExpected[t])
            /\ Below(disk, t, LoadedCounter(Saved))
            /\ proc = "open" => Below(disk, t, Closed)
        BY <1>1, <2>2, <3>2 DEF IInv, OnDisk
      <4>2. CASE work = {}
        BY <1>4, <4>1, <4>2
      <4>3. CASE work # {}
        <5>1. proc = "open" /\ fileCounter > 0
          BY <4>3 DEF IInv, NoObject, Batch
        <5>2. fileCounter - 1 \in Nat /\ Below(disk, t, fileCounter - 1)
          BY <4>1, <4>3, <5>1, Types DEF Closed
        <5>3. savedExpected[t] \in Seq(Line) /\ (t \in DOMAIN disk => disk[t] \in Seq(Entry))
          BY <3>2, Types
        <5> QED
          BY <1>4, <4>1, <4>3, <5>2, <5>3, ReadsGrown
      <4> QED
        BY <4>2, <4>3
    <3> QED
      BY <1>1, <1>3, <3>1, <3>2, <3>3 DEF OnDisk
  <2> QED
    BY <2>1, <2>2
<1>9. NoObject'
  <2>1. Unreadable' = Unreadable /\ Unreadable \subseteq Tokens
    BY <1>1 DEF Unreadable, SavedTokens
  <2> QED
    BY <1>1, <2>1 DEF NoObject
<1>10. CutShort'
  <2>1. CASE saving
    BY <1>1, <2>1 DEF CutShort
  <2>2. CASE ~saving
    <3>1. Saved' = Saved /\ meta' = meta
      BY <1>5, <2>2 DEF Saved
    <3> QED
      BY <1>1, <2>2, <3>1 DEF IInv, CutShort, TypeOK, Unreadable, SavedTokens
  <2> QED
    BY <2>1, <2>2
<1>11. Bounded'
  BY <1>2, <1>5 DEF Bounded
<1> QED
  BY <1>1, <1>6, <1>7, <1>8, <1>9, <1>10, <1>11 DEF IInv

-----------------------------------------------------------------------------
LEMMA NextIInv ==
  ASSUME IInv, [Next]_vars
  PROVE  IInv'
<1>1. CASE Construct
  BY <1>1, ConstructIInv
<1>2. ASSUME NEW batch \in {b \in SUBSET Tokens : Cardinality(b) \in 1 .. MaxBatch}, CreateIndex(batch)
      PROVE  IInv'
  <2>1. batch \subseteq Tokens
    OBVIOUS
  <2> QED
    BY <1>2, <2>1, CreateIndexIInv
<1>3. CASE CreateIndexFails
  BY <1>3, CreateIndexFailsIInv
<1>4. ASSUME NEW t \in Tokens, WriteToken(t) PROVE IInv'
  BY <1>4, WriteTokenIInv
<1>5. CASE TruncateMeta
  BY <1>5, TruncateMetaIInv
<1>6. CASE AppendMeta
  BY <1>6, AppendMetaIInv
<1>7. CASE SaveNothing
  BY <1>7, SaveNothingIInv
<1>8. CASE Destroy
  BY <1>8, DestroyIInv
<1>9. CASE ProcessEnds
  BY <1>9, ProcessEndsIInv
<1>10. CASE UNCHANGED vars
  <2>1. /\ isMetadataLoaded' = isMetadataLoaded /\ proc' = proc /\ metadata' = metadata
        /\ fileCounter' = fileCounter /\ work' = work /\ saving' = saving /\ index' = index
        /\ meta' = meta /\ expected' = expected /\ savedExpected' = savedExpected
        /\ lost' = lost /\ ends' = ends
    BY <1>10 DEF vars, object, observer
  <2>2. Saved' = Saved /\ Unreadable' = Unreadable /\ Closed' = Closed
    BY <2>1 DEF Saved, Unreadable, SavedTokens, Closed
  <2>3. TypeOK'
    BY <2>1, Zenon DEF IInv, TypeOK
  <2>4. InMemory' /\ OnDisk' /\ Renewed' /\ NoObject' /\ Batch' /\ CutShort' /\ Bounded'
    BY <2>1, <2>2 DEF IInv, InMemory, OnDisk, Renewed, NoObject, Batch, CutShort, Bounded
  <2> QED
    BY <2>1, <2>3, <2>4 DEF IInv
<1> QED
  BY <1>1, <1>2, <1>3, <1>4, <1>5, <1>6, <1>7, <1>8, <1>9, <1>10 DEF Next

-----------------------------------------------------------------------------
\* The storage starts and stays as IInv describes it.
THEOREM Invariance == Spec => []IInv
BY InitIInv, NextIInv, PTL DEF Spec

\* What the members, the files and the lists of the observer can be.  (The members of
\* MultiFileIndexStorage, multiFileIndexStorage.h:22-31, and what is written of them.)
THEOREM TypeCorrect == Spec => []TypeOK
<1>1. IInv => TypeOK
  BY DEF IInv
<1> QED
  BY <1>1, Invariance, PTL

\* For every batch, every bound and every order of saves, second objects and ends of the
\* process: createIndex never opens a file that a token outside `lost` has entries in,
\* with the counter in memory or with the one the next process loads.
THEOREM NumbersNotReused == Spec => []FilesNotReused
<1>1. ASSUME IInv PROVE FilesNotReused
  <2>1. Ahead(metadata, fileCounter)
    <3> SUFFICES ASSUME NEW t \in DOMAIN metadata \ lost, NEW i \in DOMAIN metadata[t]
                 PROVE  metadata[t][i].file < fileCounter
      BY DEF Ahead
    <3>1. proc = "open"
      BY <1>1 DEF IInv, NoObject, Empty
    <3>2. t \in Tokens
      BY <1>1, Types
    <3> QED
      BY <1>1, <3>1, <3>2 DEF IInv, InMemory, Below
  <2>2. ASSUME ~saving PROVE Ahead(LoadedMap(Saved), LoadedCounter(Saved))
    <3> SUFFICES ASSUME NEW t \in DOMAIN LoadedMap(Saved) \ lost, NEW i \in DOMAIN LoadedMap(Saved)[t]
                 PROVE  LoadedMap(Saved)[t][i].file < LoadedCounter(Saved)
      BY DEF Ahead
    <3>1. t \in Tokens \ (lost \cup Fragile)
      <4>1. t \in Tokens
        BY DEF LoadedMap
      <4>2. t \notin Fragile
        BY <1>1, Types, LoadedTypes DEF IInv, Bounded
      <4> QED
        BY <4>1, <4>2
    <3> QED
      BY <1>1, <2>2, <3>1 DEF IInv, OnDisk, Below
  <2> QED
    BY <2>1, <2>2 DEF FilesNotReused
<1> QED
  BY <1>1, Invariance, PTL

\* What getRawIndex returns for a token outside `lost`, also before the first object of a
\* process has loaded anything.
LEMMA ReadsExpected ==
  ASSUME IInv, NEW t \in Tokens \ lost
  PROVE  View(t) = expected[t]
<1>1. expected[t] \in Seq(Line)
  BY Types
<1>2. Reads(index, Map, t, expected[t]) /\ (t \in DOMAIN Map => Map[t] \in Seq(Entry))
  <2>1. CASE proc = "open"
    BY <2>1, Types DEF IInv, InMemory, Map
  <2>2. CASE proc # "open"
    <3>1. ~saving /\ expected = savedExpected /\ Unreadable \subseteq lost
      BY <2>2 DEF IInv, NoObject
    <3>2. Map = LoadedMap(Saved)
      BY <2>2 DEF Map
    <3>3. CASE t \notin Fragile
      BY <3>1, <3>2, <3>3, Types DEF IInv, OnDisk
    <3>4. CASE t \in Fragile
      <4>1. expected[t] = << >>
        BY <3>1, <3>4 DEF Unreadable, SavedTokens, Fragile
      <4>2. t \notin DOMAIN Map
        BY <3>2, <3>4, Types, LoadedTypes DEF IInv, Bounded
      <4> QED
        BY <4>1, <4>2 DEF Reads
    <3> QED
      BY <3>3, <3>4
  <2> QED
    BY <2>1, <2>2
<1> QED
  BY <1>1, <1>2, ViewShowsList

\* For every set of tokens, every batch and every bound: a token outside `lost` reads
\* back exactly the batches indexed for it, in order, through saves, reloads, second
\* objects and the end of the process at any point.
THEOREM ListsReadBack == Spec => []ListsKept
<1>1. IInv => ListsKept
  BY ReadsExpected DEF ListsKept
<1> QED
  BY <1>1, Invariance, PTL

-----------------------------------------------------------------------------
\* What the promise calls postings: for a token that is not lost, what was indexed.
Postings == Undamaged([t \in Tokens |-> View(t)])
PostingsExpected == Postings = Undamaged(expected)

LEMMA PostingsAreExpected == IInv => PostingsExpected
BY ReadsExpected DEF PostingsExpected, Postings, Undamaged

LEMMA PostingsStayExpected == IInv' => PostingsExpected'
BY PostingsAreExpected, PTL

LEMMA InitPromise == Init => Promise!Init
<1> SUFFICES ASSUME Init PROVE Promise!Init
  OBVIOUS
<1>1. Postings = [t \in Tokens |-> << >>]
  <2>1. Postings = Undamaged(expected)
    BY InitIInv, PostingsAreExpected DEF PostingsExpected
  <2> QED
    BY <2>1 DEF Init, Undamaged
<1>2. Undamaged(savedExpected) = [t \in Tokens |-> << >>]
  BY DEF Init, Undamaged
<1>3. AtRisk \ lost = {}
  BY MultiAssumption DEF Init, AtRisk, Fragile
<1> QED
  BY <1>1, <1>2, <1>3 DEF Promise!Init, Postings

\* A step of the storage that leaves lists and risks as they are is none of the promise.
LEMMA Stutters ==
  ASSUME IInv, IInv', expected' = expected, savedExpected' = savedExpected, lost' = lost,
         AtRisk' \ lost = AtRisk \ lost
  PROVE  UNCHANGED Promise!vars
<1>1. Postings' = Postings
  BY PostingsAreExpected, PostingsStayExpected DEF PostingsExpected, Undamaged
<1>2. Undamaged(savedExpected)' = Undamaged(savedExpected)
  BY DEF Undamaged
<1> QED
  BY <1>1, <1>2 DEF Promise!vars, Postings

\* A restart: everyone starts from what was saved, but for those newly lost, who were
\* at risk.
LEMMA Restarts ==
  ASSUME IInv, IInv', expected' = savedExpected, savedExpected' = savedExpected,
         lost \subseteq lost', lost' \ lost \subseteq AtRisk
  PROVE  Promise!Restart
<1>1. Postings' = [t \in Tokens |-> IF t \in lost' THEN NoMeta ELSE savedExpected[t]]
  BY PostingsStayExpected DEF PostingsExpected, Undamaged
<1>2. Undamaged(savedExpected)' = [t \in Tokens |-> IF t \in lost' THEN NoMeta ELSE savedExpected[t]]
  BY DEF Undamaged
<1>3. PICK hit : hit = lost' \ lost
  OBVIOUS
<1>4. hit \in SUBSET (AtRisk \ lost)
  BY <1>3
<1>5. Postings' = [t \in Tokens |-> IF t \in hit THEN NoMeta ELSE Undamaged(savedExpected)[t]]
  BY <1>1, <1>3 DEF Undamaged
<1>6. Undamaged(savedExpected)' = Postings'
  BY <1>1, <1>2
<1>7. AtRisk' \ lost' \subseteq Tokens
  BY MultiAssumption DEF AtRisk, SavedTokens, Fragile
<1> QED
  BY <1>4, <1>5, <1>6, <1>7 DEF Promise!Restart, Postings

\* The steps of the storage, as steps of the promise.
LEMMA ConstructPromise ==
  ASSUME IInv, IInv', Construct
  PROVE  [Promise!Next]_Promise!vars
<1>1. /\ expected' = expected /\ savedExpected' = savedExpected
      /\ ~saving /\ ~saving' /\ proc' = "open" /\ expected = savedExpected
  BY DEF Construct, IInv, NoObject
<1>2. CASE isMetadataLoaded
  <2>1. proc = "none" /\ lost' = lost \cup SavedTokens
    BY <1>2 DEF Construct, IInv
  <2>2. AtRisk = SavedTokens
    BY <1>1, <2>1 DEF AtRisk
  <2>3. lost' \ lost \subseteq AtRisk /\ lost \subseteq lost'
    BY <2>1, <2>2
  <2>4. Promise!Restart
    BY <1>1, <2>3, Restarts
  <2> QED
    BY <2>4 DEF Promise!Next
<1>3. CASE ~isMetadataLoaded
  <2>1. proc = "down" /\ lost' = lost
    BY <1>3 DEF Construct, IInv
  <2>2. AtRisk' = AtRisk
    BY <1>1, <2>1 DEF AtRisk
  <2> QED
    BY <1>1, <2>1, <2>2, Stutters
<1> QED
  BY <1>2, <1>3

LEMMA WriteTokenPromise ==
  ASSUME IInv, IInv', NEW t \in Tokens, WriteToken(t)
  PROVE  Promise!Index(t)
<1>1. /\ t \in Tokens \ lost /\ lost' = lost /\ savedExpected' = savedExpected
      /\ ~saving /\ ~saving' /\ proc' = proc /\ proc = "open"
  BY DEF WriteToken, IInv, Batch, NoObject
<1>2. PICK line \in Line : line = <<t, Len(expected[t]) + 1, ends>>
  <2>1. Len(expected[t]) \in Nat /\ Len(expected[t]) < MaxRows /\ ends \in 0 .. MaxEnds
    BY Types DEF IInv, Batch, WriteToken, TypeOK
  <2>2. Len(expected[t]) + 1 \in 1 .. MaxRows
    BY <2>1, MultiAssumption
  <2> QED
    BY <2>1, <2>2 DEF Line
<1>3. PICK old \in Seq(Line) : old = expected[t]
  BY Types
<1>4. expected' = [expected EXCEPT ![t] = Append(old, line)] /\ expected \in [Tokens -> Seq(Line)]
  BY <1>2, <1>3, Types DEF WriteToken, TypeOK
<1>5. PICK list : list = Append(old, line)
  OBVIOUS
<1>6. /\ list \in Seq(Line) /\ Len(list) = Len(old) + 1
      /\ SubSeq(list, 1, Len(old)) = old
  BY <1>5
<1>7. Postings[t] = old /\ old # NoMeta
  BY <1>1, <1>3, PostingsAreExpected, NoMetaAssumption DEF PostingsExpected, Undamaged
<1>8. Postings' = [Postings EXCEPT ![t] = list] /\ Postings'[t] = list
  <2>1. Postings = Undamaged(expected) /\ Postings' = Undamaged(expected)'
    BY PostingsAreExpected, PostingsStayExpected DEF PostingsExpected
  <2>2. Undamaged(expected)' = [u \in Tokens |-> IF u \in lost THEN NoMeta ELSE expected'[u]]
    BY <1>1 DEF Undamaged
  <2> QED
    BY <1>1, <1>4, <1>5, <2>1, <2>2 DEF Undamaged
<1>9. AtRisk' \ lost' \subseteq (AtRisk \ lost) \cup {t}
  <2>1. \A u \in Tokens : u # t => expected'[u] = expected[u]
    BY <1>4
  <2> QED
    BY <1>1, <2>1, MultiAssumption DEF AtRisk, Fragile
<1>10. Undamaged(savedExpected)' = Undamaged(savedExpected)
  BY <1>1 DEF Undamaged
<1>11. Len(list) - Len(Postings[t]) \in 1 .. 1 /\ SubSeq(list, 1, Len(Postings[t])) = Postings[t]
  BY <1>6, <1>7
<1> QED
  BY <1>6, <1>7, <1>8, <1>9, <1>10, <1>11 DEF Promise!Index, Postings

LEMMA TruncateMetaPromise ==
  ASSUME IInv, IInv', TruncateMeta
  PROVE  Promise!Expose
<1>1. /\ expected' = expected /\ savedExpected' = savedExpected /\ lost' = lost
      /\ saving' = TRUE /\ proc' = "open"
  BY DEF TruncateMeta, Idle, observer
<1>2. Postings' = Postings
  BY <1>1, PostingsAreExpected, PostingsStayExpected DEF PostingsExpected, Undamaged
<1>3. Undamaged(savedExpected)' = Undamaged(savedExpected)
  BY <1>1 DEF Undamaged
<1>4. AtRisk' = Tokens
  BY <1>1 DEF AtRisk
<1> QED
  BY <1>2, <1>3, <1>4 DEF Promise!Expose, Postings

LEMMA AppendMetaPromise ==
  ASSUME IInv, IInv', AppendMeta
  PROVE  [Promise!Next]_Promise!vars
<1>1. /\ expected' = expected /\ savedExpected' = expected /\ lost' = lost
      /\ saving /\ ~saving' /\ proc' = proc /\ proc = "open"
  BY DEF AppendMeta, IInv, NoObject
<1>2. Postings' = Postings
  BY <1>1, PostingsAreExpected, PostingsStayExpected DEF PostingsExpected, Undamaged
<1>3. Undamaged(savedExpected)' = Postings
  BY <1>1, PostingsAreExpected DEF PostingsExpected, Undamaged
<1>4. AtRisk' \subseteq Fragile
  BY <1>1 DEF AtRisk
<1>5. CASE Tokens = {}
  <2>1. /\ Undamaged(savedExpected) = [t \in Tokens |-> NoMeta]
        /\ Undamaged(savedExpected)' = [t \in Tokens |-> NoMeta]
    BY <1>5 DEF Undamaged
  <2>2. AtRisk = {} /\ AtRisk' = {}
    BY <1>1, <1>4, <1>5, MultiAssumption DEF AtRisk, Fragile
  <2> QED
    BY <1>2, <2>1, <2>2 DEF Promise!vars, Postings
<1>6. CASE Tokens # {}
  <2>1. PICK t \in Tokens : TRUE
    BY <1>6
  <2>2. Promise!Save
    BY <1>2, <1>3, <1>4, <2>1 DEF Promise!Save, Postings
  <2> QED
    BY <2>2 DEF Promise!Next
<1> QED
  BY <1>5, <1>6

LEMMA SaveNothingPromise ==
  ASSUME IInv, IInv', SaveNothing
  PROVE  UNCHANGED Promise!vars
<1>1. /\ expected' = expected /\ lost' = lost /\ lost = Tokens
  BY DEF SaveNothing, Idle, CanSave, IInv, CutShort
<1>2. Postings' = Postings
  BY <1>1, PostingsAreExpected, PostingsStayExpected DEF PostingsExpected, Undamaged
<1>3. Undamaged(savedExpected)' = Undamaged(savedExpected)
  BY <1>1 DEF Undamaged
<1>4. AtRisk \ lost = {} /\ AtRisk' \ lost' = {}
  BY <1>1, MultiAssumption DEF AtRisk, SavedTokens, Fragile
<1> QED
  BY <1>2, <1>3, <1>4 DEF Promise!vars, Postings

LEMMA DestroyPromise ==
  ASSUME IInv, IInv', Destroy
  PROVE  Promise!Restart
<1>1. /\ expected' = savedExpected /\ savedExpected' = savedExpected
      /\ lost' = lost \cup Unreadable /\ ~saving /\ proc = "open"
  BY DEF Destroy, Forget, Idle
<1>2. Unreadable \subseteq AtRisk
  BY <1>1 DEF Unreadable, SavedTokens, AtRisk, Fragile
<1> QED
  BY <1>1, <1>2, Restarts

LEMMA ProcessEndsPromise ==
  ASSUME IInv, IInv', ProcessEnds
  PROVE  Promise!Restart
<1>1. /\ expected' = savedExpected /\ savedExpected' = savedExpected
      /\ lost' = (IF saving THEN Tokens ELSE lost \cup Unreadable)
      /\ lost \subseteq Tokens
  BY Types DEF ProcessEnds, Forget, TypeOK
<1>2. lost' \ lost \subseteq AtRisk /\ lost \subseteq lost'
  <2>1. CASE saving
    <3>1. proc = "open"
      BY <2>1 DEF IInv, NoObject
    <3>2. AtRisk = Tokens
      BY <2>1, <3>1 DEF AtRisk
    <3> QED
      BY <1>1, <2>1, <3>2
  <2>2. CASE ~saving
    BY <1>1, <2>2 DEF Unreadable, SavedTokens, AtRisk, Fragile
  <2> QED
    BY <2>1, <2>2
<1> QED
  BY <1>1, <1>2, Restarts

LEMMA NextPromise ==
  ASSUME IInv, IInv', [Next]_vars
  PROVE  [Promise!Next]_Promise!vars
<1>1. CASE Construct
  BY <1>1, ConstructPromise
<1>2. ASSUME NEW batch \in {b \in SUBSET Tokens : Cardinality(b) \in 1 .. MaxBatch}, CreateIndex(batch)
      PROVE  UNCHANGED Promise!vars
  <2>1. /\ expected' = expected /\ savedExpected' = savedExpected /\ lost' = lost
        /\ proc' = proc /\ saving' = saving
    BY <1>2 DEF CreateIndex, observer
  <2>2. AtRisk' = AtRisk
    BY <2>1 DEF AtRisk, SavedTokens
  <2> QED
    BY <2>1, <2>2, Stutters
<1>3. CASE CreateIndexFails
  <2>1. /\ expected' = expected /\ savedExpected' = savedExpected /\ lost' = lost
        /\ proc' = proc /\ saving' = saving
    BY <1>3 DEF CreateIndexFails, observer
  <2>2. AtRisk' = AtRisk
    BY <2>1 DEF AtRisk, SavedTokens
  <2> QED
    BY <2>1, <2>2, Stutters
<1>4. ASSUME NEW t \in Tokens, WriteToken(t) PROVE Promise!Next
  BY <1>4, WriteTokenPromise DEF Promise!Next
<1>5. CASE TruncateMeta
  BY <1>5, TruncateMetaPromise DEF Promise!Next
<1>6. CASE AppendMeta
  BY <1>6, AppendMetaPromise
<1>7. CASE SaveNothing
  BY <1>7, SaveNothingPromise
<1>8. CASE Destroy
  BY <1>8, DestroyPromise DEF Promise!Next
<1>9. CASE ProcessEnds
  BY <1>9, ProcessEndsPromise DEF Promise!Next
<1>10. CASE UNCHANGED vars
  <2>1. /\ expected' = expected /\ savedExpected' = savedExpected /\ lost' = lost
        /\ proc' = proc /\ saving' = saving
    BY <1>10 DEF vars, object, observer
  <2>2. AtRisk' = AtRisk
    BY <2>1 DEF AtRisk, SavedTokens
  <2> QED
    BY <2>1, <2>2, Stutters
<1> QED
  BY <1>1, <1>2, <1>3, <1>4, <1>5, <1>6, <1>7, <1>8, <1>9, <1>10 DEF Next

\* The multi-file storage implements the promise of IndexStorage: a token's list only
\* grows, of a restart it is what the last save left, and what is damaged then was at
\* risk.  (createIndex, getRawIndex, saveStorageMeta and loadStorageMeta against what
\* the callers of IIndexStorage count on.)
THEOREM ImplementsPromise == Spec => KeepsPromise
<1>1. Init => Promise!Init
  BY InitPromise
<1>2. IInv /\ IInv' /\ [Next]_vars => [Promise!Next]_Promise!vars
  BY NextPromise
<1> QED
  BY <1>1, <1>2, Invariance, PTL DEF Spec, KeepsPromise, Promise!Spec

=============================================================================
