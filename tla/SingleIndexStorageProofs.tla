---------------------- MODULE SingleIndexStorageProofs ----------------------
(***************************************************************************)
(* Type correctness of SingleIndexStorage and the ownership of blocks, for *)
(* every set of tokens and masks and every bound.  First what the block    *)
(* arithmetic does: getMask returns a mask that accepts the size;          *)
(* markBlockAvailable adds exactly the freed blocks; getNewBlock takes its *)
(* block out of the free runs or from the end of the file, and nothing     *)
(* else.  Then: releasing a block and taking one keep the partition of the *)
(* file into free runs and blocks of tokens, and every other step leaves   *)
(* the blocks alone.  Last what is in the blocks, and the promise of       *)
(* IndexStorage.                                                           *)
(***************************************************************************)
EXTENDS SingleIndexStorage, StreamFileProofs, SequenceTheorems, WellFoundedInduction, TLAPS

\* A non-empty set of naturals has a least element.
LEMMA LeastNat ==
  ASSUME NEW S, S \subseteq Nat, S # {}
  PROVE  \E m \in S : \A n \in S : m <= n
<1> DEFINE R == {ss \in Nat \X Nat : ss[1] < ss[2]}
<1>1. R = OpToRel(<, Nat)
  BY Zenon DEF OpToRel
<1>2. IsWellFoundedOn(R, Nat)
  BY <1>1, NatLessThanWellFounded, Zenon
<1>3. PICK m \in S : \A n \in S : ~ (<<n, m>> \in R)
  <2> HIDE DEF R
  <2> QED
    BY <1>2, WFMin, Zenon
<1>4. \A n \in S : m <= n
  <2> TAKE n \in S
  <2>1. m \in Nat /\ n \in Nat /\ ~ (n < m)
    BY <1>3
  <2> QED
    BY <2>1
<1> QED
  BY <1>4

\* getMask returns a mask that accepts the size, and the smallest such mask.
THEOREM GetMaskFits ==
  ASSUME NEW size \in 0 .. Span - 1
  PROVE  /\ GetMask(size) \in BlockMasks
         /\ Accepts(GetMask(size), size)
         /\ \A other \in BlockMasks : Accepts(other, size) => GetMask(size) <= other
<1> DEFINE S == {mask \in BlockMasks : Accepts(mask, size)}
<1>1. S \subseteq Nat /\ S # {}
  BY BlockAssumption, MaskAssumption
<1>2. PICK m \in S : \A n \in S : m <= n
  BY <1>1, LeastNat
<1>3. /\ m \in BlockMasks /\ Accepts(m, size)
      /\ \A other \in BlockMasks : Accepts(other, size) => m <= other
  BY <1>2
<1> QED
  BY <1>3 DEF GetMask

-----------------------------------------------------------------------------
\* A run that lower_bound(start - 1) lets merge has one block, just before start.
LEMMA MergedPrev ==
  ASSUME NEW free, IsRunMap(free), NEW start \in Nat, MergesPrev(free, start)
  PROVE  start - 1 \in DOMAIN free /\ free[start - 1] = 1 /\ start - 1 \in Nat
<1>1. PICK k \in DOMAIN free : k >= start - 1 /\ k + free[k] = start
  BY DEF MergesPrev, IsLowerBound
<1>2. k \in Nat /\ free[k] \in Nat \ {0}
  BY DEF IsRunMap
<1>3. k = start - 1 /\ free[k] = 1
  BY <1>1, <1>2
<1> QED
  BY <1>2, <1>3

LEMMA MergedNext ==
  ASSUME NEW free, NEW start, NEW count, MergesNext(free, start, count)
  PROVE  start + count \in DOMAIN free
BY DEF MergesNext

\* markBlockAvailable keeps a well-formed map of runs and adds exactly the blocks
\* it is given, whichever neighbours it merges.
THEOREM MarkBlockAvailableAdds ==
  ASSUME NEW free, IsRunMap(free), RunsDisjoint(free),
         NEW start \in Nat, NEW count \in Nat,
         \A b \in Nat : InRun(b, start, count) => ~ IsFree(free, b)
  PROVE  LET new == MarkBlockAvailable(free, start, count)
         IN  /\ IsRunMap(new) /\ RunsDisjoint(new)
             /\ \A b \in Nat : IsFree(new, b) <=> IsFree(free, b) \/ InRun(b, start, count)
<1>0. CASE count = 0
  BY <1>0 DEF MarkBlockAvailable, InRun
<1>1. CASE count # 0
  <2> DEFINE prev   == MergesPrev(free, start)
             next   == MergesNext(free, start, count)
             first  == IF prev THEN start - 1 ELSE start
             before == IF prev THEN free[start - 1] ELSE 0
             after  == IF next THEN free[start + count] ELSE 0
             length == before + count + after
             gone   == (IF prev THEN {start - 1} ELSE {}) \cup (IF next THEN {start + count} ELSE {})
             kept   == DOMAIN free \ gone
             new    == [k \in kept \cup {first} |-> IF k = first THEN length ELSE free[k]]
  <2>1. MarkBlockAvailable(free, start, count) = new
    BY <1>1 DEF MarkBlockAvailable
  <2>2. /\ DOMAIN free \subseteq Nat
        /\ \A k \in DOMAIN free : k \in Nat /\ free[k] \in Nat /\ free[k] > 0
    BY DEF IsRunMap
  <2>3. prev => start - 1 \in DOMAIN free /\ free[start - 1] = 1 /\ start - 1 \in Nat
    BY MergedPrev
  <2>4. next => start + count \in DOMAIN free
    BY MergedNext
  <2>5. first \in Nat /\ length \in Nat /\ length > 0 /\ first <= start
        /\ first = start - before
        /\ before \in Nat /\ after \in Nat /\ length = before + count + after
    BY <1>1, <2>2, <2>3, <2>4
  <2>6. \A k \in DOMAIN free : k + free[k] <= start \/ start + count <= k
    <3> TAKE k \in DOMAIN free
    <3>1. CASE k <= start /\ start < k + free[k]
      <4>1. InRun(start, k, free[k]) /\ InRun(start, start, count)
        BY <1>1, <2>2, <3>1 DEF InRun
      <4> QED
        BY <4>1 DEF IsFree
    <3>2. CASE start < k /\ k < start + count
      <4>1. InRun(k, k, free[k]) /\ InRun(k, start, count) /\ k \in Nat
        BY <2>2, <3>2 DEF InRun
      <4> QED
        BY <4>1 DEF IsFree
    <3> QED
      BY <2>2, <3>1, <3>2
  <2>7. \A k \in kept : k \in DOMAIN free /\ (k + free[k] <= first \/ first + length <= k)
    <3> TAKE k \in kept
    <3>1. k \in DOMAIN free /\ (prev => k # start - 1) /\ (next => k # start + count)
      OBVIOUS
    <3>2. CASE k + free[k] <= start
      <4>1. prev => k < start - 1
        BY <2>2, <2>3, <3>1, <3>2
      <4>2. prev => k + free[k] <= start - 1
        BY <2>3, <3>1, <4>1 DEF RunsDisjoint
      <4> QED
        BY <3>1, <3>2, <4>2
    <3>3. CASE start + count <= k
      <4>1. next => start + count < k
        BY <2>2, <2>4, <3>1, <3>3
      <4>2. next => start + count + free[start + count] <= k
        BY <2>4, <3>1, <4>1 DEF RunsDisjoint
      <4>3. first + length = start + count + after
        BY <2>5
      <4> QED
        BY <3>1, <3>3, <4>2, <4>3
    <3> QED
      BY <2>6, <3>1, <3>2, <3>3
  <2>8. first \notin kept
    <3>1. CASE prev
      BY <3>1
    <3>2. CASE ~prev
      BY <1>1, <2>2, <2>6, <3>2
    <3> QED
      BY <3>1, <3>2
  <2>9. /\ DOMAIN new = kept \cup {first}
        /\ new[first] = length
        /\ \A k \in kept : new[k] = free[k]
    BY <2>8
  <2> HIDE DEF new, kept, first, length
  <2>10. IsRunMap(new)
    <3>1. kept \subseteq DOMAIN free
      BY DEF kept
    <3>2. new = [k \in DOMAIN new |-> new[k]]
      BY DEF new
    <3>3. \A k \in DOMAIN new : k \in Nat /\ new[k] \in Nat \ {0}
      BY <2>2, <2>5, <2>9, <3>1
    <3> QED
      BY <3>2, <3>3 DEF IsRunMap
  <2>11. RunsDisjoint(new)
    <3> SUFFICES ASSUME NEW j \in DOMAIN new, NEW k \in DOMAIN new, j < k
                 PROVE  j + new[j] <= k
      BY DEF RunsDisjoint
    <3>1. CASE j \in kept /\ k \in kept
      BY <2>7, <2>9, <3>1 DEF RunsDisjoint
    <3>2. CASE j \in kept /\ k = first
      BY <2>2, <2>5, <2>7, <2>9, <3>2
    <3>3. CASE j = first /\ k \in kept
      BY <2>2, <2>5, <2>7, <2>9, <3>3
    <3>4. CASE j = first /\ k = first
      BY <2>5, <3>4
    <3> QED
      BY <2>9, <3>1, <3>2, <3>3, <3>4
  <2>12. ASSUME NEW b \in Nat
         PROVE  IsFree(new, b) <=> IsFree(free, b) \/ InRun(b, start, count)
    <3>1. InRun(b, first, length) <=>
            \/ InRun(b, start, count)
            \/ prev /\ InRun(b, start - 1, free[start - 1])
            \/ next /\ InRun(b, start + count, free[start + count])
      BY <2>2, <2>3, <2>4, <2>5 DEF InRun
    <3>2. DOMAIN free = kept \cup gone
      BY <2>3, <2>4 DEF kept
    <3>3. IsFree(free, b) <=> \/ \E k \in kept : InRun(b, k, free[k])
                              \/ \E k \in gone : InRun(b, k, free[k])
      BY <3>2 DEF IsFree
    <3>4. (\E k \in gone : InRun(b, k, free[k])) <=>
             \/ prev /\ InRun(b, start - 1, free[start - 1])
             \/ next /\ InRun(b, start + count, free[start + count])
      OBVIOUS
    <3>5. IsFree(new, b) <=> \/ \E k \in kept : InRun(b, k, free[k])
                             \/ InRun(b, first, length)
      BY <2>9 DEF IsFree
    <3> QED
      BY <3>1, <3>3, <3>4, <3>5
  <2> QED
    BY <2>1, <2>10, <2>11, <2>12
<1> QED
  BY <1>0, <1>1

\* getNewBlock takes its block out of the free runs, or from the end of the file
\* when no run fits, and leaves every other block as it was.
THEOREM GetNewBlockTakes ==
  ASSUME NEW free, IsRunMap(free), RunsDisjoint(free),
         NEW head \in Nat, \A k \in DOMAIN free : k + free[k] <= head,
         NEW blocks \in Nat \ {0}
  PROVE  LET new == GetNewBlock(free, head, blocks)
         IN  /\ new.start \in Nat /\ new.head \in Nat
             /\ IsRunMap(new.free) /\ RunsDisjoint(new.free)
             /\ head <= new.head /\ new.start + blocks <= new.head
             /\ \A k \in DOMAIN new.free : k + new.free[k] <= new.head
             /\ \A b \in Nat : InRun(b, new.start, blocks) => IsFree(free, b) \/ head <= b
             /\ \A b \in Nat : head <= b /\ b < new.head => InRun(b, new.start, blocks)
             /\ \A b \in Nat : IsFree(new.free, b) <=> IsFree(free, b) /\ ~ InRun(b, new.start, blocks)
<1> DEFINE new == GetNewBlock(free, head, blocks)
<1>0. /\ DOMAIN free \subseteq Nat
      /\ \A k \in DOMAIN free : k \in Nat /\ free[k] \in Nat /\ free[k] > 0
  BY DEF IsRunMap
<1>1. CASE FirstFit(free, blocks) = {}
  <2>1. new = [start |-> head, head |-> head + blocks, free |-> free]
    BY <1>1 DEF GetNewBlock
  <2>2. \A b \in Nat : IsFree(free, b) => b < head
    BY <1>0 DEF IsFree, InRun
  <2>3. \A k \in DOMAIN free : k + free[k] <= head + blocks
    BY <1>0
  <2> QED
    BY <2>1, <2>2, <2>3 DEF InRun
<1>2. CASE FirstFit(free, blocks) # {}
  <2> DEFINE at   == CHOOSE k \in FirstFit(free, blocks) : TRUE
             rest == [k \in DOMAIN free \ {at} |-> free[k]]
             left == MarkBlockAvailable(rest, at + blocks, free[at] - blocks)
  <2>1. new = [start |-> at, head |-> head, free |-> left]
    BY <1>2 DEF GetNewBlock
  <2>2. at \in FirstFit(free, blocks)
    BY <1>2
  <2> HIDE DEF at
  <2>3. at \in DOMAIN free /\ free[at] >= blocks
    BY <2>2 DEF FirstFit
  <2>4. at \in Nat /\ free[at] \in Nat /\ at + free[at] <= head
    BY <1>0, <2>3
  <2>5. IsRunMap(rest) /\ RunsDisjoint(rest)
    BY <1>0 DEF IsRunMap, RunsDisjoint
  <2>6. \A b \in Nat : IsFree(free, b) <=> IsFree(rest, b) \/ InRun(b, at, free[at])
    BY <2>3 DEF IsFree
  <2>7. \A b \in Nat : InRun(b, at, free[at]) => ~ IsFree(rest, b)
    <3> SUFFICES ASSUME NEW b \in Nat, InRun(b, at, free[at]),
                        NEW k \in DOMAIN rest, InRun(b, k, rest[k])
                 PROVE  FALSE
      BY DEF IsFree
    <3>1. k \in DOMAIN free /\ k # at /\ rest[k] = free[k]
      OBVIOUS
    <3>2. k + free[k] <= at \/ at + free[at] <= k
      BY <1>0, <2>3, <3>1 DEF RunsDisjoint
    <3> QED
      BY <1>0, <2>4, <3>1, <3>2 DEF InRun
  <2>8. \A b \in Nat : /\ InRun(b, at + blocks, free[at] - blocks) <=>
                            InRun(b, at, free[at]) /\ ~ InRun(b, at, blocks)
                       /\ InRun(b, at, blocks) => InRun(b, at, free[at])
    BY <2>3, <2>4 DEF InRun
  <2>9. at + blocks \in Nat /\ free[at] - blocks \in Nat
    BY <2>3, <2>4
  <2> HIDE DEF rest
  <2>10. /\ IsRunMap(left) /\ RunsDisjoint(left)
         /\ \A b \in Nat : IsFree(left, b) <=>
              IsFree(rest, b) \/ InRun(b, at + blocks, free[at] - blocks)
    BY <2>5, <2>7, <2>8, <2>9, MarkBlockAvailableAdds
  <2>11. \A b \in Nat : IsFree(left, b) <=> IsFree(free, b) /\ ~ InRun(b, at, blocks)
    BY <2>6, <2>7, <2>8, <2>10
  <2> HIDE DEF left
  <2>12. \A k \in DOMAIN left : k + left[k] <= head
    <3> TAKE k \in DOMAIN left
    <3>1. k \in Nat /\ left[k] \in Nat /\ left[k] > 0
      BY <2>10 DEF IsRunMap
    <3>2. k + left[k] - 1 \in Nat /\ IsFree(left, k + left[k] - 1)
      BY <3>1 DEF IsFree, InRun
    <3>3. IsFree(free, k + left[k] - 1)
      BY <2>11, <3>2
    <3> QED
      BY <1>0, <3>1, <3>3 DEF IsFree, InRun
  <2>13. \A b \in Nat : InRun(b, at, blocks) => IsFree(free, b)
    BY <2>6, <2>8
  <2>14. at + blocks <= head
    BY <2>3, <2>4
  <2>15. \A b \in Nat : ~ (head <= b /\ b < head)
    OBVIOUS
  <2> QED
    BY <2>1, <2>4, <2>10, <2>11, <2>12, <2>13, <2>14, <2>15
<1> QED
  BY <1>1, <1>2

-----------------------------------------------------------------------------
\* A batch in progress still fits the bound, and its current token has a block.
WorkFits ==
  /\ \A t \in DOMAIN work.batch : Len(expected[t]) + work.batch[t] <= MaxRows
  /\ work.token # NoToken => work.token \in DOMAIN indexMap

\* Between processes nothing is being indexed.
DownIdle == proc = "down" => work = Idle

\* Between two tokens of a batch nothing is being copied.
CopyIdle == work.token = NoToken => work.old = NoPos /\ work.copied = 0

IInv == TypeOK /\ WorkFits /\ DownIdle /\ CopyIdle /\ BlocksPartitioned

-----------------------------------------------------------------------------
\* Freeing the block of a token hands its base blocks to the free runs.
LEMMA ReleaseBlock ==
  ASSUME NEW map, IsIndexMap(map), NEW free, IsRunMap(free), NEW head \in Nat,
         Partitioned(map, free, head), NEW t \in DOMAIN map
  PROVE  LET runs == MarkBlockAvailable(free, map[t].blockStart, map[t].blockMask)
         IN  /\ IsRunMap(runs)
             /\ Partitioned([u \in DOMAIN map \ {t} |-> map[u]], runs, head)
<1> DEFINE start == map[t].blockStart
           mask  == map[t].blockMask
           runs  == MarkBlockAvailable(free, start, mask)
           rest  == [u \in DOMAIN map \ {t} |-> map[u]]
<1>0. \A u \in DOMAIN map : map[u].blockStart \in Nat /\ map[u].blockMask \in Nat
  BY BlockAssumption DEF IsIndexMap, IndexPos
<1>1. start \in Nat /\ mask \in Nat /\ start + mask <= head
  BY <1>0 DEF Partitioned
<1>2. \A b \in Nat : InRun(b, start, mask) => b \in 0 .. head - 1
  BY <1>1 DEF InRun
<1>3. \A b \in Nat : InRun(b, start, mask) => ~ IsFree(free, b)
  BY <1>2 DEF Partitioned, Owns
<1>4. /\ IsRunMap(runs) /\ RunsDisjoint(runs)
      /\ \A b \in Nat : IsFree(runs, b) <=> IsFree(free, b) \/ InRun(b, start, mask)
  BY <1>1, <1>3, MarkBlockAvailableAdds DEF Partitioned
<1> HIDE DEF runs
<1>5. \A k \in DOMAIN runs : k + runs[k] <= head
  <2> TAKE k \in DOMAIN runs
  <2>1. k \in Nat /\ runs[k] \in Nat /\ runs[k] > 0
    BY <1>4 DEF IsRunMap
  <2>2. k + runs[k] - 1 \in Nat /\ IsFree(runs, k + runs[k] - 1)
    BY <2>1 DEF IsFree, InRun
  <2>3. CASE InRun(k + runs[k] - 1, start, mask)
    BY <1>1, <2>1, <2>3 DEF InRun
  <2>4. CASE IsFree(free, k + runs[k] - 1)
    <3>1. PICK j \in DOMAIN free : InRun(k + runs[k] - 1, j, free[j])
      BY <2>4 DEF IsFree
    <3>2. j \in Nat /\ free[j] \in Nat /\ j + free[j] <= head
      BY DEF IsRunMap, Partitioned
    <3> QED
      BY <2>1, <3>1, <3>2 DEF InRun
  <2> QED
    BY <1>4, <2>2, <2>3, <2>4
<1>6. /\ DOMAIN rest = DOMAIN map \ {t}
      /\ \A u \in DOMAIN rest : u \in DOMAIN map /\ rest[u] = map[u]
  OBVIOUS
<1>7. ASSUME NEW b \in 0 .. head - 1
      PROVE  /\ IsFree(runs, b) <=> ~ \E u \in DOMAIN rest : Owns(rest, u, b)
             /\ \A u, v \in DOMAIN rest : Owns(rest, u, b) /\ Owns(rest, v, b) => u = v
  <2>1. /\ IsFree(free, b) <=> ~ \E u \in DOMAIN map : Owns(map, u, b)
        /\ \A u, v \in DOMAIN map : Owns(map, u, b) /\ Owns(map, v, b) => u = v
    BY DEF Partitioned
  <2>2. \A u \in DOMAIN rest : Owns(rest, u, b) <=> Owns(map, u, b)
    BY <1>6 DEF Owns
  <2>3. Owns(map, t, b) <=> InRun(b, start, mask)
    BY DEF Owns
  <2>4. b \in Nat
    BY <1>1
  <2>5. IsFree(runs, b) <=> IsFree(free, b) \/ Owns(map, t, b)
    BY <1>4, <2>3, <2>4
  <2> QED
    BY <1>6, <2>1, <2>2, <2>5
<1>8. \A u \in DOMAIN rest : rest[u].blockStart + rest[u].blockMask <= head
  BY <1>6 DEF Partitioned
<1> QED
  BY <1>4, <1>5, <1>7, <1>8 DEF Partitioned, runs

\* A new block goes to one token and to nobody else.
LEMMA TakeBlock ==
  ASSUME NEW map, IsIndexMap(map), NEW free, IsRunMap(free), NEW head \in Nat,
         Partitioned(map, free, head), NEW t, t \notin DOMAIN map,
         NEW mask \in BlockMasks
  PROVE  LET new == GetNewBlock(free, head, mask)
             pos == [blockMask |-> mask, blockStart |-> new.start, bytesSize |-> 0]
         IN  /\ IsRunMap(new.free) /\ new.head \in Nat /\ pos \in IndexPos
             /\ Partitioned([u \in DOMAIN map \cup {t} |-> IF u = t THEN pos ELSE map[u]],
                            new.free, new.head)
<1> DEFINE new == GetNewBlock(free, head, mask)
           pos == [blockMask |-> mask, blockStart |-> new.start, bytesSize |-> 0]
           got == [u \in DOMAIN map \cup {t} |-> IF u = t THEN pos ELSE map[u]]
<1>0. \A u \in DOMAIN map : map[u].blockStart \in Nat /\ map[u].blockMask \in Nat
  BY BlockAssumption DEF IsIndexMap, IndexPos
<1>1. mask \in Nat \ {0}
  BY BlockAssumption
<1>2. RunsDisjoint(free) /\ \A k \in DOMAIN free : k + free[k] <= head
  BY DEF Partitioned
<1>3. /\ new.start \in Nat /\ new.head \in Nat
      /\ IsRunMap(new.free) /\ RunsDisjoint(new.free)
      /\ head <= new.head /\ new.start + mask <= new.head
      /\ \A k \in DOMAIN new.free : k + new.free[k] <= new.head
      /\ \A b \in Nat : InRun(b, new.start, mask) => IsFree(free, b) \/ head <= b
      /\ \A b \in Nat : head <= b /\ b < new.head => InRun(b, new.start, mask)
      /\ \A b \in Nat : IsFree(new.free, b) <=> IsFree(free, b) /\ ~ InRun(b, new.start, mask)
  BY <1>1, <1>2, GetNewBlockTakes
<1> HIDE DEF new
<1>4. pos \in IndexPos
  BY <1>3, BlockAssumption DEF IndexPos
<1>5. /\ DOMAIN got = DOMAIN map \cup {t} /\ got[t] = pos
      /\ \A u \in DOMAIN map : got[u] = map[u] /\ u # t
  OBVIOUS
<1>6. \A u \in DOMAIN got : got[u].blockStart + got[u].blockMask <= new.head
  <2> TAKE u \in DOMAIN got
  <2>1. CASE u = t
    BY <1>3, <1>5, <2>1
  <2>2. CASE u \in DOMAIN map
    BY <1>0, <1>3, <1>5, <2>2 DEF Partitioned
  <2> QED
    BY <1>5, <2>1, <2>2
<1>7. \A u \in DOMAIN map, b \in Nat : Owns(got, u, b) <=> Owns(map, u, b)
  BY <1>5 DEF Owns
<1>8. \A b \in Nat : Owns(got, t, b) <=> InRun(b, new.start, mask)
  BY <1>5 DEF Owns
<1> HIDE DEF got
<1>9. ASSUME NEW b \in 0 .. new.head - 1
      PROVE  /\ IsFree(new.free, b) <=> ~ \E u \in DOMAIN got : Owns(got, u, b)
             /\ \A u, v \in DOMAIN got : Owns(got, u, b) /\ Owns(got, v, b) => u = v
  <2>1. b \in Nat /\ b < new.head
    BY <1>3
  <2>2. CASE b < head
    <3>1. b \in 0 .. head - 1
      BY <2>1, <2>2
    <3>2. /\ IsFree(free, b) <=> ~ \E u \in DOMAIN map : Owns(map, u, b)
          /\ \A u, v \in DOMAIN map : Owns(map, u, b) /\ Owns(map, v, b) => u = v
      BY <3>1 DEF Partitioned
    <3>3. Owns(got, t, b) => IsFree(free, b)
      BY <1>3, <1>8, <2>1, <2>2
    <3>4. IsFree(new.free, b) <=> IsFree(free, b) /\ ~ Owns(got, t, b)
      BY <1>3, <1>8, <2>1
    <3> QED
      BY <1>5, <1>7, <2>1, <3>2, <3>3, <3>4
  <2>3. CASE head <= b
    <3>1. Owns(got, t, b)
      BY <1>3, <1>8, <2>1, <2>3
    <3>2. \A u \in DOMAIN map : ~ Owns(map, u, b)
      BY <1>0, <2>1, <2>3 DEF Partitioned, Owns, InRun
    <3>3. ~ IsFree(new.free, b)
      BY <1>3, <1>8, <2>1, <3>1
    <3> QED
      BY <1>5, <1>7, <2>1, <3>1, <3>2, <3>3
  <2> QED
    BY <2>1, <2>2, <2>3
<1> QED
  BY <1>3, <1>4, <1>6, <1>9 DEF Partitioned, got, new

\* Steps that change no more than the sizes, or add an entry without a block.
LEMMA SameBlocks ==
  ASSUME NEW map, IsIndexMap(map), NEW free, NEW head \in Nat, Partitioned(map, free, head),
         NEW other, DOMAIN map \subseteq DOMAIN other,
         \A u \in DOMAIN map : /\ other[u].blockStart = map[u].blockStart
                               /\ other[u].blockMask = map[u].blockMask,
         \A u \in DOMAIN other \ DOMAIN map : other[u] = NoPos
  PROVE  Partitioned(other, free, head)
<1>1. \A b \in 0 .. head - 1 :
        /\ \A u \in DOMAIN map : Owns(other, u, b) <=> Owns(map, u, b)
        /\ \A u \in DOMAIN other \ DOMAIN map : ~ Owns(other, u, b)
  <2> TAKE b \in 0 .. head - 1
  <2>1. \A u \in DOMAIN map : Owns(other, u, b) <=> Owns(map, u, b)
    BY DEF Owns
  <2>2. ~ InRun(b, 0, 0)
    BY DEF InRun
  <2>3. \A u \in DOMAIN other \ DOMAIN map : ~ Owns(other, u, b)
    BY <2>2 DEF Owns, NoPos
  <2> QED
    BY <2>1, <2>3
<1>2. \A u \in DOMAIN other : other[u].blockStart + other[u].blockMask <= head
  BY DEF Partitioned, NoPos
<1> QED
  BY <1>1, <1>2 DEF Partitioned

-----------------------------------------------------------------------------
\* The cells of the file and of the stream's buffer are rows or holes.
LEMMA WrittenIsFile ==
  ASSUME IsFile(disk), IsFile(tail)
  PROVE  IsFile(Written)
BY DEF IsFile, Written, Over

LEMMA SliceType ==
  ASSUME NEW file, IsFile(file), NEW from \in Nat, NEW n \in Nat
  PROVE  Slice(file, from, n) \in [1 .. n -> Row \cup {Hole}]
BY DEF IsFile, Slice, Cell

LEMMA PlaceIsFile ==
  ASSUME NEW n \in Nat, NEW rows \in [1 .. n -> Row \cup {Hole}], NEW at \in Nat
  PROVE  IsFile(Place(rows, at))
<1>1. Len(rows) = n
  OBVIOUS
<1>2. \A a \in at .. at + n - 1 : a \in Nat /\ a - at + 1 \in 1 .. n
  OBVIOUS
<1> QED
  BY <1>1, <1>2 DEF Place, IsFile

LEMMA EmptyTypes ==
  /\ IsFile(Empty) /\ IsIndexMap(Empty) /\ IsRunMap(NoRuns)
  /\ Partitioned(Empty, NoRuns, 0)
<1>1. IsFile(Empty) /\ IsIndexMap(Empty)
  BY DEF IsFile, IsIndexMap, Empty
<1>2. IsRunMap(NoRuns)
  BY DEF IsRunMap, NoRuns
<1>3. Partitioned(Empty, NoRuns, 0)
  BY DEF Partitioned, RunsDisjoint, Empty, NoRuns
<1> QED
  BY <1>1, <1>2, <1>3

LEMMA ConstantTypes ==
  /\ \A x \in Nat : x % Span \in 0 .. Span - 1
  /\ NoPos \in IndexPos
  /\ \A start, size \in Nat : BlockToPos(start, size) \in Nat
<1>1. \A x \in Nat : x % Span \in 0 .. Span - 1
  BY BlockAssumption
<1>2. NoPos \in IndexPos
  BY BlockAssumption DEF NoPos, IndexPos
<1>3. \A start, size \in Nat : BlockToPos(start, size) \in Nat
  <2> TAKE start, size \in Nat
  <2>1. start * BaseRows + size \in Nat
    BY BlockAssumption
  <2> QED
    BY <1>1, <2>1, BlockAssumption DEF BlockToPos
<1> QED
  BY <1>1, <1>2, <1>3

LEMMA InitIInv == Init => IInv
<1> SUFFICES ASSUME Init PROVE IInv
  OBVIOUS
<1> USE DEF Init
<1>1. WorkType
  BY ConstantTypes DEF WorkType, Idle, Empty, NoPos
<1>2. TypeOK
  <2>1. << >> \in Seq(Row)
    OBVIOUS
  <2>2. expected \in [Tokens -> Seq(Row)]
    BY <2>1
  <2>3. ends \in 0 .. MaxEnds
    BY StorageAssumption
  <2> QED
    BY <1>1, <2>2, <2>3, EmptyTypes DEF TypeOK
<1>3. WorkFits
  BY DEF WorkFits, Idle, Empty
<1>4. BlocksPartitioned
  BY EmptyTypes DEF BlocksPartitioned
<1>5. DownIdle /\ CopyIdle
  BY DEF DownIdle, CopyIdle, Idle
<1> QED
  BY <1>2, <1>3, <1>4, <1>5 DEF IInv

-----------------------------------------------------------------------------
\* What the types say of the token in hand.
LEMMA WorkFacts ==
  ASSUME IInv
  PROVE  /\ \A t \in DOMAIN work.batch : t \in Tokens /\ work.batch[t] \in 1 .. MaxIncoming
         /\ \A t \in Tokens : Len(expected[t]) \in Nat /\ expected[t] \in Seq(Row)
         /\ \A t \in DOMAIN indexMap : t \in Tokens /\ indexMap[t] \in IndexPos
         /\ work.token # NoToken => /\ work.token \in DOMAIN work.batch
                                    /\ work.token \in DOMAIN indexMap
         /\ work.copied \in Nat /\ work.old \in IndexPos
         /\ ends \in 0 .. MaxEnds
<1>1. \A t \in Tokens : expected[t] \in Seq(Row) /\ Len(expected[t]) \in Nat
  BY DEF IInv, TypeOK
<1>2. work.old.bytesSize \in Nat
  BY BlockAssumption DEF IInv, TypeOK, WorkType, IndexPos
<1> QED
  BY <1>1, <1>2, StorageAssumption DEF IInv, TypeOK, WorkType, WorkFits, IsIndexMap

LEMMA SetPosType ==
  ASSUME NEW t \in Tokens, NEW pos \in IndexPos, IsIndexMap(indexMap), SetPos(t, pos)
  PROVE  /\ IsIndexMap(indexMap') /\ DOMAIN indexMap' = DOMAIN indexMap \cup {t}
         /\ \A u \in DOMAIN indexMap' : indexMap'[u] = IF u = t THEN pos ELSE indexMap[u]
<1>1. indexMap' = [u \in DOMAIN indexMap \cup {t} |-> IF u = t THEN pos ELSE indexMap[u]]
  BY DEF SetPos
<1>2. \A u \in DOMAIN indexMap : indexMap[u] \in IndexPos /\ u \in Tokens
  BY DEF IsIndexMap
<1> QED
  BY <1>1, <1>2 DEF IsIndexMap

LEMMA ConstructStep == IInv /\ Construct => IInv'
<1> SUFFICES ASSUME IInv, Construct PROVE IInv'
  OBVIOUS
<1> USE DEF Construct, files, observer
<1>1. CASE proc = "down" /\ meta # NoMeta
  <2>1. SavedMap = meta.indexMap
    BY <1>1 DEF SavedMap
  <2>2. /\ indexMap' = meta.indexMap /\ freeBlockPoses' = meta.freeBlockPoses
        /\ currentBlockPos' = meta.currentBlockPos
    BY <1>1, <2>1
  <2>3. TypeOK'
    BY <1>1, <2>2 DEF IInv, TypeOK, WorkType, IsIndexMap, IsRunMap, IsFile
  <2>4. WorkFits'
    <3>1. work.token = NoToken
      BY <1>1 DEF IInv, DownIdle, Idle
    <3> QED
      BY <3>1 DEF IInv, WorkFits
  <2>5. BlocksPartitioned'
    BY <1>1, <2>2 DEF IInv, BlocksPartitioned, Partitioned, Owns
  <2> QED
    BY <2>3, <2>4, <2>5, <1>1 DEF IInv, DownIdle, CopyIdle
<1>2. CASE ~ (proc = "down" /\ meta # NoMeta)
  <2>1. UNCHANGED statics
    BY <1>2
  <2>2. TypeOK'
    BY <2>1 DEF statics, IInv, TypeOK, WorkType, IsIndexMap, IsRunMap, IsFile
  <2>3. WorkFits' /\ BlocksPartitioned' /\ DownIdle' /\ CopyIdle'
    BY <2>1 DEF statics, IInv, WorkFits, BlocksPartitioned, Partitioned, Owns, DownIdle, CopyIdle
  <2> QED
    BY <2>2, <2>3 DEF IInv
<1> QED
  BY <1>1, <1>2

\* The batch that createIndex is called with fits the bound.
LEMMA CreateIndexPreserves ==
  ASSUME IInv, NEW batch \in Batches, CreateIndex(batch)
  PROVE  IInv'
<1> USE DEF CreateIndex, statics, files, observer
<1>1. PICK S \in SUBSET Tokens : batch \in [S -> 1 .. MaxIncoming]
  BY DEF Batches
<1>2. /\ work'.batch = batch /\ work'.token = NoToken
      /\ work'.old = NoPos /\ work'.copied = 0
      /\ work' = [batch |-> batch, token |-> NoToken, old |-> NoPos, copied |-> 0]
  BY DEF Idle
<1>3. WorkType'
  <2>1. NoPos \in IndexPos /\ 0 \in 0 .. NoPos.bytesSize
    BY ConstantTypes DEF NoPos
  <2> QED
    BY <1>1, <1>2, <2>1 DEF WorkType
<1>4. TypeOK'
  BY <1>3 DEF IInv, TypeOK, IsIndexMap, IsRunMap, IsFile
<1>5. WorkFits'
  BY <1>1, <1>2 DEF WorkFits
<1>6. DownIdle' /\ CopyIdle'
  BY DEF DownIdle, CopyIdle, IInv
<1>7. BlocksPartitioned'
  BY DEF IInv, BlocksPartitioned, Partitioned, Owns
<1> QED
  BY <1>4, <1>5, <1>6, <1>7 DEF IInv

LEMMA KeepBlockPreserves ==
  ASSUME IInv, NEW t \in Tokens, KeepBlock(t)
  PROVE  IInv'
<1> USE DEF KeepBlock, NextOfBatch, statics, files, observer
<1>1. /\ work'.batch = work.batch /\ work'.token = t
      /\ work'.old = work.old /\ work'.copied = work.copied
      /\ work' = [batch |-> work.batch, token |-> t, old |-> work.old, copied |-> work.copied]
  BY DEF IInv, TypeOK, WorkType
<1>2. WorkType'
  BY <1>1 DEF IInv, TypeOK, WorkType
<1>3. TypeOK'
  BY <1>2 DEF IInv, TypeOK, IsIndexMap, IsRunMap, IsFile
<1>4. WorkFits'
  BY <1>1 DEF IInv, WorkFits
<1>5. DownIdle' /\ CopyIdle'
  BY DEF DownIdle, CopyIdle, IInv
<1>6. BlocksPartitioned'
  BY DEF IInv, BlocksPartitioned, Partitioned, Owns
<1> QED
  BY <1>3, <1>4, <1>5, <1>6 DEF IInv

\* A mask is found for every size a token can reach.
LEMMA MaskOfToken ==
  ASSUME IInv, NEW t \in DOMAIN work.batch
  PROVE  /\ GetMask(work.batch[t] % Span) \in BlockMasks
         /\ t \in DOMAIN indexMap => GetMask(Grown(t)) \in BlockMasks
<1>1. work.batch[t] \in Nat
  BY WorkFacts, StorageAssumption
<1>2. work.batch[t] % Span \in 0 .. Span - 1
  BY <1>1, ConstantTypes
<1>3. GetMask(work.batch[t] % Span) \in BlockMasks
  BY <1>2, GetMaskFits
<1>4. ASSUME t \in DOMAIN indexMap PROVE GetMask(Grown(t)) \in BlockMasks
  <2>1. indexMap[t].bytesSize + work.batch[t] \in Nat
    BY <1>1, <1>4, WorkFacts, BlockAssumption DEF IndexPos
  <2>2. Grown(t) \in 0 .. Span - 1
    BY <2>1, ConstantTypes DEF Grown
  <2> QED
    BY <2>2, GetMaskFits
<1> QED
  BY <1>3, <1>4

LEMMA NewBlockPreserves ==
  ASSUME IInv, NEW t \in Tokens, NewBlock(t)
  PROVE  IInv'
<1> USE DEF NewBlock, NextOfBatch, files, observer
<1> DEFINE mask == GetMask(work.batch[t] % Span)
           new  == GetNewBlock(freeBlockPoses, currentBlockPos, mask)
           pos  == [blockMask |-> mask, blockStart |-> new.start, bytesSize |-> 0]
<1>1. /\ SetPos(t, pos) /\ freeBlockPoses' = new.free /\ currentBlockPos' = new.head
      /\ t \in DOMAIN work.batch /\ t \notin DOMAIN indexMap
  OBVIOUS
<1>2. mask \in BlockMasks
  BY <1>1, MaskOfToken
<1>3. /\ IsIndexMap(indexMap) /\ IsRunMap(freeBlockPoses) /\ currentBlockPos \in Nat
      /\ Partitioned(indexMap, freeBlockPoses, currentBlockPos)
  BY DEF IInv, TypeOK, BlocksPartitioned
<1> HIDE DEF mask
<1>4. /\ IsRunMap(new.free) /\ new.head \in Nat /\ pos \in IndexPos
      /\ Partitioned([u \in DOMAIN indexMap \cup {t} |-> IF u = t THEN pos ELSE indexMap[u]],
                     new.free, new.head)
  <2>1. t \notin DOMAIN indexMap
    BY <1>1
  <2> QED
    BY <1>2, <1>3, <2>1, TakeBlock
<1> HIDE DEF new, pos
<1>5. Partitioned(indexMap', freeBlockPoses', currentBlockPos')
  BY <1>1, <1>4 DEF SetPos
<1>6. IsIndexMap(indexMap') /\ DOMAIN indexMap' = DOMAIN indexMap \cup {t}
  BY <1>1, <1>3, <1>4, SetPosType
<1>7. /\ work'.batch = work.batch /\ work'.token = t
      /\ work'.old = work.old /\ work'.copied = work.copied
      /\ work' = [batch |-> work.batch, token |-> t, old |-> work.old, copied |-> work.copied]
  BY DEF IInv, TypeOK, WorkType
<1>8. WorkType'
  BY <1>7 DEF IInv, TypeOK, WorkType
<1>9. TypeOK'
  BY <1>1, <1>4, <1>6, <1>8 DEF IInv, TypeOK, IsIndexMap, IsRunMap, IsFile
<1>10. WorkFits'
  BY <1>6, <1>7 DEF IInv, WorkFits
<1>11. DownIdle' /\ CopyIdle'
  BY DEF DownIdle, CopyIdle, IInv
<1>12. BlocksPartitioned'
  BY <1>5 DEF IInv, BlocksPartitioned
<1> QED
  BY <1>9, <1>10, <1>11, <1>12 DEF IInv

LEMMA MoveBlockPreserves ==
  ASSUME IInv, NEW t \in Tokens, MoveBlock(t)
  PROVE  IInv'
<1> USE DEF MoveBlock, NextOfBatch, files, observer
<1> DEFINE old  == indexMap[t]
           mask == GetMask(Grown(t))
           runs == MarkBlockAvailable(freeBlockPoses, old.blockStart, old.blockMask)
           rest == [u \in DOMAIN indexMap \ {t} |-> indexMap[u]]
           new  == GetNewBlock(runs, currentBlockPos, mask)
           pos  == [blockMask |-> mask, blockStart |-> new.start, bytesSize |-> 0]
<1>1. /\ SetPos(t, pos) /\ freeBlockPoses' = new.free /\ currentBlockPos' = new.head
      /\ t \in DOMAIN work.batch /\ t \in DOMAIN indexMap
      /\ work' = [work EXCEPT !.token = t, !.old = old]
  OBVIOUS
<1>2. mask \in BlockMasks
  BY <1>1, MaskOfToken
<1>3. /\ IsIndexMap(indexMap) /\ IsRunMap(freeBlockPoses) /\ currentBlockPos \in Nat
      /\ Partitioned(indexMap, freeBlockPoses, currentBlockPos)
  BY DEF IInv, TypeOK, BlocksPartitioned
<1> HIDE DEF mask
<1>4. IsRunMap(runs) /\ Partitioned(rest, runs, currentBlockPos)
  BY <1>1, <1>3, ReleaseBlock
<1>5. IsIndexMap(rest) /\ t \notin DOMAIN rest
  BY <1>3 DEF IsIndexMap
<1> HIDE DEF runs
<1>6. /\ IsRunMap(new.free) /\ new.head \in Nat /\ pos \in IndexPos
      /\ Partitioned([u \in DOMAIN rest \cup {t} |-> IF u = t THEN pos ELSE rest[u]],
                     new.free, new.head)
  <2> HIDE DEF rest
  <2> QED
    BY <1>2, <1>3, <1>4, <1>5, TakeBlock
<1> HIDE DEF new, pos
<1>7. indexMap' = [u \in DOMAIN rest \cup {t} |-> IF u = t THEN pos ELSE rest[u]]
  BY <1>1 DEF SetPos
<1>8. Partitioned(indexMap', freeBlockPoses', currentBlockPos')
  BY <1>1, <1>6, <1>7
<1>9. IsIndexMap(indexMap') /\ DOMAIN indexMap' = DOMAIN indexMap \cup {t}
  BY <1>1, <1>3, <1>6, SetPosType
<1>10. /\ work'.batch = work.batch /\ work'.token = t
       /\ work'.old = old /\ work'.copied = work.copied
       /\ work' = [batch |-> work.batch, token |-> t, old |-> old, copied |-> work.copied]
  BY <1>1 DEF IInv, TypeOK, WorkType
<1>11. WorkType'
  <2>1. old \in IndexPos /\ work.copied = 0
    BY <1>1, WorkFacts DEF IInv, CopyIdle
  <2>2. 0 \in 0 .. old.bytesSize
    BY <2>1, BlockAssumption DEF IndexPos
  <2> QED
    BY <1>1, <1>10, <2>1, <2>2 DEF IInv, TypeOK, WorkType
<1>12. TypeOK'
  BY <1>1, <1>6, <1>9, <1>11 DEF IInv, TypeOK, IsIndexMap, IsRunMap, IsFile
<1>13. WorkFits'
  BY <1>1, <1>9, <1>10 DEF IInv, WorkFits
<1>14. DownIdle' /\ CopyIdle'
  BY <1>1, <1>10, StorageAssumption DEF DownIdle, CopyIdle
<1>15. BlocksPartitioned'
  BY <1>8 DEF IInv, BlocksPartitioned
<1> QED
  BY <1>12, <1>13, <1>14, <1>15 DEF IInv

\* A step that changes only sizes keeps every block where it is.
LEMMA GrowPreserves ==
  ASSUME IInv, NEW t \in DOMAIN indexMap, NEW n \in Nat,
         indexMap' = [indexMap EXCEPT ![t].bytesSize = (@ + n) % Span]
  PROVE  /\ IsIndexMap(indexMap') /\ DOMAIN indexMap' = DOMAIN indexMap
         /\ Partitioned(indexMap', freeBlockPoses, currentBlockPos)
<1>1. /\ IsIndexMap(indexMap) /\ currentBlockPos \in Nat
      /\ Partitioned(indexMap, freeBlockPoses, currentBlockPos)
  BY DEF IInv, TypeOK, BlocksPartitioned
<1>2. indexMap[t] \in IndexPos /\ indexMap[t].bytesSize + n \in Nat
  BY <1>1, BlockAssumption DEF IsIndexMap, IndexPos
<1>3. (indexMap[t].bytesSize + n) % Span \in 0 .. Span - 1
  BY <1>2, ConstantTypes
<1> DEFINE pos == [indexMap[t] EXCEPT !.bytesSize = (indexMap[t].bytesSize + n) % Span]
<1>4. /\ pos \in IndexPos
      /\ pos.blockStart = indexMap[t].blockStart /\ pos.blockMask = indexMap[t].blockMask
  BY <1>2, <1>3 DEF IndexPos
<1>5. indexMap' = [indexMap EXCEPT ![t] = pos]
  OBVIOUS
<1> HIDE DEF pos
<1>6. /\ DOMAIN indexMap' = DOMAIN indexMap
      /\ \A u \in DOMAIN indexMap : indexMap'[u] = IF u = t THEN pos ELSE indexMap[u]
  BY <1>1, <1>5 DEF IsIndexMap
<1>7. IsIndexMap(indexMap')
  BY <1>1, <1>4, <1>5 DEF IsIndexMap
<1>8. \A u \in DOMAIN indexMap : /\ indexMap'[u].blockStart = indexMap[u].blockStart
                                 /\ indexMap'[u].blockMask = indexMap[u].blockMask
  BY <1>4, <1>6
<1>9. Partitioned(indexMap', freeBlockPoses, currentBlockPos)
  BY <1>1, <1>6, <1>8, SameBlocks
<1> QED
  BY <1>6, <1>7, <1>9

LEMMA CopyChunkPreserves ==
  ASSUME IInv, CopyChunk
  PROVE  IInv'
<1> USE DEF CopyChunk, files, observer
<1> DEFINE t    == work.token
           n    == ChunkRows
           from == BlockToPos(work.old.blockStart, 0) + work.copied
           to   == BlockToPos(indexMap[t].blockStart, 0) + work.copied
           ok   == ~failed /\ Readable(Written, from, n)
<1>1. /\ t \in DOMAIN indexMap /\ t \in DOMAIN work.batch /\ t \in Tokens
      /\ work.copied \in Nat /\ work.old \in IndexPos /\ indexMap[t] \in IndexPos
      /\ work.old.bytesSize \in Nat
  BY WorkFacts, BlockAssumption DEF IndexPos
<1>2. n \in Nat /\ work.copied + n \in 0 .. work.old.bytesSize
  BY <1>1, StorageAssumption DEF ChunkRows
<1>3. from \in Nat /\ to \in Nat
  <2>1. work.old.blockStart \in Nat /\ indexMap[t].blockStart \in Nat
    BY <1>1 DEF IndexPos
  <2> QED
    BY <1>1, <2>1, ConstantTypes
<1> HIDE DEF n, from, to
<1>4. IsFile(Written)
  BY WrittenIsFile DEF IInv, TypeOK
<1>5. IsFile(Place(Slice(Written, from, n), to))
  BY <1>2, <1>3, <1>4, SliceType, PlaceIsFile
<1>6. /\ IsIndexMap(indexMap') /\ DOMAIN indexMap' = DOMAIN indexMap
      /\ Partitioned(indexMap', freeBlockPoses, currentBlockPos)
  BY <1>1, <1>2, GrowPreserves DEF n
<1>7. /\ disk' = Written /\ failed' \in BOOLEAN
      /\ tail' = IF ok THEN Place(Slice(Written, from, n), to) ELSE Empty
      /\ lost' = IF ok THEN lost ELSE lost \cup {t}
      /\ work' = [work EXCEPT !.copied = @ + n]
      /\ t # NoToken
  BY DEF n, from, to
<1>8. /\ work'.batch = work.batch /\ work'.token = work.token
      /\ work'.old = work.old /\ work'.copied = work.copied + n
      /\ work' = [batch |-> work.batch, token |-> t, old |-> work.old, copied |-> work.copied + n]
  BY <1>7 DEF IInv, TypeOK, WorkType
<1>9. WorkType'
  BY <1>2, <1>8 DEF IInv, TypeOK, WorkType
<1>10. IsFile(disk') /\ IsFile(tail') /\ lost' \subseteq Tokens
  BY <1>1, <1>4, <1>5, <1>7, EmptyTypes DEF IInv, TypeOK
<1>11. TypeOK'
  BY <1>6, <1>7, <1>9, <1>10 DEF IInv, TypeOK, IsIndexMap, IsRunMap, IsFile
<1>12. WorkFits'
  BY <1>6, <1>8 DEF IInv, WorkFits
<1>13. CopyIdle'
  BY <1>7, <1>8 DEF CopyIdle
<1>14. DownIdle'
  <2>1. proc # "down"
    BY <1>7 DEF IInv, DownIdle, Idle
  <2> QED
    BY <2>1 DEF DownIdle
<1>15. BlocksPartitioned'
  BY <1>6 DEF IInv, BlocksPartitioned
<1> QED
  BY <1>11, <1>12, <1>13, <1>14, <1>15 DEF IInv

LEMMA AppendRowsPreserves ==
  ASSUME IInv, AppendRows
  PROVE  IInv'
<1> DEFINE t    == work.token
           n    == work.batch[t]
           rows == [i \in 1 .. n |-> <<t, Len(expected[t]) + i, ends>>]
           pos  == indexMap[t]
           at   == BlockToPos(pos.blockStart, pos.bytesSize)
           left == [u \in DOMAIN work.batch \ {t} |-> work.batch[u]]
<1>1. /\ t \in DOMAIN indexMap /\ t \in DOMAIN work.batch /\ t \in Tokens /\ t # NoToken
      /\ pos \in IndexPos /\ n \in Nat /\ ends \in 0 .. MaxEnds
      /\ expected[t] \in Seq(Row) /\ Len(expected[t]) \in Nat
      /\ Len(expected[t]) + n <= MaxRows
  BY WorkFacts, StorageAssumption DEF AppendRows, IInv, WorkFits
<1>2. rows \in [1 .. n -> Row]
  <2>1. \A len, k \in Nat : len + k <= MaxRows => \A i \in 1 .. k : len + i \in 1 .. MaxRows
    BY StorageAssumption
  <2>2. \A i \in 1 .. n : Len(expected[t]) + i \in 1 .. MaxRows
    BY <1>1, <2>1
  <2>3. \A i \in 1 .. n : <<t, Len(expected[t]) + i, ends>> \in Row
    BY <1>1, <2>2, Zenon DEF Row
  <2> QED
    BY <2>3
<1> HIDE DEF rows
<1>3. rows \in Seq(Row) /\ Len(rows) = n
  BY <1>1, <1>2
<1>4. at \in Nat
  <2>1. pos.blockStart \in Nat /\ pos.bytesSize \in Nat
    BY <1>1, BlockAssumption DEF IndexPos
  <2> QED
    BY <2>1, ConstantTypes
<1>5. /\ indexMap' = [indexMap EXCEPT ![t].bytesSize = (@ + n) % Span]
      /\ disk' = Written /\ tail' = IF failed THEN Empty ELSE Place(rows, at)
      /\ expected' = [expected EXCEPT ![t] = expected[t] \o rows]
      /\ lost' = IF failed THEN lost \cup {t} ELSE lost
      /\ work' = [Idle EXCEPT !.batch = left]
      /\ UNCHANGED <<freeBlockPoses, currentBlockPos, proc, failed, meta, savedExpected, ends>>
  BY DEF AppendRows, rows
<1> HIDE DEF at
<1>6. IsFile(disk') /\ IsFile(tail') /\ lost' \subseteq Tokens
  <2>1. IsFile(Written)
    BY WrittenIsFile DEF IInv, TypeOK
  <2>2. IsFile(Place(rows, at))
    <3>1. rows \in [1 .. n -> Row \cup {Hole}]
      BY <1>2
    <3> QED
      BY <1>1, <1>4, <3>1, PlaceIsFile
  <2> QED
    BY <1>1, <1>5, <2>1, <2>2, EmptyTypes DEF IInv, TypeOK
<1>7. /\ IsIndexMap(indexMap') /\ DOMAIN indexMap' = DOMAIN indexMap
      /\ Partitioned(indexMap', freeBlockPoses, currentBlockPos)
  BY <1>1, <1>5, GrowPreserves
<1>8. /\ work' = [batch |-> left, token |-> NoToken, old |-> NoPos, copied |-> 0]
      /\ work'.batch = left /\ work'.token = NoToken /\ work'.old = NoPos /\ work'.copied = 0
  BY <1>5 DEF Idle
<1>9. /\ DOMAIN left \subseteq DOMAIN work.batch /\ left \in [DOMAIN left -> 1 .. MaxIncoming]
      /\ \A u \in DOMAIN left : u # t /\ left[u] = work.batch[u]
  BY DEF IInv, TypeOK, WorkType
<1> HIDE DEF left
<1>10. WorkType'
  <2>1. NoPos \in IndexPos /\ 0 \in 0 .. NoPos.bytesSize
    BY ConstantTypes DEF NoPos
  <2> QED
    BY <1>8, <1>9, <2>1 DEF IInv, TypeOK, WorkType
<1>11. /\ expected' \in [Tokens -> Seq(Row)]
       /\ \A u \in Tokens : u # t => expected'[u] = expected[u]
  <2>1. expected[t] \o rows \in Seq(Row)
    BY <1>1, <1>3
  <2> QED
    BY <1>1, <1>5, <2>1 DEF IInv, TypeOK
<1>12. TypeOK'
  BY <1>5, <1>6, <1>7, <1>10, <1>11 DEF IInv, TypeOK, IsIndexMap, IsRunMap, IsFile
<1>13. WorkFits'
  <2>1. \A u \in DOMAIN left : u \in Tokens /\ expected'[u] = expected[u]
    BY <1>9, <1>11, WorkFacts
  <2> QED
    BY <1>8, <1>9, <2>1 DEF IInv, WorkFits
<1>14. CopyIdle'
  BY <1>8 DEF CopyIdle
<1>15. DownIdle'
  <2>1. proc # "down"
    BY <1>1 DEF IInv, DownIdle, Idle
  <2> QED
    BY <1>5, <2>1 DEF DownIdle
<1>16. BlocksPartitioned'
  BY <1>5, <1>7 DEF IInv, BlocksPartitioned
<1> QED
  BY <1>12, <1>13, <1>14, <1>15, <1>16 DEF IInv

\* The entry that a lookup of an unknown token leaves behind owns no block.
LEMMA GetRawIndexPreserves ==
  ASSUME IInv, NEW t \in Tokens, GetRawIndex(t)
  PROVE  IInv'
<1> USE DEF GetRawIndex, observer
<1> DEFINE pos == IF t \in DOMAIN indexMap THEN indexMap[t] ELSE NoPos
<1>1. /\ IsIndexMap(indexMap) /\ currentBlockPos \in Nat
      /\ Partitioned(indexMap, freeBlockPoses, currentBlockPos)
  BY DEF IInv, TypeOK, BlocksPartitioned
<1>2. pos \in IndexPos
  BY <1>1, ConstantTypes DEF IsIndexMap
<1>3. SetPos(t, pos) /\ disk' = Written /\ tail' = Empty /\ failed' \in BOOLEAN
  BY DEF IInv, TypeOK
<1>4. pos = IF t \in DOMAIN indexMap THEN indexMap[t] ELSE NoPos
  OBVIOUS
<1> HIDE DEF pos
<1>5. /\ IsIndexMap(indexMap') /\ DOMAIN indexMap' = DOMAIN indexMap \cup {t}
      /\ \A u \in DOMAIN indexMap' : indexMap'[u] = IF u = t THEN pos ELSE indexMap[u]
  BY <1>1, <1>2, <1>3, SetPosType
<1>6. Partitioned(indexMap', freeBlockPoses, currentBlockPos)
  BY <1>1, <1>4, <1>5, SameBlocks
<1>7. IsFile(disk') /\ IsFile(tail')
  BY <1>3, WrittenIsFile, EmptyTypes DEF IInv, TypeOK
<1>8. TypeOK'
  BY <1>3, <1>5, <1>7 DEF IInv, TypeOK, WorkType, IsRunMap
<1>9. WorkFits' /\ DownIdle' /\ CopyIdle'
  BY <1>5 DEF IInv, WorkFits, DownIdle, CopyIdle, Idle
<1>10. BlocksPartitioned'
  BY <1>6 DEF IInv, BlocksPartitioned
<1> QED
  BY <1>8, <1>9, <1>10 DEF IInv

LEMMA SaveStorageMetaPreserves ==
  ASSUME IInv, SaveStorageMeta
  PROVE  IInv'
<1> USE DEF SaveStorageMeta, statics
<1>1. /\ meta'.indexMap = indexMap /\ meta'.freeBlockPoses = freeBlockPoses
      /\ meta'.currentBlockPos = currentBlockPos
  OBVIOUS
<1>2. TypeOK'
  BY <1>1 DEF IInv, TypeOK, WorkType, IsIndexMap, IsRunMap, IsFile
<1>3. WorkFits' /\ DownIdle' /\ CopyIdle'
  BY DEF IInv, WorkFits, DownIdle, CopyIdle
<1>4. BlocksPartitioned'
  BY <1>1 DEF IInv, BlocksPartitioned
<1> QED
  BY <1>2, <1>3, <1>4 DEF IInv

LEMMA ClosePreserves ==
  ASSUME IInv, Close
  PROVE  IInv'
<1> USE DEF Close, statics, observer
<1>1. IsFile(disk') /\ IsFile(tail')
  BY WrittenIsFile, EmptyTypes DEF IInv, TypeOK
<1>2. TypeOK'
  BY <1>1 DEF IInv, TypeOK, WorkType, IsIndexMap, IsRunMap
<1>3. WorkFits' /\ DownIdle' /\ CopyIdle'
  BY DEF IInv, WorkFits, DownIdle, CopyIdle
<1>4. BlocksPartitioned'
  BY DEF IInv, BlocksPartitioned
<1> QED
  BY <1>2, <1>3, <1>4 DEF IInv

\* The statics are gone; what was saved is partitioned as it was when it was saved.
LEMMA ProcessEndsPreserves ==
  ASSUME IInv, ProcessEnds
  PROVE  IInv'
<1>1. PICK cut \in DOMAIN tail \cup {Length(Written)} :
        /\ ends < MaxEnds /\ ends' = ends + 1 /\ proc' = "down" /\ failed' = FALSE
        /\ work' = Idle
        /\ indexMap' = Empty /\ freeBlockPoses' = NoRuns /\ currentBlockPos' = 0
        /\ disk' = Over(Before(tail, cut), disk)
        /\ tail' = Empty /\ expected' = savedExpected
        /\ lost' = lost \cup Released \cup SavedIn(DOMAIN From(tail, cut))
        /\ UNCHANGED <<meta, savedExpected>>
  BY DEF ProcessEnds
<1>2. IsFile(disk') /\ IsFile(tail')
  BY <1>1, EmptyTypes DEF IInv, TypeOK, IsFile, Over, Before
<1>3. lost' \subseteq Tokens
  <2>1. DOMAIN SavedMap \subseteq Tokens
    BY DEF IInv, TypeOK, IsIndexMap, SavedMap, Empty
  <2>2. /\ Released \subseteq DOMAIN SavedMap
        /\ SavedIn(DOMAIN From(tail, cut)) \subseteq DOMAIN SavedMap
    BY DEF Released, SavedIn
  <2> QED
    BY <1>1, <2>1, <2>2 DEF IInv, TypeOK
<1>4. WorkType'
  BY <1>1, ConstantTypes DEF WorkType, Idle, Empty, NoPos
<1>5. ends' \in 0 .. MaxEnds
  BY <1>1, StorageAssumption DEF IInv, TypeOK
<1>6. meta' # NoMeta => /\ IsIndexMap(meta'.indexMap) /\ IsRunMap(meta'.freeBlockPoses)
                        /\ meta'.currentBlockPos \in Nat
  BY <1>1 DEF IInv, TypeOK
<1>7. TypeOK'
  BY <1>1, <1>2, <1>3, <1>4, <1>5, <1>6, EmptyTypes DEF IInv, TypeOK
<1>8. WorkFits' /\ DownIdle' /\ CopyIdle'
  BY <1>1 DEF WorkFits, DownIdle, CopyIdle, Idle, Empty
<1>9. BlocksPartitioned'
  BY <1>1, EmptyTypes DEF IInv, BlocksPartitioned
<1> QED
  BY <1>7, <1>8, <1>9 DEF IInv

-----------------------------------------------------------------------------
LEMMA NextIInv == IInv /\ [Next]_vars => IInv'
<1> SUFFICES ASSUME IInv, [Next]_vars PROVE IInv'
  OBVIOUS
<1>1. CASE Construct
  BY <1>1, ConstructStep
<1>2. ASSUME NEW batch \in Batches, CreateIndex(batch) PROVE IInv'
  BY <1>2, CreateIndexPreserves
<1>3. ASSUME NEW t \in Tokens, KeepBlock(t) \/ MoveBlock(t) \/ NewBlock(t) PROVE IInv'
  BY <1>3, KeepBlockPreserves, MoveBlockPreserves, NewBlockPreserves
<1>4. CASE CopyChunk
  BY <1>4, CopyChunkPreserves
<1>5. CASE AppendRows
  BY <1>5, AppendRowsPreserves
<1>6. ASSUME NEW t \in Tokens, GetRawIndex(t) PROVE IInv'
  BY <1>6, GetRawIndexPreserves
<1>7. CASE SaveStorageMeta
  BY <1>7, SaveStorageMetaPreserves
<1>8. CASE Close
  BY <1>8, ClosePreserves
<1>9. CASE ProcessEnds
  BY <1>9, ProcessEndsPreserves
<1>10. CASE UNCHANGED vars
  <2>1. TypeOK' /\ WorkFits' /\ DownIdle' /\ CopyIdle'
    BY <1>10 DEF vars, statics, files, observer, IInv, TypeOK, WorkType, WorkFits,
                 DownIdle, CopyIdle, IsIndexMap, IsRunMap, IsFile
  <2>2. BlocksPartitioned'
    BY <1>10 DEF vars, statics, files, IInv, BlocksPartitioned
  <2> QED
    BY <2>1, <2>2 DEF IInv
<1> QED
  BY <1>1, <1>2, <1>3, <1>4, <1>5, <1>6, <1>7, <1>8, <1>9, <1>10 DEF Next, CreateIndexStep

\* The inductive invariant holds in every reachable state.
THEOREM Invariance == Spec => []IInv
<1>1. Init => IInv
  BY InitIInv
<1>2. IInv /\ [Next]_vars => IInv'
  BY NextIInv
<1> QED
  BY <1>1, <1>2, PTL DEF Spec

\* Type correctness, for every set of tokens and masks and every bound.
THEOREM TypeCorrect == Spec => []TypeOK
<1>1. IInv => TypeOK
  BY DEF IInv
<1> QED
  BY <1>1, Invariance, PTL

\* The base blocks of the file stay partitioned between the free runs and the
\* tokens, in memory and in what a restart loads, whatever is indexed, moved,
\* reused, saved or cut off by the end of the process.
THEOREM BlocksStayPartitioned == Spec => []BlocksPartitioned
<1>1. IInv => BlocksPartitioned
  BY DEF IInv
<1> QED
  BY <1>1, Invariance, PTL

-----------------------------------------------------------------------------
\* A batch is worked on by an object with an open stream.
WorkOpen == work # Idle => proc = "open"

LEMMA NextWorkOpen == IInv /\ WorkOpen /\ [Next]_vars => WorkOpen'
<1> SUFFICES ASSUME IInv, WorkOpen, [Next]_vars PROVE WorkOpen'
  OBVIOUS
<1>1. CASE Construct
  BY <1>1 DEF Construct, WorkOpen
<1>2. ASSUME NEW batch \in Batches, CreateIndex(batch) PROVE WorkOpen'
  BY <1>2 DEF CreateIndex, WorkOpen
<1>3. ASSUME NEW t \in Tokens, KeepBlock(t) \/ MoveBlock(t) \/ NewBlock(t) PROVE WorkOpen'
  BY <1>3 DEF KeepBlock, MoveBlock, NewBlock, NextOfBatch, WorkOpen
<1>4. CASE CopyChunk \/ AppendRows
  <2>1. work.token # NoToken /\ proc' = proc
    BY <1>4 DEF CopyChunk, AppendRows
  <2> QED
    BY <2>1 DEF WorkOpen, Idle
<1>5. ASSUME NEW t \in Tokens, GetRawIndex(t) PROVE WorkOpen'
  BY <1>5 DEF GetRawIndex, WorkOpen
<1>6. CASE SaveStorageMeta
  BY <1>6 DEF SaveStorageMeta, WorkOpen
<1>7. CASE Close
  BY <1>7 DEF Close, WorkOpen
<1>8. CASE ProcessEnds
  BY <1>8 DEF ProcessEnds, WorkOpen
<1>9. CASE UNCHANGED vars
  BY <1>9 DEF vars, WorkOpen
<1> QED
  BY <1>1, <1>2, <1>3, <1>4, <1>5, <1>6, <1>7, <1>8, <1>9 DEF Next, CreateIndexStep

\* A chunk has a row as long as any is left, and none that is not.
LEMMA ChunkFits ==
  ASSUME IInv, work.copied < work.old.bytesSize
  PROVE  /\ ChunkRows \in Nat \ {0} /\ work.copied \in Nat
         /\ work.copied + ChunkRows <= work.old.bytesSize
<1>1. work.old.bytesSize \in Nat /\ work.copied \in Nat
  BY StorageAssumption, BlockAssumption, ConstantTypes DEF IInv, TypeOK, WorkType, IndexPos
<1> QED
  BY <1>1, StorageAssumption DEF ChunkRows

LEMMA StepNearerReturn ==
  IInv /\ WorkOpen /\ [Next]_vars /\ ~ UNCHANGED vars => (work # Idle /\ work' # Idle => NearerReturn)
<1> SUFFICES ASSUME IInv, WorkOpen, Next, work # Idle, work' # Idle PROVE NearerReturn
  OBVIOUS
<1>0. proc = "open" /\ WorkType
  BY DEF WorkOpen, IInv, TypeOK
<1>1. CASE Construct
  BY <1>0, <1>1 DEF Construct
<1>2. CASE \E batch \in Batches : CreateIndex(batch)
  BY <1>2 DEF CreateIndex
<1>3. ASSUME NEW t \in Tokens, KeepBlock(t) \/ MoveBlock(t) \/ NewBlock(t) PROVE NearerReturn
  <2>1. t # NoToken /\ work.token = NoToken
    BY <1>3, StorageAssumption DEF KeepBlock, MoveBlock, NewBlock, NextOfBatch
  <2>2. work'.token = t /\ work'.batch = work.batch
    BY <1>0, <1>3 DEF KeepBlock, MoveBlock, NewBlock, WorkType
  <2> QED
    BY <2>1, <2>2 DEF NearerReturn
<1>4. CASE CopyChunk
  <2>1. work.copied < work.old.bytesSize /\ work' = [work EXCEPT !.copied = @ + ChunkRows]
    BY <1>4 DEF CopyChunk
  <2>2. /\ work'.batch = work.batch /\ work'.token = work.token /\ work'.old = work.old
        /\ work'.copied = work.copied + ChunkRows
    BY <1>0, <2>1 DEF WorkType
  <2>3. work.old.bytesSize \in Nat
    BY <1>0, ConstantTypes DEF WorkType, IndexPos
  <2> QED
    BY <2>1, <2>2, <2>3, ChunkFits DEF NearerReturn
<1>5. CASE AppendRows
  <2>1. work.token \in DOMAIN work.batch
    BY <1>0, <1>5 DEF AppendRows, WorkType
  <2>2. work'.batch = [u \in DOMAIN work.batch \ {work.token} |-> work.batch[u]]
    BY <1>5 DEF AppendRows, Idle
  <2>3. DOMAIN work'.batch = DOMAIN work.batch \ {work.token}
    BY <2>2
  <2> QED
    BY <2>1, <2>3 DEF NearerReturn
<1>6. CASE \E t \in Tokens : GetRawIndex(t)
  BY <1>6 DEF GetRawIndex
<1>7. CASE SaveStorageMeta \/ Close
  BY <1>7 DEF SaveStorageMeta, Close
<1>8. CASE ProcessEnds
  BY <1>8 DEF ProcessEnds
<1> QED
  BY <1>1, <1>2, <1>3, <1>4, <1>5, <1>6, <1>7, <1>8 DEF Next, CreateIndexStep

\* No step of a call of createIndex stands still or goes back, whatever the sizes of
\* the batch and of the chunks and whatever copies fail; with the fairness of the
\* thread that runs it, this is why the call returns (cpp:19-82).
THEOREM CallsAdvance == Spec => CallAdvances
<1>1. Init => WorkOpen
  BY DEF Init, WorkOpen
<1>2. IInv /\ WorkOpen /\ [Next]_vars => [work # Idle /\ work' # Idle => NearerReturn]_vars
  BY StepNearerReturn
<1> QED
  BY <1>1, <1>2, Invariance, NextWorkOpen, PTL DEF Spec, CallAdvances

\* A call of createIndex has a token to take in hand, or one in hand with a block of its
\* own to which rows are copied or appended: a call never gets stuck.
CanGoOn ==
  /\ proc = "open"
  /\ \/ \E t \in Tokens : NextOfBatch(t)
     \/ /\ work.token \in DOMAIN work.batch \cap DOMAIN indexMap
        /\ work.copied < work.old.bytesSize \/ work.copied = work.old.bytesSize

THEOREM CallsNeverStuck == Spec => [](work # Idle => CanGoOn)
<1>1. IInv /\ WorkOpen => (work # Idle => CanGoOn)
  <2> SUFFICES ASSUME IInv, WorkOpen, work # Idle PROVE CanGoOn
    OBVIOUS
  <2>1. WorkType /\ proc = "open"
    BY DEF IInv, TypeOK, WorkOpen
  <2>2. CASE work.token = NoToken
    <3>1. work.old = NoPos /\ work.copied = 0
      BY <2>2 DEF IInv, CopyIdle
    <3>2. work = [batch |-> work.batch, token |-> NoToken, old |-> NoPos, copied |-> 0]
      BY <2>1, <2>2, <3>1 DEF WorkType
    <3>3. work.batch = [t \in DOMAIN work.batch |-> work.batch[t]]
      BY <2>1 DEF WorkType
    <3>4. work.batch # Empty
      BY <3>2 DEF Idle
    <3>5. DOMAIN work.batch # {}
      BY <3>3, <3>4 DEF Empty
    <3>6. PICK t \in DOMAIN work.batch : t \in Tokens
      BY <2>1, <3>5 DEF WorkType
    <3> QED
      BY <2>1, <2>2, <3>6 DEF CanGoOn, NextOfBatch
  <2>3. CASE work.token # NoToken
    <3>1. work.token \in DOMAIN work.batch \cap DOMAIN indexMap
      BY <2>1, <2>3 DEF WorkType, IInv, WorkFits
    <3>2. work.copied \in 0 .. work.old.bytesSize /\ work.old.bytesSize \in Nat
      BY <2>1, ConstantTypes DEF WorkType, IndexPos
    <3>3. work.copied < work.old.bytesSize \/ work.copied = work.old.bytesSize
      BY <3>2
    <3> QED
      BY <2>1, <3>1, <3>3 DEF CanGoOn
  <2> QED
    BY <2>2, <2>3
<1>2. Init => WorkOpen
  BY DEF Init, WorkOpen
<1> QED
  BY <1>1, <1>2, Invariance, NextWorkOpen, PTL DEF Spec

-----------------------------------------------------------------------------
(***************************************************************************)
(* What SingleIndexStorage keeps in its file, for every set of tokens and  *)
(* masks and every bound: a token outside `lost` reads back its rows, also *)
(* while they are copied to a block that overlaps the one they leave, and  *)
(* as the next process will find them.  Addresses are computed in 32 bits, *)
(* so the theorems are about a file below half of what these can tell      *)
(* apart (2 GiB), and batches no larger than that.                         *)
(***************************************************************************)
\* The rows up to a head have addresses of which nothing wraps.
Small(head) == 2 * (head * BaseRows) < Span
FileSmall   == Small(currentBlockPos)
BatchesSmall == 2 * MaxIncoming <= Span

\* The entry of a token whose list it is, between two tokens of a batch.
Fits(pos, list) ==
  /\ pos.bytesSize = Len(list)
  /\ IF list = << >> THEN pos = NoPos ELSE pos.blockMask = GetMask(Len(list))
Sized(map, lists, T) ==
  \A t \in T : IF t \in DOMAIN map THEN Fits(map[t], lists[t]) ELSE lists[t] = << >>

\* The rows lo .. hi of a list are in the cells from an address on.
Held(file, at, list, lo, hi) ==
  \A i \in lo .. hi : at + i - 1 \in DOMAIN file /\ file[at + i - 1] = list[i]
First(pos) == BlockToPos(pos.blockStart, 0)
Reads(file, map, t, list) ==
  t \in DOMAIN map => Held(file, First(map[t]), list, 1, Len(list))

\* The token in hand: its block takes the rows that come; while it moves, as many rows
\* are in it as were copied, the others still in the block it leaves.
HandSized ==
  LET t == work.token IN
  t # NoToken =>
    LET pos == indexMap[t]
        len == Len(expected[t])
    IN  /\ pos.blockMask = GetMask(len + work.batch[t])
        /\ len + work.batch[t] < Span
        /\ work.old = NoPos => pos.bytesSize = len
        /\ work.old # NoPos => /\ pos.bytesSize = work.copied
                               /\ Fits(work.old, expected[t])
HandReads ==
  LET t == work.token IN
  t # NoToken /\ t \notin lost =>
    LET pos == indexMap[t]
    IN  /\ Held(Written, First(pos), expected[t], 1, pos.bytesSize)
        /\ Held(Written, First(work.old), expected[t], pos.bytesSize + 1, Len(expected[t]))

\* A copy runs forwards, so it must not write ahead of where it reads.
CopySafe ==
  work.token # NoToken /\ work.old # NoPos =>
    LET new == indexMap[work.token]
        old == work.old
    IN  /\ old.blockStart + old.blockMask <= currentBlockPos
        /\ \/ new.blockStart <= old.blockStart
           \/ old.blockStart + old.blockMask <= new.blockStart

\* Since the save a token has grown: its block is the one that was saved, or a larger one.
Grew(pos, now) ==
  /\ pos.blockMask <= now.blockMask
  /\ pos.blockMask = now.blockMask => pos.blockStart = now.blockStart
SavedBehind ==
  \A t \in DOMAIN SavedMap :
    SavedMap[t].bytesSize > 0 =>
      /\ t \in DOMAIN Map /\ Grew(SavedMap[t], Map[t])
      /\ t = work.token /\ work.old # NoPos => SavedMap[t].blockMask < Map[t].blockMask
Prefix(list, longer) ==
  Len(list) <= Len(longer) /\ \A i \in 1 .. Len(list) : list[i] = longer[i]

\* Between processes memory is empty, and what is expected is what was saved.
DownClean ==
  proc = "down" => indexMap = Empty /\ expected = savedExpected /\ failed = FALSE

\* A stream fails only over a token that is damaged, and the first process damages none.
FailsOverLost == /\ failed => lost # {}
                 /\ ends = 0 => lost = {}

SavedSized  == Sized(SavedMap, savedExpected, Tokens)
MapSized    == Sized(Map, expected, Tokens \ {work.token})
RowsRead    == \A t \in Tokens \ (lost \cup {work.token}) : Reads(Written, Map, t, expected[t])
SavedPrefix == \A t \in Tokens : Prefix(savedExpected[t], expected[t])
SavedSmall  == meta # NoMeta => Small(meta.currentBlockPos)
FilesFinite == IsFiniteSet(DOMAIN disk) /\ IsFiniteSet(DOMAIN tail)

CInv ==
  /\ SavedSized /\ MapSized /\ HandSized
  /\ RowsRead /\ HandReads /\ CopySafe
  /\ SavedBehind /\ SavedPrefix /\ SavedSmall
  /\ DownClean /\ FilesFinite /\ FailsOverLost

-----------------------------------------------------------------------------
\* Blocks as ranges of rows.
FirstRow(pos) == pos.blockStart * BaseRows
Capacity(pos) == pos.blockMask * BaseRows
IsBlock(pos)  == pos.blockStart \in Nat /\ pos.blockMask \in Nat
Below(pos, head) == pos.blockStart + pos.blockMask <= head

LEMMA Rows ==
  ASSUME NEW b \in Nat, NEW c \in Nat
  PROVE  /\ b * BaseRows \in Nat
         /\ (b + c) * BaseRows = b * BaseRows + c * BaseRows
         /\ b <= c => b * BaseRows <= c * BaseRows
<1>1. BaseRows \in Nat
  BY BlockAssumption
<1>2. b * BaseRows \in Nat /\ (b + c) * BaseRows = b * BaseRows + c * BaseRows
  BY <1>1
<1>3. b <= c => b * BaseRows <= c * BaseRows
  <2> SUFFICES ASSUME b <= c PROVE b * BaseRows <= c * BaseRows
    OBVIOUS
  <2>1. PICK d \in Nat : c = b + d
    <3>1. c - b \in Nat /\ c = b + (c - b)
      OBVIOUS
    <3> QED
      BY <3>1
  <2>2. (b + d) * BaseRows = b * BaseRows + d * BaseRows /\ d * BaseRows \in Nat
    BY <1>1
  <2>3. c * BaseRows = b * BaseRows + d * BaseRows
    BY <2>1, <2>2
  <2> QED
    BY <1>2, <2>2, <2>3
<1> QED
  BY <1>2, <1>3

\* In a small file the address of a row of a block does not wrap.
LEMMA BlockRows ==
  ASSUME NEW pos, IsBlock(pos), NEW head \in Nat, Below(pos, head), Small(head)
  PROVE  /\ FirstRow(pos) \in Nat /\ Capacity(pos) \in Nat
         /\ 2 * (FirstRow(pos) + Capacity(pos)) < Span
         /\ First(pos) = FirstRow(pos)
         /\ \A k \in Nat : k <= Capacity(pos) => BlockToPos(pos.blockStart, k) = FirstRow(pos) + k
<1>1. /\ FirstRow(pos) \in Nat /\ Capacity(pos) \in Nat /\ head * BaseRows \in Nat
      /\ (pos.blockStart + pos.blockMask) * BaseRows = FirstRow(pos) + Capacity(pos)
      /\ (pos.blockStart + pos.blockMask) * BaseRows <= head * BaseRows
  <2>1. pos.blockStart + pos.blockMask \in Nat /\ pos.blockStart + pos.blockMask <= head
    BY DEF IsBlock, Below
  <2> QED
    BY <2>1, Rows DEF IsBlock, FirstRow, Capacity
<1>2. Span \in Nat /\ Span > 0 /\ 2 * (head * BaseRows) < Span
  BY BlockAssumption DEF Small
<1>3. 2 * (FirstRow(pos) + Capacity(pos)) < Span
  BY <1>1, <1>2
<1>4. \A x \in Nat : x < Span => x % Span = x
  BY <1>2
<1>5. ASSUME NEW k \in Nat, k <= Capacity(pos)
      PROVE  BlockToPos(pos.blockStart, k) = FirstRow(pos) + k
  <2>1. FirstRow(pos) + k \in Nat /\ FirstRow(pos) + k < Span
    BY <1>1, <1>2, <1>3, <1>5
  <2>2. (FirstRow(pos) + k) % Span = FirstRow(pos) + k
    BY <1>4, <2>1
  <2> QED
    BY <2>2 DEF BlockToPos, FirstRow
<1>6. First(pos) = FirstRow(pos)
  <2>1. BlockToPos(pos.blockStart, 0) = FirstRow(pos) + 0
    BY <1>1, <1>5
  <2> QED
    BY <1>1, <2>1 DEF First
<1> QED
  BY <1>1, <1>3, <1>5, <1>6

\* Two blocks that share no base block share no row.
Apart(p, q) ==
  \A i, j \in Nat :
    i < Capacity(p) /\ j < Capacity(q) => FirstRow(p) + i # FirstRow(q) + j

LEMMA BlocksApart ==
  ASSUME NEW p, IsBlock(p), NEW q, IsBlock(q),
         \/ p.blockStart + p.blockMask <= q.blockStart
         \/ q.blockStart + q.blockMask <= p.blockStart
  PROVE  Apart(p, q)
<1>1. /\ FirstRow(p) \in Nat /\ Capacity(p) \in Nat
      /\ FirstRow(q) \in Nat /\ Capacity(q) \in Nat
      /\ (p.blockStart + p.blockMask) * BaseRows = FirstRow(p) + Capacity(p)
      /\ (q.blockStart + q.blockMask) * BaseRows = FirstRow(q) + Capacity(q)
  BY Rows DEF IsBlock, FirstRow, Capacity
<1>2. CASE p.blockStart + p.blockMask <= q.blockStart
  <2>1. p.blockStart + p.blockMask \in Nat /\ q.blockStart \in Nat
    BY DEF IsBlock
  <2>2. (p.blockStart + p.blockMask) * BaseRows <= FirstRow(q)
    BY <1>2, <2>1, Rows DEF FirstRow
  <2> QED
    BY <1>1, <2>2 DEF Apart
<1>3. CASE q.blockStart + q.blockMask <= p.blockStart
  <2>1. q.blockStart + q.blockMask \in Nat /\ p.blockStart \in Nat
    BY DEF IsBlock
  <2>2. (q.blockStart + q.blockMask) * BaseRows <= FirstRow(p)
    BY <1>3, <2>1, Rows DEF FirstRow
  <2> QED
    BY <1>1, <2>2 DEF Apart
<1> QED
  BY <1>2, <1>3

LEMMA OwnersApart ==
  ASSUME NEW map, IsIndexMap(map), NEW free, NEW head \in Nat, Partitioned(map, free, head),
         NEW t \in DOMAIN map, NEW u \in DOMAIN map, t # u
  PROVE  Apart(map[t], map[u])
<1> DEFINE p == map[t]
           q == map[u]
<1>1. IsBlock(p) /\ IsBlock(q)
  BY BlockAssumption DEF IsIndexMap, IndexPos, IsBlock
<1>2. p.blockStart + p.blockMask <= head /\ q.blockStart + q.blockMask <= head
  BY DEF Partitioned
<1>3. \A b \in 0 .. head - 1 : ~ (InRun(b, p.blockStart, p.blockMask) /\ InRun(b, q.blockStart, q.blockMask))
  BY DEF Partitioned, Owns
<1> HIDE DEF p, q
<1>4. CASE p.blockMask = 0 \/ q.blockMask = 0
  <2>1. Capacity(p) = 0 \/ Capacity(q) = 0
    BY <1>4, BlockAssumption DEF Capacity
  <2> QED
    BY <2>1 DEF Apart, p, q
<1>5. CASE /\ p.blockMask > 0 /\ q.blockMask > 0
           /\ ~ (\/ p.blockStart + p.blockMask <= q.blockStart
                 \/ q.blockStart + q.blockMask <= p.blockStart)
  <2> DEFINE b == IF p.blockStart <= q.blockStart THEN q.blockStart ELSE p.blockStart
  <2>1. b \in 0 .. head - 1
    BY <1>1, <1>2, <1>5 DEF IsBlock
  <2>2. InRun(b, p.blockStart, p.blockMask) /\ InRun(b, q.blockStart, q.blockMask)
    BY <1>1, <1>5 DEF IsBlock, InRun
  <2> QED
    BY <1>3, <2>1, <2>2
<1>6. CASE \/ p.blockStart + p.blockMask <= q.blockStart
           \/ q.blockStart + q.blockMask <= p.blockStart
  BY <1>1, <1>6, BlocksApart DEF p, q
<1> QED
  BY <1>1, <1>4, <1>5, <1>6 DEF IsBlock

\* getMask grows with the size, and what it returns takes that many rows.
LEMMA GetMaskGrows ==
  ASSUME NEW m \in 0 .. Span - 1, NEW n \in 0 .. Span - 1, m <= n
  PROVE  GetMask(m) <= GetMask(n)
<1>1. GetMask(n) \in BlockMasks /\ Accepts(GetMask(n), n)
  BY GetMaskFits
<1>2. (GetMask(n) * BaseRows) % Span \in 0 .. Span - 1
  BY <1>1, BlockAssumption, Rows, ConstantTypes
<1>3. Accepts(GetMask(n), m)
  BY <1>1, <1>2, BlockAssumption DEF Accepts
<1> QED
  BY <1>1, <1>3, GetMaskFits

LEMMA GetMaskTakes ==
  ASSUME NEW n \in 0 .. Span - 1, NEW pos, IsBlock(pos), pos.blockMask = GetMask(n),
         NEW head \in Nat, Below(pos, head), Small(head)
  PROVE  n <= Capacity(pos)
<1>1. Capacity(pos) \in Nat /\ 2 * Capacity(pos) < Span
  <2>1. /\ FirstRow(pos) \in Nat /\ Capacity(pos) \in Nat
        /\ 2 * (FirstRow(pos) + Capacity(pos)) < Span
    BY BlockRows
  <2> QED
    BY <2>1, BlockAssumption
<1>2. Accepts(pos.blockMask, n)
  BY GetMaskFits
<1>3. Span \in Nat /\ Capacity(pos) % Span = Capacity(pos)
  BY <1>1, BlockAssumption
<1> QED
  BY <1>1, <1>2, <1>3 DEF Accepts, Capacity

\* A token moves to the start of the run its own block has become part of, or out of
\* that block's way: lower_bound looks back one block only.
LEMMA MovesDown ==
  ASSUME NEW free, IsRunMap(free), RunsDisjoint(free),
         NEW start \in Nat, NEW count \in Nat \ {0},
         \A b \in Nat : InRun(b, start, count) => ~ IsFree(free, b),
         NEW head \in Nat, start + count <= head, NEW mask
  PROVE  LET new == GetNewBlock(MarkBlockAvailable(free, start, count), head, mask)
         IN  new.start <= start \/ start + count <= new.start
<1> DEFINE runs  == MarkBlockAvailable(free, start, count)
           new   == GetNewBlock(runs, head, mask)
           prev  == MergesPrev(free, start)
           next  == MergesNext(free, start, count)
           first == IF prev THEN start - 1 ELSE start
           before == IF prev THEN free[start - 1] ELSE 0
           after  == IF next THEN free[start + count] ELSE 0
           kept  == DOMAIN free \ ((IF prev THEN {start - 1} ELSE {})
                                     \cup (IF next THEN {start + count} ELSE {}))
<1>1. IsRunMap(runs) /\ RunsDisjoint(runs)
  <2>1. count \in Nat
    OBVIOUS
  <2> QED
    BY <2>1, MarkBlockAvailableAdds
<1>2. /\ first \in Nat /\ first <= start
      /\ before \in Nat /\ first + before = start
  BY MergedPrev DEF IsRunMap
<1>3. after \in Nat
  BY MergedNext DEF IsRunMap
<1>4. first \in DOMAIN runs /\ runs[first] = before + count + after
  <2>1. runs = [k \in kept \cup {first} |-> IF k = first THEN before + count + after ELSE free[k]]
    BY DEF MarkBlockAvailable
  <2> HIDE DEF runs, kept, first, before, after
  <2> QED
    BY <2>1
<1> HIDE DEF runs, first, before, after
<1>5. CASE FirstFit(runs, mask) # {}
  <2> DEFINE at == CHOOSE k \in FirstFit(runs, mask) : TRUE
  <2>1. at \in DOMAIN runs /\ new.start = at
    BY <1>5 DEF GetNewBlock, FirstFit
  <2>2. at \in Nat /\ (first < at => first + runs[first] <= at)
    BY <1>1, <1>4, <2>1 DEF IsRunMap, RunsDisjoint
  <2> HIDE DEF at
  <2>3. at <= first \/ start + count <= at
    BY <1>2, <1>3, <1>4, <2>2
  <2>4. at <= start \/ start + count <= at
    BY <1>2, <2>2, <2>3
  <2> QED
    BY <2>1, <2>4 DEF runs
<1>6. CASE FirstFit(runs, mask) = {}
  <2>1. new.start = head
    BY <1>6 DEF GetNewBlock
  <2> QED
    BY <2>1 DEF runs
<1> QED
  BY <1>5, <1>6

-----------------------------------------------------------------------------
\* Rows in cells, through writes elsewhere and into the buffer of the stream.
LEMMA HeldThrough ==
  ASSUME NEW file, NEW new, NEW at, NEW list, NEW lo, NEW hi,
         Held(file, at, list, lo, hi),
         \A i \in lo .. hi : at + i - 1 \notin DOMAIN new
  PROVE  Held(Over(new, file), at, list, lo, hi)
<1>1. /\ DOMAIN Over(new, file) = DOMAIN new \cup DOMAIN file
      /\ \A a \in DOMAIN file : a \notin DOMAIN new => Over(new, file)[a] = file[a]
  BY OverCells
<1>2. \A i \in lo .. hi : at + i - 1 \in DOMAIN file /\ file[at + i - 1] = list[i]
  BY DEF Held
<1> QED
  BY <1>1, <1>2, Zenon DEF Held

LEMMA HeldPlaced ==
  ASSUME NEW n \in Nat, NEW S, NEW cells \in [1 .. n -> S], NEW file,
         NEW at \in Nat, NEW k \in Nat, NEW list,
         \A i \in 1 .. n : list[k + i] = cells[i]
  PROVE  Held(Over(Place(cells, at + k), file), at, list, k + 1, k + n)
<1> DEFINE put == Place(cells, at + k)
<1>1. at + k \in Nat
  OBVIOUS
<1>2. /\ DOMAIN put = at + k .. at + k + n - 1
      /\ \A i \in 1 .. n : put[at + k + i - 1] = cells[i]
  <2>1. /\ DOMAIN put = (at + k) .. (at + k) + n - 1
        /\ \A i \in 1 .. n : put[(at + k) + i - 1] = cells[i]
    <3> DEFINE to == at + k
    <3>1. to \in Nat
      BY <1>1
    <3> HIDE DEF to
    <3>2. /\ DOMAIN Place(cells, to) = to .. to + n - 1
          /\ \A i \in 1 .. n : Place(cells, to)[to + i - 1] = cells[i]
      <4>1. Len(cells) = n
        OBVIOUS
      <4>2. \A i \in 1 .. n : to + i - 1 \in to .. to + n - 1 /\ (to + i - 1) - to + 1 = i
        BY <3>1
      <4> QED
        BY <4>1, <4>2 DEF Place
    <3> QED
      BY <3>2 DEF to
  <2> QED
    BY <2>1
<1> HIDE DEF put
<1>3. ASSUME NEW i \in k + 1 .. k + n
      PROVE  at + i - 1 \in DOMAIN put /\ put[at + i - 1] = list[i]
  <2>1. PICK j \in 1 .. n : i = k + j
    <3>1. i - k \in 1 .. n /\ i = k + (i - k)
      OBVIOUS
    <3> QED
      BY <3>1
  <2>2. at + i - 1 = at + k + j - 1 /\ at + i - 1 \in at + k .. at + k + n - 1
    BY <2>1
  <2> QED
    BY <1>2, <2>1, <2>2
<1>4. /\ DOMAIN Over(put, file) = DOMAIN put \cup DOMAIN file
      /\ \A a \in DOMAIN put : Over(put, file)[a] = put[a]
  BY OverCells
<1> QED
  BY <1>3, <1>4 DEF Held, put

\* Nothing written over a file, and a file written over itself.
LEMMA HeldFlushed ==
  ASSUME NEW file, NEW at, NEW list, NEW lo, NEW hi, Held(file, at, list, lo, hi)
  PROVE  Held(Over(Empty, file), at, list, lo, hi)
<1>1. DOMAIN Empty = {}
  BY DEF Empty
<1> QED
  BY <1>1, HeldThrough

LEMMA HeldSplit ==
  ASSUME NEW file, NEW at, NEW list, NEW lo \in Nat, NEW mid \in Nat, NEW hi \in Nat,
         Held(file, at, list, lo, mid), Held(file, at, list, mid + 1, hi)
  PROVE  Held(file, at, list, lo, hi)
<1>1. \A i \in lo .. hi : i \in lo .. mid \/ i \in mid + 1 .. hi
  OBVIOUS
<1> QED
  BY <1>1 DEF Held

\* Rows that are there can be read.
LEMMA HeldReadable ==
  ASSUME NEW file, DOMAIN file \subseteq Nat, IsFiniteSet(DOMAIN file),
         NEW at \in Nat, NEW list, NEW lo \in Nat, NEW hi \in Nat, lo >= 1,
         Held(file, at, list, lo, hi), NEW n \in Nat, lo + n - 1 <= hi
  PROVE  Readable(file, at + (lo - 1), n)
<1>1. CASE n = 0
  BY <1>1 DEF Readable
<1>2. CASE n > 0
  <2>1. lo + n - 1 \in lo .. hi
    BY <1>2
  <2>2. at + (lo + n - 1) - 1 \in DOMAIN file
    BY <2>1 DEF Held
  <2>3. at + (lo + n - 1) - 1 < Length(file) /\ Length(file) \in Nat
    BY <2>2, LengthPast
  <2> QED
    BY <2>3 DEF Readable
<1> QED
  BY <1>1, <1>2

\* What is read is what is there.
LEMMA HeldSlice ==
  ASSUME NEW file, NEW at \in Nat, NEW list, NEW k \in Nat, NEW n \in Nat,
         Held(file, at, list, k + 1, k + n)
  PROVE  \A i \in 1 .. n : Slice(file, at + k, n)[i] = list[k + i]
<1> TAKE i \in 1 .. n
<1>1. k + i \in k + 1 .. k + n /\ at + (k + i) - 1 = at + k + i - 1
  OBVIOUS
<1>2. at + k + i - 1 \in DOMAIN file /\ file[at + k + i - 1] = list[k + i]
  BY <1>1 DEF Held
<1> QED
  BY <1>2 DEF Slice, Cell

-----------------------------------------------------------------------------
\* What the types and the partition say of the blocks of tokens.
IsOwned(pos, head) == IsBlock(pos) /\ Below(pos, head) /\ pos.bytesSize \in 0 .. Span - 1

LEMMA Owned ==
  ASSUME IInv
  PROVE  /\ currentBlockPos \in Nat
         /\ \A t \in DOMAIN indexMap : t \in Tokens /\ IsOwned(indexMap[t], currentBlockPos)
         /\ \A t \in DOMAIN SavedMap :
              /\ t \in Tokens /\ meta # NoMeta /\ meta.currentBlockPos \in Nat
              /\ IsOwned(SavedMap[t], meta.currentBlockPos)
<1>1. ASSUME NEW map, IsIndexMap(map), NEW free, NEW head, Partitioned(map, free, head),
             NEW t \in DOMAIN map
      PROVE  t \in Tokens /\ IsOwned(map[t], head)
  <2>1. map[t] \in IndexPos /\ t \in Tokens
    BY <1>1 DEF IsIndexMap
  <2>2. IsBlock(map[t]) /\ map[t].bytesSize \in 0 .. Span - 1
    <3>1. map[t].blockMask \in BlockMasks \cup {0} /\ map[t].blockStart \in Nat
          /\ map[t].bytesSize \in 0 .. Span - 1
      BY <2>1 DEF IndexPos
    <3>2. \A m \in BlockMasks \cup {0} : m \in Nat
      BY BlockAssumption
    <3>3. map[t].blockMask \in Nat
      BY <3>1, <3>2
    <3> QED
      BY <3>1, <3>3 DEF IsBlock
  <2>3. Below(map[t], head)
    BY <1>1 DEF Partitioned, Below
  <2> QED
    BY <2>1, <2>2, <2>3 DEF IsOwned
<1>2. /\ IsIndexMap(indexMap) /\ currentBlockPos \in Nat
      /\ Partitioned(indexMap, freeBlockPoses, currentBlockPos)
  BY DEF IInv, TypeOK, BlocksPartitioned
<1>3. meta # NoMeta => /\ IsIndexMap(SavedMap) /\ meta.currentBlockPos \in Nat
                       /\ Partitioned(SavedMap, meta.freeBlockPoses, meta.currentBlockPos)
  BY DEF IInv, TypeOK, BlocksPartitioned, SavedMap
<1>4. meta = NoMeta => DOMAIN SavedMap = {}
  BY DEF SavedMap, Empty
<1> QED
  BY <1>1, <1>2, <1>3, <1>4

LEMMA Types ==
  ASSUME IInv
  PROVE  /\ \A t \in Tokens : /\ expected[t] \in Seq(Row) /\ Len(expected[t]) \in Nat
                              /\ savedExpected[t] \in Seq(Row) /\ Len(savedExpected[t]) \in Nat
         /\ IsFile(Written) /\ DOMAIN Written \subseteq Nat /\ IsFile(disk) /\ IsFile(tail)
         /\ proc # "down" => Map = indexMap
         /\ proc = "down" => Map = SavedMap
         /\ NoToken \notin Tokens
         /\ work.token = NoToken => work.old = NoPos /\ work.copied = 0
         /\ NoPos.blockStart = 0 /\ NoPos.blockMask = 0 /\ NoPos.bytesSize = 0
<1>1. IsFile(Written) /\ IsFile(disk) /\ IsFile(tail)
  BY WrittenIsFile DEF IInv, TypeOK
<1>2. \A t \in Tokens : /\ expected[t] \in Seq(Row) /\ Len(expected[t]) \in Nat
                        /\ savedExpected[t] \in Seq(Row) /\ Len(savedExpected[t]) \in Nat
  BY DEF IInv, TypeOK
<1> QED
  BY <1>1, <1>2, StorageAssumption DEF IsFile, Map, IInv, CopyIdle, NoPos

\* The rows of a token fit its block.
LEMMA FitsCapacity ==
  ASSUME NEW pos, NEW head \in Nat, IsOwned(pos, head), Small(head), NEW list, Fits(pos, list)
  PROVE  Len(list) <= Capacity(pos) /\ 2 * Len(list) < Span
<1>1. /\ IsBlock(pos) /\ Below(pos, head) /\ Len(list) \in 0 .. Span - 1
      /\ FirstRow(pos) \in Nat /\ Capacity(pos) \in Nat
      /\ 2 * (FirstRow(pos) + Capacity(pos)) < Span
  BY BlockRows DEF IsOwned, Fits
<1>2. CASE list = << >>
  <2>1. Len(list) = 0
    BY <1>2
  <2> QED
    BY <1>1, <2>1, BlockAssumption
<1>3. CASE list # << >>
  <2>1. Len(list) <= Capacity(pos)
    BY <1>1, <1>3, GetMaskTakes DEF Fits
  <2> QED
    BY <1>1, <2>1, BlockAssumption
<1> QED
  BY <1>2, <1>3

\* What a token needs for the rows that come, without a wrap.
LEMMA GrownExact ==
  ASSUME IInv, CInv, FileSmall, BatchesSmall, proc # "down",
         NEW t \in DOMAIN indexMap, work.token # t, t \in DOMAIN work.batch
  PROVE  /\ t \in Tokens /\ Fits(indexMap[t], expected[t])
         /\ Grown(t) = Len(expected[t]) + work.batch[t]
         /\ Len(expected[t]) + work.batch[t] \in 1 .. Span - 1
         /\ Len(expected[t]) \in 0 .. Span - 1
<1>1. t \in Tokens /\ IsOwned(indexMap[t], currentBlockPos) /\ currentBlockPos \in Nat
  BY Owned
<1>2. Fits(indexMap[t], expected[t])
  BY <1>1, Types DEF CInv, MapSized, Sized
<1>3. 2 * Len(expected[t]) < Span /\ Len(expected[t]) \in Nat
  BY <1>1, <1>2, FitsCapacity, Types DEF FileSmall
<1>4. work.batch[t] \in 1 .. MaxIncoming
  BY WorkFacts
<1>5. Len(expected[t]) + work.batch[t] \in 1 .. Span - 1
  <2> DEFINE k == work.batch[t]
             n == Len(expected[t])
  <2>1. k \in Nat /\ k >= 1 /\ k <= MaxIncoming
    BY <1>4, StorageAssumption
  <2>2. 2 * k <= Span /\ Span \in Nat
    BY <2>1, BlockAssumption, StorageAssumption DEF BatchesSmall
  <2> HIDE DEF k, n
  <2>3. n \in Nat /\ 2 * n < Span
    BY <1>3 DEF n
  <2>4. n + k \in 1 .. Span - 1
    BY <2>1, <2>2, <2>3
  <2> QED
    BY <2>4 DEF n, k
<1>6. Grown(t) = Len(expected[t]) + work.batch[t]
  <2>1. indexMap[t].bytesSize = Len(expected[t])
    BY <1>2 DEF Fits
  <2> QED
    BY <1>5, <2>1, BlockAssumption DEF Grown
<1> QED
  BY <1>1, <1>2, <1>3, <1>5, <1>6, BlockAssumption

-----------------------------------------------------------------------------
LEMMA InitCInv == Init => CInv
<1> SUFFICES ASSUME Init PROVE CInv
  OBVIOUS
<1>1. /\ DOMAIN Empty = {} /\ indexMap = Empty /\ meta = NoMeta /\ SavedMap = Empty /\ Map = Empty
      /\ \A t \in Tokens : expected[t] = << >> /\ savedExpected[t] = << >>
      /\ expected = savedExpected /\ work.token = NoToken /\ failed = FALSE /\ lost = {}
      /\ disk = Empty /\ tail = Empty /\ proc = "down"
  BY DEF Init, Empty, SavedMap, Map, Idle
<1>2. SavedSized /\ MapSized
  BY <1>1 DEF SavedSized, MapSized, Sized
<1>3. HandSized /\ HandReads /\ CopySafe
  BY <1>1 DEF HandSized, HandReads, CopySafe
<1>4. RowsRead /\ SavedBehind
  BY <1>1 DEF RowsRead, Reads, SavedBehind
<1>5. SavedPrefix
  <2>1. Len(<< >>) = 0
    OBVIOUS
  <2> QED
    BY <1>1, <2>1 DEF SavedPrefix, Prefix
<1>6. SavedSmall /\ DownClean /\ FailsOverLost
  BY <1>1 DEF SavedSmall, DownClean, FailsOverLost
<1>7. FilesFinite
  BY <1>1, FS_EmptySet DEF FilesFinite
<1> QED
  BY <1>2, <1>3, <1>4, <1>5, <1>6, <1>7 DEF CInv

\* What no step but the save touches.
LEMMA SavedStays ==
  ASSUME CInv, meta' = meta, savedExpected' = savedExpected
  PROVE  SavedSized' /\ SavedSmall' /\ SavedMap' = SavedMap
<1>1. SavedMap' = SavedMap
  BY DEF SavedMap
<1> QED
  BY <1>1 DEF CInv, SavedSized, Sized, SavedSmall

\* The map that is loaded is the one that was in force between the processes.
LEMMA ConstructKeeps ==
  ASSUME IInv, CInv, Construct
  PROVE  CInv'
<1>1. /\ proc \in {"down", "closed"} /\ proc' = "open" /\ failed' = FALSE
      /\ UNCHANGED <<work, disk, tail, meta, expected, savedExpected, lost, ends>>
  BY DEF Construct, files, observer
<1>2. Map' = Map /\ (work.token # NoToken => indexMap' = indexMap /\ currentBlockPos' = currentBlockPos)
  <2>0. Map' = indexMap'
    BY <1>1 DEF Map
  <2>1. CASE proc = "down" /\ meta # NoMeta
    <3>1. Map = SavedMap /\ indexMap' = SavedMap /\ work.token = NoToken
      BY <2>1 DEF Construct, Map, IInv, DownIdle, Idle
    <3> QED
      BY <2>0, <3>1
  <2>2. CASE proc = "down" /\ meta = NoMeta
    <3>1. Map = Empty /\ indexMap' = indexMap /\ indexMap = Empty /\ work.token = NoToken
      BY <2>2 DEF Construct, statics, Map, SavedMap, CInv, DownClean, IInv, DownIdle, Idle
    <3> QED
      BY <2>0, <3>1
  <2>3. CASE proc # "down"
    <3>1. Map = indexMap /\ indexMap' = indexMap /\ currentBlockPos' = currentBlockPos
      BY <2>3 DEF Construct, statics, Map
    <3> QED
      BY <2>0, <3>1
  <2> QED
    BY <2>1, <2>2, <2>3
<1>3. Written' = Written
  BY <1>1 DEF Written
<1>4. SavedSized' /\ SavedSmall' /\ SavedMap' = SavedMap
  BY <1>1, SavedStays
<1>5. MapSized' /\ RowsRead'
  BY <1>1, <1>2, <1>3 DEF CInv, MapSized, Sized, RowsRead
<1>6. HandSized' /\ HandReads' /\ CopySafe'
  BY <1>1, <1>2, <1>3 DEF CInv, HandSized, HandReads, CopySafe
<1>7. SavedBehind' /\ SavedPrefix'
  BY <1>1, <1>2, <1>4 DEF CInv, SavedBehind, SavedPrefix
<1>8. DownClean' /\ FilesFinite' /\ FailsOverLost'
  BY <1>1 DEF CInv, DownClean, FilesFinite, FailsOverLost
<1> QED
  BY <1>4, <1>5, <1>6, <1>7, <1>8 DEF CInv

LEMMA CreateIndexKeeps ==
  ASSUME IInv, CInv, NEW batch \in Batches, CreateIndex(batch)
  PROVE  CInv'
<1>1. /\ proc = "open" /\ work = Idle /\ work' = [Idle EXCEPT !.batch = batch]
      /\ UNCHANGED <<indexMap, freeBlockPoses, currentBlockPos, proc, failed, disk, tail, meta,
                     expected, savedExpected, lost, ends>>
  BY DEF CreateIndex, statics, files, observer
<1>2. work.token = NoToken /\ work'.token = NoToken
  BY <1>1 DEF Idle
<1>3. Map' = Map /\ Written' = Written /\ SavedMap' = SavedMap
  BY <1>1 DEF Map, SavedMap, Written
<1>4. SavedSized' /\ SavedSmall' /\ MapSized' /\ RowsRead'
  BY <1>1, <1>2, <1>3 DEF CInv, SavedSized, SavedSmall, MapSized, Sized, RowsRead
<1>5. HandSized' /\ HandReads' /\ CopySafe'
  BY <1>2 DEF HandSized, HandReads, CopySafe
<1>6. SavedBehind'
  <2>1. NoToken \notin DOMAIN SavedMap
    BY Owned, Types
  <2> QED
    BY <1>1, <1>2, <1>3, <2>1 DEF CInv, SavedBehind
<1>7. SavedPrefix' /\ DownClean' /\ FilesFinite' /\ FailsOverLost'
  BY <1>1 DEF CInv, SavedPrefix, DownClean, FilesFinite, FailsOverLost
<1> QED
  BY <1>4, <1>5, <1>6, <1>7 DEF CInv

\* The token taken in hand keeps its block: all its rows are there.
LEMMA KeepBlockKeeps ==
  ASSUME IInv, CInv, FileSmall, BatchesSmall, NEW t \in Tokens, KeepBlock(t)
  PROVE  CInv'
<1>1. /\ proc = "open" /\ work.token = NoToken /\ t \in DOMAIN work.batch /\ t \in DOMAIN indexMap
      /\ indexMap[t].blockMask = GetMask(Grown(t)) /\ work' = [work EXCEPT !.token = t]
      /\ UNCHANGED <<indexMap, freeBlockPoses, currentBlockPos, proc, failed, disk, tail, meta,
                     expected, savedExpected, lost, ends>>
  BY DEF KeepBlock, NextOfBatch, statics, files, observer
<1>2. /\ work'.token = t /\ work'.batch = work.batch /\ work'.old = NoPos
      /\ work.old = NoPos /\ t # NoToken
  BY <1>1, Types DEF IInv, TypeOK, WorkType
<1>3. /\ Fits(indexMap[t], expected[t]) /\ Grown(t) = Len(expected[t]) + work.batch[t]
      /\ Len(expected[t]) \in Nat
  BY <1>1, <1>2, GrownExact, Types
<1>4. Map' = Map /\ Map = indexMap /\ Written' = Written /\ SavedMap' = SavedMap
  BY <1>1 DEF Map, SavedMap, Written
<1>5. SavedSized' /\ SavedSmall' /\ MapSized' /\ RowsRead'
  <2>1. SavedSized' /\ SavedSmall'
    BY <1>1, SavedStays
  <2>2. \A u \in Tokens : u # t => u \in Tokens \ {work.token}
    BY <1>1, Types
  <2>3. MapSized'
    BY <1>1, <1>2, <1>4, <2>2 DEF CInv, MapSized, Sized
  <2>4. RowsRead'
    BY <1>1, <1>2, <1>4, <2>2 DEF CInv, RowsRead
  <2> QED
    BY <2>1, <2>3, <2>4
<1>6. HandSized'
  <2>1. Len(expected[t]) + work.batch[t] \in 1 .. Span - 1
    BY <1>1, <1>2, GrownExact
  <2>2. Len(expected[t]) + work.batch[t] < Span
    BY <2>1, BlockAssumption
  <2> QED
    BY <1>1, <1>2, <1>3, <2>2 DEF HandSized, Fits
<1>7. HandReads'
  <2> SUFFICES ASSUME t \notin lost
               PROVE  /\ Held(Written, First(indexMap[t]), expected[t], 1, indexMap[t].bytesSize)
                      /\ Held(Written, First(NoPos), expected[t], indexMap[t].bytesSize + 1,
                              Len(expected[t]))
    BY <1>1, <1>2, <1>4 DEF HandReads
  <2>1. indexMap[t].bytesSize = Len(expected[t])
    BY <1>3 DEF Fits
  <2>2. Held(Written, First(indexMap[t]), expected[t], 1, Len(expected[t]))
    BY <1>1, <1>2, <1>4 DEF CInv, RowsRead, Reads
  <2>3. Len(expected[t]) + 1 .. Len(expected[t]) = {}
    BY <1>3
  <2> QED
    BY <2>1, <2>2, <2>3 DEF Held
<1>8. CopySafe'
  BY <1>2 DEF CopySafe
<1>9. SavedBehind'
  BY <1>1, <1>2, <1>4 DEF CInv, SavedBehind
<1>10. SavedPrefix' /\ DownClean' /\ FilesFinite' /\ FailsOverLost'
  BY <1>1 DEF CInv, SavedPrefix, DownClean, FilesFinite, FailsOverLost
<1> QED
  BY <1>5, <1>6, <1>7, <1>8, <1>9, <1>10 DEF CInv

\* A token in hand that had other rows gives up a smaller block, and the head only grows.
LEMMA MoveFacts ==
  ASSUME IInv, CInv, FileSmall, BatchesSmall, NEW t \in Tokens, MoveBlock(t)
  PROVE  LET old == indexMap[t]
             new == indexMap'[t]
         IN  /\ Fits(old, expected[t])
             /\ new.blockMask = GetMask(Len(expected[t]) + work.batch[t]) /\ new.bytesSize = 0
             /\ expected[t] # << >> =>
                  /\ old.blockMask < new.blockMask
                  /\ Below(old, currentBlockPos')
                  /\ \/ new.blockStart <= old.blockStart
                     \/ old.blockStart + old.blockMask <= new.blockStart
<1> DEFINE old  == indexMap[t]
           mask == GetMask(Grown(t))
           runs == MarkBlockAvailable(freeBlockPoses, old.blockStart, old.blockMask)
           new  == GetNewBlock(runs, currentBlockPos, mask)
           pos  == [blockMask |-> mask, blockStart |-> new.start, bytesSize |-> 0]
<1>1. /\ proc = "open" /\ work.token = NoToken /\ t \in DOMAIN work.batch /\ t \in DOMAIN indexMap
      /\ old.blockMask # mask /\ SetPos(t, pos) /\ currentBlockPos' = new.head
  BY DEF MoveBlock, NextOfBatch
<1>2. indexMap'[t] = pos
  BY <1>1 DEF SetPos
<1>3. /\ Fits(old, expected[t]) /\ Grown(t) = Len(expected[t]) + work.batch[t]
      /\ Len(expected[t]) + work.batch[t] \in 1 .. Span - 1
      /\ Len(expected[t]) \in 0 .. Span - 1 /\ t # NoToken /\ work.batch[t] \in Nat
  <2>1. t # NoToken
    BY Types
  <2>2. work.batch[t] \in Nat
    <3>1. work.batch[t] \in 1 .. MaxIncoming
      BY <1>1, WorkFacts
    <3> QED
      BY <3>1, StorageAssumption
  <2>3. proc # "down" /\ work.token # t
    BY <1>1, <2>1
  <2>4. t \in DOMAIN indexMap /\ t \in DOMAIN work.batch
    BY <1>1
  <2>5. /\ Fits(indexMap[t], expected[t]) /\ Grown(t) = Len(expected[t]) + work.batch[t]
        /\ Len(expected[t]) + work.batch[t] \in 1 .. Span - 1
        /\ Len(expected[t]) \in 0 .. Span - 1
    BY <2>3, <2>4, GrownExact
  <2> QED
    BY <2>1, <2>2, <2>5
<1>4. mask \in BlockMasks /\ mask \in Nat \ {0}
  <2>1. Grown(t) \in 0 .. Span - 1
    BY <1>3, BlockAssumption
  <2>2. mask \in BlockMasks
    BY <2>1, GetMaskFits
  <2> QED
    BY <2>2, BlockAssumption
<1>5. IsBlock(old) /\ Below(old, currentBlockPos) /\ currentBlockPos \in Nat
  BY <1>1, Owned DEF IsOwned
<1>6. /\ IsRunMap(freeBlockPoses) /\ IsIndexMap(indexMap)
      /\ Partitioned(indexMap, freeBlockPoses, currentBlockPos)
  BY DEF IInv, TypeOK, BlocksPartitioned
<1>7. /\ IsRunMap(runs) /\ RunsDisjoint(runs)
      /\ \A k \in DOMAIN runs : k + runs[k] <= currentBlockPos
  <2>1. IsRunMap(runs) /\ Partitioned([u \in DOMAIN indexMap \ {t} |-> indexMap[u]], runs, currentBlockPos)
    BY <1>1, <1>5, <1>6, ReleaseBlock
  <2> HIDE DEF runs
  <2> QED
    BY <2>1 DEF Partitioned
<1>8. currentBlockPos <= new.head /\ new.head \in Nat
  <2> HIDE DEF runs, mask
  <2> QED
    BY <1>4, <1>5, <1>7, GetNewBlockTakes
<1>9. ASSUME expected[t] # << >>
      PROVE  /\ old.blockMask < mask
             /\ Below(old, new.head)
             /\ new.start <= old.blockStart \/ old.blockStart + old.blockMask <= new.start
  <2>1. old.blockMask = GetMask(Len(expected[t])) /\ old.blockMask \in BlockMasks
    BY <1>3, <1>9, GetMaskFits DEF Fits
  <2>2. old.blockMask <= mask
    <3>1. Len(expected[t]) <= Len(expected[t]) + work.batch[t]
      BY <1>3
    <3> QED
      BY <1>3, <2>1, <3>1, GetMaskGrows
  <2>3. old.blockMask < mask /\ old.blockMask \in Nat \ {0}
    <3>1. \A m \in BlockMasks : m \in Nat \ {0}
      BY BlockAssumption
    <3>2. old.blockMask # mask /\ mask \in Nat
      BY <1>1, <1>4
    <3>3. old.blockMask \in Nat \ {0}
      BY <2>1, <3>1
    <3> HIDE DEF mask, old
    <3> QED
      BY <2>2, <3>2, <3>3
  <2>4. Below(old, new.head)
    BY <1>5, <1>8 DEF Below, IsBlock
  <2>5. \A b \in Nat : InRun(b, old.blockStart, old.blockMask) => ~ IsFree(freeBlockPoses, b)
    <3> SUFFICES ASSUME NEW b \in Nat, InRun(b, old.blockStart, old.blockMask)
                 PROVE  ~ IsFree(freeBlockPoses, b)
      OBVIOUS
    <3>1. b \in 0 .. currentBlockPos - 1
      BY <1>5 DEF InRun, Below, IsBlock
    <3>2. Owns(indexMap, t, b)
      BY DEF Owns
    <3> QED
      BY <1>1, <1>6, <3>1, <3>2 DEF Partitioned
  <2>6. old.blockStart + old.blockMask <= currentBlockPos /\ RunsDisjoint(freeBlockPoses)
    BY <1>5, <1>6 DEF Below, Partitioned
  <2>7. new.start <= old.blockStart \/ old.blockStart + old.blockMask <= new.start
    BY <1>5, <1>6, <2>3, <2>5, <2>6, MovesDown DEF IsBlock
  <2> QED
    BY <2>3, <2>4, <2>7
<1> HIDE DEF old, mask, new, runs
<1>10. /\ indexMap'[t].blockMask = mask /\ indexMap'[t].blockStart = new.start
       /\ indexMap'[t].bytesSize = 0
  BY <1>2
<1> QED
  BY <1>1, <1>3, <1>9, <1>10 DEF old, mask

LEMMA MoveBlockKeeps ==
  ASSUME IInv, CInv, FileSmall, BatchesSmall, NEW t \in Tokens, MoveBlock(t)
  PROVE  CInv'
<1> DEFINE old == indexMap[t]
           new == indexMap'[t]
<1>1. /\ proc = "open" /\ work.token = NoToken /\ t \in DOMAIN work.batch /\ t \in DOMAIN indexMap
      /\ work' = [work EXCEPT !.token = t, !.old = old]
      /\ UNCHANGED <<proc, failed, disk, tail, meta, expected, savedExpected, lost, ends>>
  BY DEF MoveBlock, NextOfBatch, files, observer
<1>2. /\ work'.token = t /\ work'.batch = work.batch /\ work'.old = old /\ work'.copied = 0
      /\ work.old = NoPos /\ t # NoToken
  BY <1>1, Types DEF IInv, TypeOK, WorkType
<1>3. /\ DOMAIN indexMap' = DOMAIN indexMap
      /\ \A u \in DOMAIN indexMap : u # t => indexMap'[u] = indexMap[u]
  BY <1>1 DEF MoveBlock, SetPos
<1>4. /\ Fits(old, expected[t])
      /\ new.blockMask = GetMask(Len(expected[t]) + work.batch[t]) /\ new.bytesSize = 0
      /\ expected[t] # << >> =>
           /\ old.blockMask < new.blockMask
           /\ Below(old, currentBlockPos')
           /\ new.blockStart <= old.blockStart \/ old.blockStart + old.blockMask <= new.blockStart
  BY MoveFacts
<1>5. /\ Map' = indexMap' /\ Map = indexMap /\ Written' = Written /\ SavedMap' = SavedMap
      /\ Len(expected[t]) \in Nat /\ Len(expected[t]) = old.bytesSize
      /\ expected[t] = << >> => old = NoPos
  BY <1>1, <1>4, Types DEF Map, SavedMap, Written, Fits
<1>6. \A u \in Tokens : u # t => u \in Tokens \ {work.token}
  BY <1>1, Types
<1>7. SavedSized' /\ SavedSmall'
  BY <1>1, SavedStays
<1>8. MapSized' /\ RowsRead'
  <2>1. MapSized'
    BY <1>1, <1>2, <1>3, <1>5, <1>6 DEF CInv, MapSized, Sized
  <2>2. RowsRead'
    BY <1>1, <1>2, <1>3, <1>5, <1>6 DEF CInv, RowsRead, Reads
  <2> QED
    BY <2>1, <2>2
<1>9. HandSized'
  <2>1. old = NoPos => Len(expected[t]) = 0
    BY <1>5, Types
  <2>2. Len(expected[t]) + work.batch[t] \in 1 .. Span - 1
    BY <1>1, <1>2, GrownExact
  <2>3. Len(expected[t]) + work.batch[t] < Span
    BY <2>2, BlockAssumption
  <2> HIDE DEF old
  <2> QED
    BY <1>1, <1>2, <1>4, <2>1, <2>3 DEF HandSized
<1>10. HandReads'
  <2> SUFFICES ASSUME t \notin lost
               PROVE  /\ Held(Written, First(new), expected[t], 1, 0)
                      /\ Held(Written, First(old), expected[t], 0 + 1, Len(expected[t]))
    BY <1>1, <1>2, <1>4, <1>5 DEF HandReads
  <2>1. Held(Written, First(old), expected[t], 1, Len(expected[t]))
    BY <1>1, <1>2, <1>5 DEF CInv, RowsRead, Reads
  <2>2. 1 .. 0 = {} /\ 0 + 1 = 1
    OBVIOUS
  <2> QED
    BY <2>1, <2>2 DEF Held
<1>11. CopySafe'
  BY <1>1, <1>2, <1>4, <1>5 DEF CopySafe, Below
<1>12. SavedBehind'
  <2> SUFFICES ASSUME NEW u \in DOMAIN SavedMap, SavedMap[u].bytesSize > 0
               PROVE  /\ u \in DOMAIN indexMap' /\ Grew(SavedMap[u], indexMap'[u])
                      /\ u = t => SavedMap[u].blockMask < indexMap'[u].blockMask
    BY <1>2, <1>5 DEF SavedBehind
  <2>1. u \in DOMAIN indexMap /\ Grew(SavedMap[u], indexMap[u])
    BY <1>5 DEF CInv, SavedBehind
  <2>2. CASE u # t
    BY <1>3, <2>1, <2>2
  <2>3. CASE u = t
    <3>1. savedExpected[t] # << >> /\ Len(savedExpected[t]) > 0
      BY <2>3 DEF CInv, SavedSized, Sized, Fits
    <3>2. Len(savedExpected[t]) <= Len(expected[t])
      BY DEF CInv, SavedPrefix, Prefix
    <3>3. expected[t] # << >>
      <4>1. Len(<< >>) = 0
        OBVIOUS
      <4> QED
        BY <3>1, <3>2, <4>1, Types
    <3>4. /\ SavedMap[t].blockMask <= old.blockMask /\ old.blockMask < new.blockMask
          /\ SavedMap[t].blockMask \in Nat /\ old.blockMask \in Nat /\ new.blockMask \in Nat
      <4>1. IsBlock(SavedMap[t]) /\ IsBlock(old)
        BY <1>1, <2>3, Owned DEF IsOwned
      <4>2. Len(expected[t]) + work.batch[t] \in 0 .. Span - 1
        BY <1>1, <1>2, GrownExact
      <4>3. new.blockMask \in Nat
        BY <1>4, <4>2, GetMaskFits, BlockAssumption
      <4> QED
        BY <1>4, <2>1, <2>3, <3>3, <4>1, <4>3 DEF Grew, IsBlock
    <3> HIDE DEF old, new
    <3>5. SavedMap[t].blockMask < new.blockMask
      BY <3>4
    <3> QED
      BY <1>1, <1>3, <2>3, <3>4, <3>5 DEF Grew, new
  <2> QED
    BY <2>2, <2>3
<1>13. SavedPrefix' /\ DownClean' /\ FilesFinite' /\ FailsOverLost'
  BY <1>1 DEF CInv, SavedPrefix, DownClean, FilesFinite, FailsOverLost
<1> QED
  BY <1>7, <1>8, <1>9, <1>10, <1>11, <1>12, <1>13 DEF CInv

\* A new token: it has no rows, in memory or saved.
LEMMA NewBlockKeeps ==
  ASSUME IInv, CInv, FileSmall, BatchesSmall, NEW t \in Tokens, NewBlock(t)
  PROVE  CInv'
<1> DEFINE new == indexMap'[t]
<1>1. /\ proc = "open" /\ work.token = NoToken /\ t \in DOMAIN work.batch /\ t \notin DOMAIN indexMap
      /\ work' = [work EXCEPT !.token = t]
      /\ UNCHANGED <<proc, failed, disk, tail, meta, expected, savedExpected, lost, ends>>
  BY DEF NewBlock, NextOfBatch, files, observer
<1>2. /\ work'.token = t /\ work'.batch = work.batch /\ work'.old = NoPos
      /\ work.old = NoPos /\ t # NoToken
  BY <1>1, Types DEF IInv, TypeOK, WorkType
<1>3. /\ DOMAIN indexMap' = DOMAIN indexMap \cup {t}
      /\ \A u \in DOMAIN indexMap : u # t /\ indexMap'[u] = indexMap[u]
      /\ new.blockMask = GetMask(work.batch[t] % Span) /\ new.bytesSize = 0
  BY <1>1 DEF NewBlock, SetPos
<1>4. /\ Map' = indexMap' /\ Map = indexMap /\ Written' = Written /\ SavedMap' = SavedMap
      /\ expected[t] = << >>
  <2>1. t \in Tokens \ {work.token}
    BY <1>1, <1>2
  <2>2. Map' = indexMap' /\ Map = indexMap /\ Written' = Written /\ SavedMap' = SavedMap
    BY <1>1 DEF Map, SavedMap, Written
  <2> QED
    BY <1>1, <2>1, <2>2 DEF CInv, MapSized, Sized
<1>5. /\ work.batch[t] % Span = Len(expected[t]) + work.batch[t]
      /\ Len(expected[t]) + work.batch[t] < Span
  <2> DEFINE k == work.batch[t]
  <2>1. work.batch[t] \in 1 .. MaxIncoming
    BY <1>1, WorkFacts
  <2>2. k \in Nat /\ k >= 1 /\ k <= MaxIncoming
    BY <2>1, StorageAssumption
  <2> HIDE DEF k
  <2>3. k \in Nat /\ k < Span
    BY <2>2, BlockAssumption, StorageAssumption DEF BatchesSmall
  <2>4. k % Span = k
    BY <2>3, BlockAssumption
  <2>5. Len(expected[t]) = 0
    BY <1>4
  <2> QED
    BY <2>3, <2>4, <2>5 DEF k
<1>6. \A u \in Tokens : u # t => u \in Tokens \ {work.token}
  BY <1>1, Types
<1>7. SavedSized' /\ SavedSmall'
  BY <1>1, SavedStays
<1>8. MapSized' /\ RowsRead'
  <2>1. MapSized'
    BY <1>1, <1>2, <1>3, <1>4, <1>6 DEF CInv, MapSized, Sized
  <2>2. RowsRead'
    BY <1>1, <1>2, <1>3, <1>4, <1>6 DEF CInv, RowsRead, Reads
  <2> QED
    BY <2>1, <2>2
<1>9. HandSized'
  <2>1. Len(expected[t]) = 0
    BY <1>4
  <2>2. new.blockMask = GetMask(Len(expected[t]) + work.batch[t])
    BY <1>3, <1>5
  <2> QED
    BY <1>1, <1>2, <1>3, <1>5, <2>1, <2>2 DEF HandSized
<1>10. HandReads'
  <2>1. Len(expected[t]) = 0
    BY <1>4
  <2>2. 1 .. 0 = {} /\ 0 + 1 .. 0 = {}
    OBVIOUS
  <2>3. work'.old = NoPos /\ expected' = expected /\ new.bytesSize = 0
    BY <1>1, <1>2, <1>3
  <2> QED
    BY <1>2, <2>1, <2>2, <2>3 DEF HandReads, Held
<1>11. CopySafe'
  BY <1>2 DEF CopySafe
<1>12. SavedBehind'
  <2> SUFFICES ASSUME NEW u \in DOMAIN SavedMap, SavedMap[u].bytesSize > 0
               PROVE  u \in DOMAIN indexMap' /\ Grew(SavedMap[u], indexMap'[u])
    BY <1>2, <1>4 DEF SavedBehind
  <2>1. u \in DOMAIN indexMap /\ Grew(SavedMap[u], indexMap[u])
    BY <1>4 DEF CInv, SavedBehind
  <2> QED
    BY <1>3, <2>1
<1>13. SavedPrefix' /\ DownClean' /\ FilesFinite' /\ FailsOverLost'
  BY <1>1 DEF CInv, SavedPrefix, DownClean, FilesFinite, FailsOverLost
<1> QED
  BY <1>7, <1>8, <1>9, <1>10, <1>11, <1>12, <1>13 DEF CInv

-----------------------------------------------------------------------------
\* The token in hand has a block that takes all its rows, those that come too.
LEMMA HandFacts ==
  ASSUME IInv, CInv, FileSmall, work.token # NoToken
  PROVE  LET t   == work.token
             new == indexMap[t]
         IN  /\ proc # "down" /\ t \in Tokens /\ t \in DOMAIN indexMap /\ t \in DOMAIN work.batch
             /\ Len(expected[t]) \in Nat /\ work.batch[t] \in Nat \ {0}
             /\ IsBlock(new) /\ First(new) = FirstRow(new)
             /\ First(new) \in Nat /\ Capacity(new) \in Nat
             /\ 2 * (First(new) + Capacity(new)) < Span
             /\ Len(expected[t]) + work.batch[t] <= Capacity(new)
             /\ \A k \in Nat : k <= Capacity(new) => BlockToPos(new.blockStart, k) = First(new) + k
<1> DEFINE t   == work.token
           new == indexMap[t]
<1>1. proc # "down" /\ t \in DOMAIN indexMap /\ t \in DOMAIN work.batch
  BY WorkFacts DEF IInv, DownIdle, Idle
<1>2. t \in Tokens /\ IsOwned(new, currentBlockPos) /\ currentBlockPos \in Nat
  BY <1>1, Owned
<1>3. IsBlock(new) /\ Below(new, currentBlockPos) /\ Small(currentBlockPos)
  BY <1>2 DEF IsOwned, FileSmall
<1>4. Len(expected[t]) \in Nat /\ work.batch[t] \in Nat \ {0}
  <2>1. work.batch[t] \in 1 .. MaxIncoming
    BY <1>1, WorkFacts
  <2>2. Len(expected[t]) \in Nat
    BY <1>2, Types
  <2> HIDE DEF t
  <2> QED
    BY <2>1, <2>2, StorageAssumption
<1>5. /\ FirstRow(new) \in Nat /\ Capacity(new) \in Nat
      /\ 2 * (FirstRow(new) + Capacity(new)) < Span
      /\ First(new) = FirstRow(new)
      /\ \A k \in Nat : k <= Capacity(new) => BlockToPos(new.blockStart, k) = FirstRow(new) + k
  BY <1>2, <1>3, BlockRows
<1>6. Len(expected[t]) + work.batch[t] <= Capacity(new)
  <2>1. /\ new.blockMask = GetMask(Len(expected[t]) + work.batch[t])
        /\ Len(expected[t]) + work.batch[t] < Span
    BY DEF CInv, HandSized
  <2>2. Len(expected[t]) + work.batch[t] \in 0 .. Span - 1
    BY <1>4, <2>1, BlockAssumption
  <2> HIDE DEF t, new
  <2> QED
    BY <1>2, <1>3, <2>1, <2>2, GetMaskTakes
<1> QED
  BY <1>1, <1>2, <1>3, <1>4, <1>5, <1>6

\* What is written into the block of the token in hand leaves the rows of the others.
LEMMA OthersRead ==
  ASSUME IInv, CInv, FileSmall, work.token # NoToken,
         NEW cells, \A a \in DOMAIN cells : \E i \in Nat :
                      /\ i < Capacity(indexMap[work.token])
                      /\ a = First(indexMap[work.token]) + i,
         NEW u \in Tokens \ (lost \cup {work.token})
  PROVE  Reads(Over(cells, Written), indexMap, u, expected[u])
<1> DEFINE t == work.token
<1> SUFFICES ASSUME u \in DOMAIN indexMap
             PROVE  Held(Over(cells, Written), First(indexMap[u]), expected[u], 1, Len(expected[u]))
  BY DEF Reads
<1>1. /\ proc # "down" /\ t \in DOMAIN indexMap /\ First(indexMap[t]) = FirstRow(indexMap[t])
      /\ Capacity(indexMap[t]) \in Nat
  BY HandFacts
<1>2. Held(Written, First(indexMap[u]), expected[u], 1, Len(expected[u]))
  BY <1>1, Types DEF CInv, RowsRead, Reads
<1>3. Apart(indexMap[u], indexMap[t])
  <2>1. /\ IsIndexMap(indexMap) /\ currentBlockPos \in Nat
        /\ Partitioned(indexMap, freeBlockPoses, currentBlockPos)
    BY DEF IInv, TypeOK, BlocksPartitioned
  <2>2. u # t
    OBVIOUS
  <2> HIDE DEF t
  <2> QED
    BY <1>1, <2>1, <2>2, OwnersApart
<1>4. /\ currentBlockPos \in Nat /\ IsOwned(indexMap[u], currentBlockPos)
      /\ Fits(indexMap[u], expected[u]) /\ Small(currentBlockPos)
  BY <1>1, Owned, Types DEF CInv, MapSized, Sized, FileSmall
<1>5. Len(expected[u]) <= Capacity(indexMap[u]) /\ Len(expected[u]) \in Nat
  BY <1>4, FitsCapacity, Types
<1>6. First(indexMap[u]) = FirstRow(indexMap[u]) /\ FirstRow(indexMap[u]) \in Nat
      /\ Capacity(indexMap[u]) \in Nat
  BY <1>4, BlockRows DEF IsOwned
<1>7. ASSUME NEW i \in 1 .. Len(expected[u]), First(indexMap[u]) + i - 1 \in DOMAIN cells
      PROVE  FALSE
  <2>1. PICK j \in Nat : /\ j < Capacity(indexMap[t])
                         /\ First(indexMap[u]) + i - 1 = First(indexMap[t]) + j
    BY <1>7
  <2>2. i - 1 \in Nat /\ i - 1 < Capacity(indexMap[u])
    BY <1>5, <1>6
  <2>3. FirstRow(indexMap[u]) + (i - 1) # FirstRow(indexMap[t]) + j
    BY <1>3, <2>1, <2>2 DEF Apart
  <2> QED
    BY <1>1, <1>6, <2>1, <2>3
<1> QED
  BY <1>2, <1>7, HeldThrough

\* What one iteration of copyBytes moves, and from where.
LEMMA CopyFacts ==
  ASSUME IInv, CInv, FileSmall, work.token # NoToken, work.copied < work.old.bytesSize
  PROVE  LET t   == work.token
             new == indexMap[t]
             old == work.old
         IN  /\ old # NoPos /\ old.bytesSize = Len(expected[t]) /\ new.bytesSize = work.copied
             /\ work.copied \in Nat /\ ChunkRows \in Nat \ {0}
             /\ work.copied + ChunkRows <= Len(expected[t])
             /\ (new.bytesSize + ChunkRows) % Span = work.copied + ChunkRows
             /\ First(old) \in Nat
             /\ First(new) <= First(old) \/ First(old) + Len(expected[t]) <= First(new)
<1> DEFINE t   == work.token
           new == indexMap[t]
           old == work.old
           len == Len(expected[t])
<1>1. work.copied \in Nat /\ old \in IndexPos
  BY WorkFacts
<1>2. old # NoPos
  <2>1. NoPos.bytesSize = 0
    BY DEF NoPos
  <2>2. work.old # NoPos
    BY <1>1, <2>1
  <2> QED
    BY <2>2
<1>3. new.bytesSize = work.copied /\ Fits(old, expected[t])
  BY <1>2 DEF CInv, HandSized
<1>4. old.bytesSize = len /\ len \in Nat
  BY <1>3, HandFacts DEF Fits
<1>5. /\ old.blockStart + old.blockMask <= currentBlockPos
      /\ new.blockStart <= old.blockStart \/ old.blockStart + old.blockMask <= new.blockStart
  BY <1>2 DEF CInv, CopySafe
<1>6. IsOwned(old, currentBlockPos) /\ currentBlockPos \in Nat /\ Small(currentBlockPos)
  <2>1. /\ old.blockMask \in BlockMasks \cup {0} /\ old.blockStart \in Nat
        /\ old.bytesSize \in 0 .. Span - 1
    BY <1>1 DEF IndexPos
  <2>2. \A m \in BlockMasks \cup {0} : m \in Nat
    BY BlockAssumption
  <2>3. old.blockMask \in Nat
    BY <2>1, <2>2
  <2> QED
    BY <1>5, <2>1, <2>3, Owned DEF IsOwned, IsBlock, Below, FileSmall
<1>7. len <= Capacity(old) /\ 2 * len < Span
  BY <1>3, <1>6, FitsCapacity
<1>8. IsBlock(old) /\ First(old) = FirstRow(old) /\ FirstRow(old) \in Nat /\ Capacity(old) \in Nat
  BY <1>6, BlockRows DEF IsOwned
<1>9. IsBlock(new) /\ First(new) = FirstRow(new) /\ FirstRow(new) \in Nat
  BY HandFacts
<1>10. First(new) <= First(old) \/ First(old) + len <= First(new)
  <2> HIDE DEF new, old, len
  <2>1. CASE new.blockStart <= old.blockStart
    <3>1. new.blockStart * BaseRows <= old.blockStart * BaseRows
      BY <1>8, <1>9, <2>1, Rows DEF IsBlock
    <3> QED
      BY <1>8, <1>9, <3>1 DEF FirstRow
  <2>2. CASE old.blockStart + old.blockMask <= new.blockStart
    <3>1. old.blockStart + old.blockMask \in Nat /\ new.blockStart \in Nat
      BY <1>8, <1>9 DEF IsBlock
    <3>2. (old.blockStart + old.blockMask) * BaseRows <= new.blockStart * BaseRows
      BY <2>2, <3>1, Rows
    <3>3. (old.blockStart + old.blockMask) * BaseRows = FirstRow(old) + Capacity(old)
      BY <1>8, Rows DEF IsBlock, FirstRow, Capacity
    <3>4. FirstRow(old) + Capacity(old) <= FirstRow(new)
      BY <3>2, <3>3 DEF FirstRow
    <3> QED
      BY <1>4, <1>7, <1>8, <1>9, <3>4
  <2> QED
    BY <1>5, <2>1, <2>2
<1>11. ChunkRows \in Nat \ {0} /\ work.copied + ChunkRows <= len
  <2> DEFINE copied == work.copied
  <2>1. ChunkRows = IF len - copied < CopyRows THEN len - copied ELSE CopyRows
    BY <1>4 DEF ChunkRows
  <2>2. copied < len /\ copied \in Nat /\ CopyRows \in Nat \ {0} /\ len \in Nat
    BY <1>1, <1>4, StorageAssumption
  <2> HIDE DEF copied, len
  <2>3. ChunkRows \in Nat \ {0} /\ copied + ChunkRows <= len
    BY <2>1, <2>2
  <2> QED
    BY <2>3 DEF copied
<1>12. (new.bytesSize + ChunkRows) % Span = work.copied + ChunkRows
  <2> DEFINE m == work.copied + ChunkRows
  <2>1. m \in Nat /\ m <= len
    BY <1>1, <1>11
  <2>2. m < Span
    <3> HIDE DEF m, len
    <3> QED
      BY <1>4, <1>7, <2>1, BlockAssumption
  <2>3. new.bytesSize + ChunkRows = m
    BY <1>3
  <2> HIDE DEF m
  <2>4. m % Span = m
    BY <2>1, <2>2, BlockAssumption
  <2> QED
    BY <2>3, <2>4 DEF m
<1> QED
  BY <1>1, <1>2, <1>3, <1>4, <1>8, <1>10, <1>11, <1>12

\* The chunk as the stream takes it: the rows of the token, in its new block.
LEMMA ChunkReads ==
  ASSUME IInv, CInv, FileSmall, work.token # NoToken, work.copied < work.old.bytesSize
  PROVE  LET t   == work.token
             new == indexMap[t]
             old == work.old
             m   == work.copied + ChunkRows
             put == Place(Slice(Written, First(old) + work.copied, ChunkRows),
                          First(new) + work.copied)
         IN  /\ IsFiniteSet(DOMAIN put)
             /\ \A a \in DOMAIN put : \E i \in Nat : i < Capacity(new) /\ a = First(new) + i
             /\ t \notin lost =>
                  /\ Readable(Written, First(old) + work.copied, ChunkRows)
                  /\ Held(Over(put, Written), First(new), expected[t], 1, m)
                  /\ Held(Over(put, Written), First(old), expected[t], m + 1, Len(expected[t]))
<1> DEFINE t   == work.token
           new == indexMap[t]
           old == work.old
           k   == work.copied
           n   == ChunkRows
           len == Len(expected[t])
           at  == First(new)
           src == First(old)
           cells == Slice(Written, src + k, n)
           put == Place(cells, at + k)
           S   == Row \cup {Hole}
<1>1. /\ k \in Nat /\ n \in Nat /\ n > 0 /\ k + n <= len /\ len \in Nat
      /\ src \in Nat /\ at \in Nat
      /\ at <= src \/ src + len <= at
      /\ new.bytesSize = k
      /\ Capacity(new) \in Nat /\ len <= Capacity(new)
  <2>1. /\ k \in Nat /\ n \in Nat \ {0} /\ k + n <= len /\ src \in Nat
        /\ at <= src \/ src + len <= at
        /\ new.bytesSize = k
    BY CopyFacts
  <2>2. /\ len \in Nat /\ work.batch[t] \in Nat \ {0} /\ at \in Nat /\ Capacity(new) \in Nat
        /\ len + work.batch[t] <= Capacity(new)
    BY HandFacts
  <2> DEFINE more == work.batch[t]
  <2> HIDE DEF len, at, src, k, n, new, more
  <2>3. len <= Capacity(new)
    <3>1. more \in Nat /\ len + more <= Capacity(new)
      BY <2>2 DEF more
    <3> QED
      BY <2>2, <3>1
  <2> QED
    BY <2>1, <2>2, <2>3
<1>2. cells \in [1 .. n -> S]
  <2>1. IsFile(Written)
    BY Types
  <2>2. src + k \in Nat
    BY <1>1
  <2> QED
    BY <1>1, <2>1, <2>2, SliceType
<1>3. DOMAIN put = at + k .. at + k + n - 1 /\ IsFiniteSet(DOMAIN put)
  <2> DEFINE to == at + k
  <2>1. to \in Nat
    BY <1>1
  <2>3. n \in Nat
    BY <1>1
  <2> HIDE DEF to, cells, n, S
  <2>2. DOMAIN Place(cells, to) = to .. to + n - 1 /\ IsFiniteSet(DOMAIN Place(cells, to))
    BY <1>2, <2>1, <2>3, PlaceCells
  <2> QED
    BY <2>2 DEF to
<1>4. ASSUME NEW a \in DOMAIN put
      PROVE  \E i \in Nat : i < Capacity(new) /\ a = at + i
  <2>1. a \in at + k .. at + k + n - 1
    BY <1>3
  <2> DEFINE i == a - at
  <2> HIDE DEF put, at, k, n, new, len
  <2>2. i \in Nat /\ i < Capacity(new) /\ a = at + i
    BY <1>1, <2>1
  <2> QED
    BY <2>2
<1>5. ASSUME t \notin lost
      PROVE  /\ Readable(Written, src + k, n)
             /\ Held(Over(put, Written), at, expected[t], 1, k + n)
             /\ Held(Over(put, Written), src, expected[t], k + n + 1, len)
  <2> DEFINE list == expected[t]
  <2>1. Held(Written, at, list, 1, k) /\ Held(Written, src, list, k + 1, len)
    BY <1>1, <1>5 DEF CInv, HandReads
  <2>2. DOMAIN Written \subseteq Nat /\ IsFiniteSet(DOMAIN Written)
    BY Types, OverFinite DEF CInv, FilesFinite, Written
  <2> HIDE DEF list, k, n, at, src, len, cells, S, new, t
  <2>3. Readable(Written, src + k, n)
    <3>1. k + 1 \in Nat /\ k + 1 >= 1 /\ (k + 1) + n - 1 <= len /\ (k + 1) - 1 = k
      BY <1>1
    <3>2. Readable(Written, src + ((k + 1) - 1), n)
      BY <1>1, <2>1, <2>2, <3>1, HeldReadable
    <3> QED
      BY <3>1, <3>2
  <2>4. \A i \in 1 .. n : cells[i] = list[k + i]
    <3>1. Held(Written, src, list, k + 1, k + n)
      <4>1. \A i \in k + 1 .. k + n : i \in k + 1 .. len
        BY <1>1
      <4> QED
        BY <2>1, <4>1 DEF Held
    <3>2. src \in Nat /\ k \in Nat /\ n \in Nat
      BY <1>1
    <3>3. \A i \in 1 .. n : Slice(Written, src + k, n)[i] = list[k + i]
      <4> DEFINE file == Written
      <4>1. Held(file, src, list, k + 1, k + n)
        BY <3>1
      <4> HIDE DEF file
      <4>2. \A i \in 1 .. n : Slice(file, src + k, n)[i] = list[k + i]
        BY <3>2, <4>1, HeldSlice
      <4> QED
        BY <4>2 DEF file
    <3> QED
      BY <3>3 DEF cells
  <2>5. Held(Over(put, Written), at, list, k + 1, k + n)
    <3>1. \A i \in 1 .. n : list[k + i] = cells[i]
      BY <2>4
    <3> QED
      BY <1>1, <1>2, <3>1, HeldPlaced
  <2> HIDE DEF put
  <2>6. Held(Over(put, Written), at, list, 1, k)
    <3>1. \A i \in 1 .. k : at + i - 1 \notin at + k .. at + k + n - 1
      BY <1>1
    <3> QED
      BY <1>3, <2>1, <3>1, HeldThrough
  <2>7. Held(Over(put, Written), at, list, 1, k + n)
    BY <1>1, <2>5, <2>6, HeldSplit
  <2>8. Held(Over(put, Written), src, list, k + n + 1, len)
    <3>1. Held(Written, src, list, k + n + 1, len)
      <4>1. \A i \in k + n + 1 .. len : i \in k + 1 .. len
        BY <1>1
      <4> QED
        BY <2>1, <4>1 DEF Held
    <3>2. \A i \in k + n + 1 .. len : src + i - 1 \notin at + k .. at + k + n - 1
      BY <1>1
    <3> QED
      BY <1>3, <3>1, <3>2, HeldThrough
  <2> QED
    BY <2>3, <2>7, <2>8 DEF list
<1> QED
  BY <1>3, <1>4, <1>5

\* A chunk is copied, or the stream fails and the token is damaged.
LEMMA CopyChunkKeeps ==
  ASSUME IInv, CInv, FileSmall, CopyChunk
  PROVE  CInv'
<1> DEFINE t   == work.token
           new == indexMap[t]
           old == work.old
           n   == ChunkRows
           m   == work.copied + n
           len == Len(expected[t])
           put == Place(Slice(Written, First(old) + work.copied, n), First(new) + work.copied)
           ok  == ~failed /\ Readable(Written, First(old) + work.copied, n)
<1>1. /\ t # NoToken /\ work.copied < old.bytesSize
      /\ disk' = Written
      /\ ok => tail' = put /\ failed' = FALSE /\ lost' = lost
      /\ ~ok => tail' = Empty /\ lost' = lost \cup {t}
      /\ indexMap' = [indexMap EXCEPT ![t].bytesSize = (@ + n) % Span]
      /\ work' = [work EXCEPT !.copied = @ + n]
      /\ UNCHANGED <<currentBlockPos, proc, meta, expected, savedExpected, ends>>
  <2>1. /\ First(old) = BlockToPos(old.blockStart, 0) /\ First(new) = BlockToPos(new.blockStart, 0)
    BY DEF First
  <2>2. t # NoToken /\ work.copied < old.bytesSize
    BY DEF CopyChunk
  <2>3. disk' = Written /\ failed' = ~ok
    BY <2>1, Zenon DEF CopyChunk
  <2>4. tail' = IF ok THEN put ELSE Empty
    BY <2>1, Zenon DEF CopyChunk
  <2>8. ok => failed' = FALSE
    BY <2>3, Zenon
  <2>5. /\ indexMap' = [indexMap EXCEPT ![t].bytesSize = (@ + n) % Span]
        /\ work' = [work EXCEPT !.copied = @ + n]
    BY DEF CopyChunk
  <2>6. lost' = IF ok THEN lost ELSE lost \cup {t}
    BY <2>1, Zenon DEF CopyChunk
  <2>7. UNCHANGED <<currentBlockPos, proc, meta, expected, savedExpected, ends>>
    BY DEF CopyChunk
  <2>9. disk' = Written
    BY <2>3, Zenon
  <2> HIDE DEF ok, put, n, t
  <2> QED
    BY <2>2, <2>4, <2>5, <2>6, <2>7, <2>8, <2>9
<1>2. /\ proc # "down" /\ t \in Tokens /\ t \in DOMAIN indexMap
      /\ old # NoPos /\ Fits(old, expected[t]) /\ new.bytesSize = work.copied
      /\ (new.bytesSize + n) % Span = m
      /\ new.blockMask = GetMask(len + work.batch[t]) /\ len + work.batch[t] < Span
  BY <1>1, HandFacts, CopyFacts DEF CInv, HandSized
<1>3. /\ DOMAIN indexMap' = DOMAIN indexMap
      /\ \A u \in DOMAIN indexMap : u # t => indexMap'[u] = indexMap[u]
      /\ indexMap'[t].blockMask = new.blockMask /\ indexMap'[t].blockStart = new.blockStart
      /\ indexMap'[t].bytesSize = m
  <2>1. IsIndexMap(indexMap)
    BY DEF IInv, TypeOK
  <2>2. new \in [blockMask : BlockMasks \cup {0}, blockStart : Nat, bytesSize : 0 .. Span - 1]
    BY <1>2, <2>1 DEF IsIndexMap, IndexPos
  <2>3. indexMap' = [u \in DOMAIN indexMap |->
                      IF u = t THEN [new EXCEPT !.bytesSize = (new.bytesSize + n) % Span]
                      ELSE indexMap[u]]
    BY <1>1, <1>2, <2>1 DEF IsIndexMap
  <2>4. indexMap'[t] = [new EXCEPT !.bytesSize = m]
    BY <1>2, <2>3
  <2> HIDE DEF m, new, n, t
  <2> QED
    BY <2>2, <2>3, <2>4
<1>4. /\ work'.token = t /\ work'.batch = work.batch /\ work'.old = old /\ work'.copied = m
  BY <1>1 DEF IInv, TypeOK, WorkType
<1>5. /\ Map' = indexMap' /\ Map = indexMap /\ SavedMap' = SavedMap
      /\ Written' = Over(tail', Written) /\ First(indexMap'[t]) = First(new)
  BY <1>1, <1>2, <1>3 DEF Map, SavedMap, Written, First
<1>6. /\ IsFiniteSet(DOMAIN put)
      /\ \A a \in DOMAIN put : \E i \in Nat : i < Capacity(new) /\ a = First(new) + i
      /\ t \notin lost =>
           /\ Readable(Written, First(old) + work.copied, n)
           /\ Held(Over(put, Written), First(new), expected[t], 1, m)
           /\ Held(Over(put, Written), First(old), expected[t], m + 1, len)
  BY <1>1, ChunkReads
<1>7. /\ IsFiniteSet(DOMAIN tail')
      /\ \A a \in DOMAIN tail' : \E i \in Nat : i < Capacity(new) /\ a = First(new) + i
  <2>1. CASE ok
    <3>1. tail' = put
      BY <1>1, <2>1
    <3> HIDE DEF put, ok
    <3> QED
      BY <1>6, <3>1
  <2>2. CASE ~ ok
    <3>1. DOMAIN Empty = {} /\ tail' = Empty
      <4>1. DOMAIN Empty = {}
        BY DEF Empty
      <4> HIDE DEF put, ok
      <4> QED
        BY <1>1, <2>2, <4>1
    <3> QED
      BY <3>1, FS_EmptySet
  <2> QED
    BY <2>1, <2>2
<1> HIDE DEF put, n, m, ok
<1>8. SavedSized' /\ SavedSmall'
  BY <1>1, SavedStays
<1>9. MapSized'
  BY <1>1, <1>3, <1>4, <1>5 DEF CInv, MapSized, Sized
<1>10. RowsRead'
  <2> SUFFICES ASSUME NEW u \in Tokens \ (lost \cup {t})
               PROVE  Reads(Over(tail', Written), indexMap', u, expected[u])
    BY <1>1, <1>4, <1>5 DEF RowsRead
  <2> DEFINE cells == tail'
  <2>1. \A a \in DOMAIN cells : \E i \in Nat : i < Capacity(new) /\ a = First(new) + i
    BY <1>7
  <2> HIDE DEF cells
  <2>2. Reads(Over(cells, Written), indexMap, u, expected[u])
    BY <1>1, <2>1, OthersRead
  <2> QED
    BY <1>3, <2>2 DEF Reads, cells
<1>11. HandSized'
  BY <1>1, <1>2, <1>3, <1>4 DEF HandSized
<1>12. HandReads'
  <2> SUFFICES ASSUME t \notin lost'
               PROVE  /\ Held(Over(tail', Written), First(new), expected[t], 1, m)
                      /\ Held(Over(tail', Written), First(old), expected[t], m + 1, len)
    BY <1>1, <1>3, <1>4, <1>5 DEF HandReads
  <2>1. ok /\ t \notin lost
    BY <1>1
  <2> QED
    BY <1>1, <1>6, <2>1
<1>13. CopySafe'
  BY <1>1, <1>2, <1>3, <1>4 DEF CInv, CopySafe
<1>14. SavedBehind'
  <2> SUFFICES ASSUME NEW u \in DOMAIN SavedMap, SavedMap[u].bytesSize > 0
               PROVE  /\ u \in DOMAIN indexMap' /\ Grew(SavedMap[u], indexMap'[u])
                      /\ u = t => SavedMap[u].blockMask < indexMap'[u].blockMask
    BY <1>4, <1>5 DEF SavedBehind
  <2>1. /\ u \in DOMAIN indexMap /\ Grew(SavedMap[u], indexMap[u])
        /\ u = t => SavedMap[u].blockMask < indexMap[u].blockMask
    BY <1>2, <1>5 DEF CInv, SavedBehind
  <2>2. indexMap'[u].blockMask = indexMap[u].blockMask /\ indexMap'[u].blockStart = indexMap[u].blockStart
    BY <1>3, <2>1
  <2> QED
    BY <1>3, <2>1, <2>2 DEF Grew
<1>15. SavedPrefix' /\ DownClean'
  BY <1>1, <1>2 DEF CInv, SavedPrefix, DownClean
<1>16. FilesFinite'
  <2>1. IsFiniteSet(DOMAIN Written)
    BY OverFinite DEF CInv, FilesFinite, Written
  <2> QED
    BY <1>1, <1>7, <2>1 DEF FilesFinite
<1>17. FailsOverLost'
  <2>1. CASE ok
    <3>1. failed' = FALSE /\ lost' = lost /\ ends' = ends
      BY <1>1, <2>1
    <3> QED
      BY <3>1 DEF CInv, FailsOverLost
  <2>2. CASE ~ ok
    <3>1. lost # {}
      <4>1. failed \/ t \in lost
        BY <1>6, <2>2 DEF ok
      <4> QED
        BY <4>1 DEF CInv, FailsOverLost
    <3>2. lost' # {} /\ ends' # 0
      BY <1>1, <2>2, <3>1 DEF CInv, FailsOverLost
    <3> QED
      BY <3>2 DEF FailsOverLost
  <2> QED
    BY <2>1, <2>2
<1> QED
  BY <1>8, <1>9, <1>10, <1>11, <1>12, <1>13, <1>14, <1>15, <1>16, <1>17 DEF CInv

\* The rows that come follow those the token has, in its block.
LEMMA AppendFacts ==
  ASSUME IInv, CInv, FileSmall, AppendRows
  PROVE  LET t   == work.token
             new == indexMap[t]
             len == Len(expected[t])
             n   == work.batch[t]
         IN  /\ t # NoToken /\ len \in Nat /\ n \in Nat \ {0} /\ new.bytesSize = len
             /\ work'.token = NoToken /\ disk' = Written
             /\ UNCHANGED <<currentBlockPos, proc, failed, meta, savedExpected, ends>>
             /\ failed => lost' = lost \cup {t}
             /\ ~failed => lost' = lost
             /\ DOMAIN indexMap' = DOMAIN indexMap
             /\ \A u \in DOMAIN indexMap : u # t => indexMap'[u] = indexMap[u]
             /\ indexMap'[t].blockMask = new.blockMask /\ indexMap'[t].blockStart = new.blockStart
             /\ indexMap'[t].bytesSize = len + n
             /\ \A u \in Tokens : u # t => expected'[u] = expected[u]
             /\ Len(expected'[t]) = len + n
             /\ \A i \in 1 .. len : expected'[t][i] = expected[t][i]
<1> DEFINE t    == work.token
           new  == indexMap[t]
           len  == Len(expected[t])
           n    == work.batch[t]
           rows == [i \in 1 .. n |-> <<t, Len(expected[t]) + i, ends>>]
<1>1. /\ t # NoToken /\ work.copied = work.old.bytesSize /\ disk' = Written
      /\ indexMap' = [indexMap EXCEPT ![t].bytesSize = (@ + n) % Span]
      /\ work' = [Idle EXCEPT !.batch = [u \in DOMAIN work.batch \ {t} |-> work.batch[u]]]
      /\ expected' = [expected EXCEPT ![t] = @ \o rows]
      /\ UNCHANGED <<currentBlockPos, proc, failed, meta, savedExpected, ends>>
  BY DEF AppendRows
<1>2. /\ failed => lost' = lost \cup {t}
      /\ ~failed => lost' = lost
  BY DEF AppendRows
<1>3. /\ t \in Tokens /\ t \in DOMAIN indexMap /\ len \in Nat /\ n \in Nat \ {0}
  BY <1>1, HandFacts
<1>4. new.bytesSize = len /\ len + n < Span
  <2>1. /\ len + n < Span
        /\ work.old = NoPos => new.bytesSize = len
        /\ work.old # NoPos => new.bytesSize = work.copied /\ Fits(work.old, expected[t])
    BY <1>1 DEF CInv, HandSized
  <2>2. work.old # NoPos => work.old.bytesSize = len
    BY <2>1 DEF Fits
  <2> QED
    BY <1>1, <2>1, <2>2
<1>5. (new.bytesSize + n) % Span = len + n
  <2> DEFINE m == len + n
  <2>1. m \in Nat /\ m < Span
    <3>1. m \in Nat
      BY <1>3
    <3> QED
      BY <1>4, <3>1
  <2>2. new.bytesSize + n = m
    BY <1>4
  <2> HIDE DEF m
  <2>3. m % Span = m
    BY <2>1, BlockAssumption
  <2> QED
    BY <2>2, <2>3 DEF m
<1>6. /\ DOMAIN indexMap' = DOMAIN indexMap
      /\ \A u \in DOMAIN indexMap : u # t => indexMap'[u] = indexMap[u]
      /\ indexMap'[t].blockMask = new.blockMask /\ indexMap'[t].blockStart = new.blockStart
      /\ indexMap'[t].bytesSize = len + n
  <2>1. IsIndexMap(indexMap)
    BY DEF IInv, TypeOK
  <2>2. new \in [blockMask : BlockMasks \cup {0}, blockStart : Nat, bytesSize : 0 .. Span - 1]
    BY <1>3, <2>1 DEF IsIndexMap, IndexPos
  <2> DEFINE more == (new.bytesSize + n) % Span
             m    == len + n
  <2>3. indexMap' = [u \in DOMAIN indexMap |->
                      IF u = t THEN [new EXCEPT !.bytesSize = more] ELSE indexMap[u]]
    BY <1>1, <2>1 DEF IsIndexMap
  <2>4. more = m
    BY <1>5
  <2> HIDE DEF more, m
  <2>5. indexMap'[t] = [new EXCEPT !.bytesSize = m]
    BY <1>3, <2>3, <2>4
  <2>6. DOMAIN indexMap' = DOMAIN indexMap
        /\ \A u \in DOMAIN indexMap : u # t => indexMap'[u] = indexMap[u]
    BY <2>3
  <2> HIDE DEF new
  <2>7. /\ indexMap'[t].blockMask = new.blockMask /\ indexMap'[t].blockStart = new.blockStart
        /\ indexMap'[t].bytesSize = m
    BY <2>2, <2>5
  <2> QED
    BY <2>6, <2>7 DEF m
<1>7. /\ \A u \in Tokens : u # t => expected'[u] = expected[u]
      /\ Len(expected'[t]) = len + n
      /\ \A i \in 1 .. len : expected'[t][i] = expected[t][i]
  <2>1. expected \in [Tokens -> Seq(Row)]
    BY DEF IInv, TypeOK
  <2>2. expected' = [u \in Tokens |-> IF u = t THEN expected[t] \o rows ELSE expected[u]]
    BY <1>1, <2>1
  <2>3. \A u \in Tokens : u # t => expected'[u] = expected[u]
    BY <2>2
  <2>4. expected'[t] = expected[t] \o rows
    BY <1>3, <2>2
  <2>5. Len(rows) = n /\ rows \in Seq({<<t, len + i, ends>> : i \in 1 .. n}) /\ expected[t] \in Seq(Row)
    <3> DEFINE S == {<<t, len + i, ends>> : i \in 1 .. n}
    <3>1. rows \in [1 .. n -> S]
      OBVIOUS
    <3>2. n \in Nat
      BY <1>3
    <3> HIDE DEF rows, S, n
    <3>3. Len(rows) = n /\ rows \in Seq(S)
      BY <3>1, <3>2
    <3>4. expected[t] \in Seq(Row)
      BY <1>3, <2>1
    <3> QED
      BY <3>3, <3>4 DEF S
  <2> HIDE DEF rows
  <2>6. /\ Len(expected[t] \o rows) = len + n
        /\ \A i \in 1 .. len : (expected[t] \o rows)[i] = expected[t][i]
    <3> DEFINE list == expected[t]
    <3>1. list \in Seq(Row) /\ \E S : rows \in Seq(S)
      BY <2>5
    <3>2. PICK S : rows \in Seq(S)
      BY <3>1
    <3> HIDE DEF list
    <3>3. /\ Len(list \o rows) = Len(list) + Len(rows)
          /\ \A i \in 1 .. Len(list) : (list \o rows)[i] = list[i]
      BY <3>1, <3>2
    <3> QED
      BY <2>5, <3>3 DEF list
  <2> QED
    BY <2>3, <2>4, <2>6
<1>8. work'.token = NoToken
  BY <1>1 DEF Idle
<1> QED
  BY <1>1, <1>2, <1>3, <1>4, <1>6, <1>7, <1>8

\* The rows that come as the stream takes them.
LEMMA AppendReads ==
  ASSUME IInv, CInv, FileSmall, AppendRows
  PROVE  LET t   == work.token
             new == indexMap[t]
             m   == Len(expected[t]) + work.batch[t]
         IN  /\ IsFiniteSet(DOMAIN tail')
             /\ \A a \in DOMAIN tail' : \E i \in Nat : i < Capacity(new) /\ a = First(new) + i
             /\ t \notin lost' => Held(Over(tail', Written), First(new), expected'[t], 1, m)
<1> DEFINE t    == work.token
           new  == indexMap[t]
           len  == Len(expected[t])
           n    == work.batch[t]
           list == expected'[t]
           at   == First(new)
           rows == [i \in 1 .. n |-> <<t, Len(expected[t]) + i, ends>>]
           put  == Place(rows, at + len)
           S    == {<<t, len + i, ends>> : i \in 1 .. n}
<1>1. /\ t # NoToken /\ len \in Nat /\ n \in Nat /\ new.bytesSize = len
      /\ failed => lost' = lost \cup {t}
      /\ ~failed => lost' = lost
      /\ \A i \in 1 .. len : list[i] = expected[t][i]
  BY AppendFacts
<1>2. /\ at \in Nat /\ Capacity(new) \in Nat /\ len + n <= Capacity(new)
      /\ BlockToPos(new.blockStart, new.bytesSize) = at + len
  <2>1. /\ at \in Nat /\ Capacity(new) \in Nat /\ len + n <= Capacity(new)
        /\ \A k \in Nat : k <= Capacity(new) => BlockToPos(new.blockStart, k) = at + k
    BY <1>1, HandFacts
  <2> HIDE DEF n, len, at, new
  <2>2. len <= Capacity(new)
    BY <1>1, <2>1
  <2> QED
    BY <1>1, <2>1, <2>2
<1>3. rows \in [1 .. n -> S]
  OBVIOUS
<1>4. /\ failed => tail' = Empty
      /\ ~failed => tail' = put
  <2>1. /\ failed => tail' = Empty
        /\ ~failed => tail' = Place(rows, BlockToPos(new.blockStart, new.bytesSize))
    BY DEF AppendRows
  <2> QED
    BY <1>2, <2>1
<1>5. \A i \in 1 .. n : list[len + i] = rows[i]
  <2>1. expected \in [Tokens -> Seq(Row)] /\ t \in Tokens
    BY <1>1, HandFacts DEF IInv, TypeOK
  <2>2. list = expected[t] \o rows
    BY <2>1 DEF AppendRows
  <2>3. expected[t] \in Seq(Row) /\ rows \in Seq(S) /\ Len(rows) = n
    <3>1. expected[t] \in Seq(Row)
      BY <2>1
    <3> HIDE DEF rows, S, n
    <3> QED
      BY <1>1, <1>3, <3>1
  <2> DEFINE old == expected[t]
  <2>4. len = Len(old)
    OBVIOUS
  <2> HIDE DEF rows, S, n, list, old, len
  <2>5. \A i \in 1 .. Len(rows) : (old \o rows)[Len(old) + i] = rows[i]
    <3>1. old \in Seq(Row)
      BY <2>3 DEF old
    <3> QED
      BY <2>3, <3>1
  <2> QED
    BY <2>2, <2>3, <2>4, <2>5 DEF old
<1> HIDE DEF rows
<1>6. DOMAIN put = at + len .. at + len + n - 1 /\ IsFiniteSet(DOMAIN put)
  <2> DEFINE to == at + len
  <2>1. to \in Nat /\ n \in Nat
    BY <1>1, <1>2
  <2> HIDE DEF to, n, S
  <2>2. DOMAIN Place(rows, to) = to .. to + n - 1 /\ IsFiniteSet(DOMAIN Place(rows, to))
    BY <1>3, <2>1, PlaceCells
  <2> QED
    BY <2>2 DEF to
<1>7. CASE failed
  <2>1. DOMAIN tail' = {} /\ t \in lost'
    <3>1. DOMAIN Empty = {}
      BY DEF Empty
    <3> QED
      BY <1>1, <1>4, <1>7, <3>1
  <2> QED
    BY <2>1, FS_EmptySet
<1>8. CASE ~failed
  <2>1. tail' = put /\ lost' = lost
    BY <1>1, <1>4, <1>8
  <2>2. ASSUME NEW a \in DOMAIN put
        PROVE  \E i \in Nat : i < Capacity(new) /\ a = at + i
    <3>1. a \in at + len .. at + len + n - 1
      BY <1>6
    <3> DEFINE i == a - at
    <3> HIDE DEF put, at, len, n, new
    <3>2. i \in Nat /\ i < Capacity(new) /\ a = at + i
      BY <1>1, <1>2, <3>1
    <3> QED
      BY <3>2
  <2>3. ASSUME t \notin lost
        PROVE  Held(Over(put, Written), at, list, 1, len + n)
    <3>1. Held(Written, at, expected[t], 1, len)
      BY <1>1, <2>3 DEF CInv, HandReads
    <3>2. Held(Written, at, list, 1, len)
      BY <1>1, <3>1 DEF Held
    <3> HIDE DEF list, at, len, n, S
    <3>3. Held(Over(put, Written), at, list, len + 1, len + n)
      <4>1. \A i \in 1 .. n : list[len + i] = rows[i]
        BY <1>5
      <4> QED
        BY <1>1, <1>2, <1>3, <4>1, HeldPlaced
    <3> HIDE DEF put
    <3>4. Held(Over(put, Written), at, list, 1, len)
      <4>1. \A i \in 1 .. len : at + i - 1 \notin at + len .. at + len + n - 1
        BY <1>1, <1>2
      <4> QED
        BY <1>6, <3>2, <4>1, HeldThrough
    <3> QED
      BY <1>1, <1>2, <3>3, <3>4, HeldSplit
  <2> HIDE DEF put
  <2> QED
    BY <1>6, <2>1, <2>2, <2>3
<1> QED
  BY <1>7, <1>8

\* The token's rows are all in its block again, or the token is damaged.
LEMMA AppendRowsKeeps ==
  ASSUME IInv, CInv, FileSmall, AppendRows
  PROVE  CInv'
<1> DEFINE t   == work.token
           new == indexMap[t]
           len == Len(expected[t])
           n   == work.batch[t]
           m   == len + n
<1>1. /\ t # NoToken /\ len \in Nat /\ n \in Nat \ {0} /\ new.bytesSize = len
      /\ work'.token = NoToken /\ disk' = Written
      /\ UNCHANGED <<currentBlockPos, proc, failed, meta, savedExpected, ends>>
      /\ failed => lost' = lost \cup {t}
      /\ ~failed => lost' = lost
  BY AppendFacts
<1>2. /\ DOMAIN indexMap' = DOMAIN indexMap
      /\ \A u \in DOMAIN indexMap : u # t => indexMap'[u] = indexMap[u]
      /\ indexMap'[t].blockMask = new.blockMask /\ indexMap'[t].blockStart = new.blockStart
      /\ indexMap'[t].bytesSize = m
  BY AppendFacts
<1>3. /\ \A u \in Tokens : u # t => expected'[u] = expected[u]
      /\ Len(expected'[t]) = m
      /\ \A i \in 1 .. len : expected'[t][i] = expected[t][i]
  BY AppendFacts
<1>4. /\ proc # "down" /\ t \in Tokens /\ t \in DOMAIN indexMap
      /\ new.blockMask = GetMask(m)
  BY <1>1, HandFacts DEF CInv, HandSized
<1>5. /\ IsFiniteSet(DOMAIN tail')
      /\ \A a \in DOMAIN tail' : \E i \in Nat : i < Capacity(new) /\ a = First(new) + i
      /\ t \notin lost' => Held(Over(tail', Written), First(new), expected'[t], 1, m)
  BY AppendReads
<1>6. /\ Map' = indexMap' /\ Map = indexMap /\ SavedMap' = SavedMap
      /\ Written' = Over(tail', Written) /\ First(indexMap'[t]) = First(new)
  BY <1>1, <1>2, <1>4 DEF Map, SavedMap, Written, First
<1>7. SavedSized' /\ SavedSmall'
  BY <1>1, SavedStays
<1>8. Fits(indexMap'[t], expected'[t])
  <2>1. expected'[t] # << >>
    <3>1. Len(<< >>) = 0
      OBVIOUS
    <3>2. m # 0
      BY <1>1
    <3> QED
      BY <1>3, <3>1, <3>2
  <2>2. /\ indexMap'[t].bytesSize = Len(expected'[t])
        /\ indexMap'[t].blockMask = GetMask(Len(expected'[t]))
    BY <1>2, <1>3, <1>4
  <2> QED
    BY <2>1, <2>2 DEF Fits
<1>9. MapSized'
  <2>1. \A u \in Tokens \ {t} : IF u \in DOMAIN indexMap THEN Fits(indexMap[u], expected[u])
                                ELSE expected[u] = << >>
    BY <1>6 DEF CInv, MapSized, Sized
  <2>2. \A u \in Tokens : IF u \in DOMAIN indexMap' THEN Fits(indexMap'[u], expected'[u])
                          ELSE expected'[u] = << >>
    <3> HIDE DEF t
    <3> TAKE u \in Tokens
    <3>1. CASE u = t
      BY <1>2, <1>4, <1>8, <3>1
    <3>2. CASE u # t
      <4>1. /\ u \in DOMAIN indexMap' <=> u \in DOMAIN indexMap
            /\ u \in DOMAIN indexMap => indexMap'[u] = indexMap[u]
            /\ expected'[u] = expected[u]
        BY <1>2, <1>3, <3>2
      <4> QED
        BY <2>1, <3>2, <4>1
    <3> QED
      BY <3>1, <3>2
  <2> QED
    BY <1>6, <2>2 DEF MapSized, Sized
<1>10. RowsRead'
  <2> SUFFICES ASSUME NEW u \in Tokens \ lost'
               PROVE  Reads(Over(tail', Written), indexMap', u, expected'[u])
    BY <1>1, <1>6 DEF RowsRead
  <2>1. CASE u = t
    <3>1. Held(Over(tail', Written), First(indexMap'[t]), expected'[t], 1, Len(expected'[t]))
      BY <1>3, <1>5, <1>6, <2>1
    <3> QED
      BY <2>1, <3>1 DEF Reads
  <2>2. CASE u # t
    <3> DEFINE cells == tail'
    <3>1. \A a \in DOMAIN cells : \E i \in Nat : i < Capacity(new) /\ a = First(new) + i
      BY <1>5
    <3>2. u \in Tokens \ (lost \cup {t})
      BY <1>1, <2>2
    <3> HIDE DEF cells
    <3>3. Reads(Over(cells, Written), indexMap, u, expected[u])
      BY <1>1, <3>1, <3>2, OthersRead
    <3>4. /\ u \in DOMAIN indexMap' => u \in DOMAIN indexMap /\ indexMap'[u] = indexMap[u]
          /\ expected'[u] = expected[u]
      BY <1>2, <1>3, <2>2
    <3> QED
      BY <3>3, <3>4 DEF Reads, cells
  <2> QED
    BY <2>1, <2>2
<1>11. HandSized' /\ HandReads' /\ CopySafe'
  BY <1>1 DEF HandSized, HandReads, CopySafe
<1>12. SavedBehind'
  <2> SUFFICES ASSUME NEW u \in DOMAIN SavedMap, SavedMap[u].bytesSize > 0
               PROVE  /\ u \in DOMAIN indexMap' /\ Grew(SavedMap[u], indexMap'[u])
                      /\ u # work'.token
    BY <1>6 DEF SavedBehind
  <2>1. u \in DOMAIN indexMap /\ Grew(SavedMap[u], indexMap[u])
    BY <1>6 DEF CInv, SavedBehind
  <2>2. indexMap'[u].blockMask = indexMap[u].blockMask /\ indexMap'[u].blockStart = indexMap[u].blockStart
    BY <1>2, <2>1
  <2>3. u # NoToken
    BY Owned, Types
  <2> QED
    BY <1>1, <1>2, <2>1, <2>2, <2>3 DEF Grew
<1>13. SavedPrefix'
  <2> SUFFICES ASSUME NEW u \in Tokens
               PROVE  Prefix(savedExpected[u], expected'[u])
    BY <1>1 DEF SavedPrefix
  <2>1. Prefix(savedExpected[u], expected[u])
    BY DEF CInv, SavedPrefix
  <2>2. CASE u # t
    BY <1>3, <2>1, <2>2
  <2>3. CASE u = t
    <3> DEFINE saved == Len(savedExpected[u])
    <3>1. /\ saved \in Nat /\ saved <= len
          /\ \A i \in 1 .. saved : savedExpected[u][i] = expected[u][i]
      BY <2>1, <2>3, Types DEF Prefix
    <3> HIDE DEF saved, len, n
    <3>2. saved <= m /\ \A i \in 1 .. saved : i \in 1 .. len
      BY <1>1, <3>1
    <3>3. \A i \in 1 .. saved : savedExpected[u][i] = expected'[u][i]
      BY <1>3, <2>3, <3>1, <3>2
    <3> HIDE DEF m
    <3> QED
      BY <1>3, <2>3, <3>2, <3>3 DEF Prefix, saved
  <2> QED
    BY <2>2, <2>3
<1>14. DownClean'
  BY <1>1, <1>4 DEF DownClean
<1>15. FilesFinite'
  <2>1. IsFiniteSet(DOMAIN Written)
    BY OverFinite DEF CInv, FilesFinite, Written
  <2> QED
    BY <1>1, <1>5, <2>1 DEF FilesFinite
<1>16. FailsOverLost'
  <2>1. failed' = failed /\ ends' = ends /\ (failed \/ lost' = lost) /\ lost \subseteq lost'
    BY <1>1
  <2> QED
    BY <2>1 DEF CInv, FailsOverLost
<1> QED
  BY <1>7, <1>9, <1>10, <1>11, <1>12, <1>13, <1>14, <1>15, <1>16 DEF CInv

-----------------------------------------------------------------------------
\* The stream's buffer goes to the disk: every row stays where it is.
LEMMA FlushKeeps ==
  ASSUME CInv, disk' = Written, tail' = Empty, lost' = lost, expected' = expected,
         work.token = NoToken, work'.token = NoToken,
         \A t \in Tokens : t \in DOMAIN Map' => \/ t \in DOMAIN Map /\ Map'[t] = Map[t]
                                                \/ expected[t] = << >>
  PROVE  RowsRead' /\ FilesFinite'
<1>1. RowsRead'
  <2> SUFFICES ASSUME NEW t \in Tokens \ (lost \cup {NoToken}), t \in DOMAIN Map'
               PROVE  Held(Over(Empty, Written), First(Map'[t]), expected[t], 1, Len(expected[t]))
    BY DEF RowsRead, Reads, Written
  <2>1. CASE t \in DOMAIN Map /\ Map'[t] = Map[t]
    <3> DEFINE file == Written
    <3>1. Held(file, First(Map'[t]), expected[t], 1, Len(expected[t]))
      BY <2>1 DEF CInv, RowsRead, Reads
    <3> HIDE DEF file
    <3>2. Held(Over(Empty, file), First(Map'[t]), expected[t], 1, Len(expected[t]))
      BY <3>1, HeldFlushed
    <3> QED
      BY <3>2 DEF file
  <2>2. CASE expected[t] = << >>
    <3>1. Len(expected[t]) = 0 /\ 1 .. 0 = {}
      BY <2>2
    <3> QED
      BY <3>1 DEF Held
  <2> QED
    BY <2>1, <2>2
<1>2. FilesFinite'
  <2>1. IsFiniteSet(DOMAIN Written)
    BY OverFinite DEF CInv, FilesFinite, Written
  <2>2. DOMAIN Empty = {}
    BY DEF Empty
  <2> QED
    BY <2>1, <2>2, FS_EmptySet DEF FilesFinite
<1> QED
  BY <1>1, <1>2

\* The rows of a token that is not damaged lie in the file, all of them.
LEMMA LookupReads ==
  ASSUME IInv, CInv, FileSmall, NEW t \in Tokens \ lost, proc = "open", work = Idle
  PROVE  LET pos == IF t \in DOMAIN indexMap THEN indexMap[t] ELSE NoPos
         IN  Readable(Written, First(pos), pos.bytesSize)
<1> DEFINE pos == IF t \in DOMAIN indexMap THEN indexMap[t] ELSE NoPos
<1>3. Map = indexMap /\ t \in Tokens \ {work.token}
  BY Types DEF Map, Idle
<1>1. CASE t \notin DOMAIN indexMap
  <2>1. pos.bytesSize = 0
    BY <1>1 DEF NoPos
  <2> QED
    BY <2>1 DEF Readable
<1>2. CASE t \in DOMAIN indexMap
  <2> DEFINE at   == First(indexMap[t])
             file == Written
             list == expected[t]
  <2>1. Fits(indexMap[t], list) /\ Held(file, at, list, 1, Len(list))
    BY <1>2, <1>3 DEF CInv, MapSized, Sized, RowsRead, Reads
  <2>2. at \in Nat
    <3>1. /\ IsBlock(indexMap[t]) /\ Below(indexMap[t], currentBlockPos)
          /\ currentBlockPos \in Nat /\ Small(currentBlockPos)
      BY <1>2, Owned DEF IsOwned, FileSmall
    <3> QED
      BY <3>1, BlockRows
  <2>3. DOMAIN file \subseteq Nat /\ IsFiniteSet(DOMAIN file) /\ Len(list) \in Nat
    BY Types, OverFinite DEF CInv, FilesFinite, Written
  <2> HIDE DEF at, file, list
  <2>4. Readable(file, at + (1 - 1), Len(list))
    <3>1. 1 + Len(list) - 1 <= Len(list) /\ 1 \in Nat /\ 1 >= 1
      BY <2>3
    <3> QED
      BY <2>1, <2>2, <2>3, <3>1, HeldReadable
  <2>5. at + (1 - 1) = at
    BY <2>2
  <2>6. pos = indexMap[t] /\ pos.bytesSize = Len(list)
    BY <1>2, <2>1 DEF Fits
  <2> QED
    BY <2>4, <2>5, <2>6 DEF at, file
<1> QED
  BY <1>1, <1>2

\* Looking a token up leaves an entry of no rows, and fails over a damaged token only.
LEMMA GetRawIndexKeeps ==
  ASSUME IInv, CInv, FileSmall, NEW t \in Tokens, GetRawIndex(t)
  PROVE  CInv'
<1> DEFINE pos == IF t \in DOMAIN indexMap THEN indexMap[t] ELSE NoPos
<1>1. /\ proc = "open" /\ work = Idle /\ SetPos(t, pos) /\ disk' = Written /\ tail' = Empty
      /\ UNCHANGED <<currentBlockPos, proc, work, meta, expected, savedExpected, lost, ends>>
  BY DEF GetRawIndex, observer
<1>2. failed' => failed \/ ~ Readable(Written, First(pos), pos.bytesSize)
  BY DEF GetRawIndex, First
<1>3. work.token = NoToken /\ work'.token = NoToken /\ work.old = NoPos
  BY <1>1 DEF Idle
<1>4. /\ DOMAIN indexMap' = DOMAIN indexMap \cup {t} /\ indexMap'[t] = pos
      /\ \A u \in DOMAIN indexMap : indexMap'[u] = indexMap[u]
  BY <1>1 DEF SetPos
<1>5. /\ Map' = indexMap' /\ Map = indexMap /\ SavedMap' = SavedMap
  BY <1>1 DEF Map, SavedMap
<1>6. /\ \A u \in Tokens : u \in Tokens \ {work.token}
      /\ t \notin DOMAIN indexMap => expected[t] = << >>
  <2>1. \A u \in Tokens : u \in Tokens \ {work.token}
    BY <1>3, Types
  <2> QED
    BY <1>5, <2>1 DEF CInv, MapSized, Sized
<1>7. SavedSized' /\ SavedSmall'
  BY <1>1, SavedStays
<1>8. MapSized'
  <2>1. Fits(NoPos, << >>)
    BY DEF Fits, NoPos
  <2>2. \A u \in Tokens : IF u \in DOMAIN indexMap THEN Fits(indexMap[u], expected[u])
                          ELSE expected[u] = << >>
    BY <1>5, <1>6 DEF CInv, MapSized, Sized
  <2>3. \A u \in Tokens : IF u \in DOMAIN indexMap' THEN Fits(indexMap'[u], expected[u])
                          ELSE expected[u] = << >>
    BY <1>4, <1>6, <2>1, <2>2
  <2> QED
    BY <1>1, <1>5, <2>3 DEF MapSized, Sized
<1>9. RowsRead' /\ FilesFinite'
  <2>1. \A u \in Tokens : u \in DOMAIN Map' => \/ u \in DOMAIN Map /\ Map'[u] = Map[u]
                                               \/ expected[u] = << >>
    BY <1>4, <1>5, <1>6
  <2> QED
    BY <1>1, <1>3, <2>1, FlushKeeps
<1>10. HandSized' /\ HandReads' /\ CopySafe'
  BY <1>3 DEF HandSized, HandReads, CopySafe
<1>11. SavedBehind'
  <2> SUFFICES ASSUME NEW u \in DOMAIN SavedMap, SavedMap[u].bytesSize > 0
               PROVE  u \in DOMAIN indexMap' /\ Grew(SavedMap[u], indexMap'[u]) /\ u # work'.token
    BY <1>5 DEF SavedBehind
  <2>1. u \in DOMAIN indexMap /\ Grew(SavedMap[u], indexMap[u])
    BY <1>5 DEF CInv, SavedBehind
  <2>2. u # NoToken
    BY Owned, Types
  <2> QED
    BY <1>3, <1>4, <2>1, <2>2
<1>12. SavedPrefix' /\ DownClean'
  BY <1>1 DEF CInv, SavedPrefix, DownClean
<1>13. FailsOverLost'
  <2>1. t \notin lost => Readable(Written, First(pos), pos.bytesSize)
    BY <1>1, LookupReads
  <2>2. failed' => lost # {}
    BY <1>2, <2>1 DEF CInv, FailsOverLost
  <2> QED
    BY <1>1, <2>2 DEF CInv, FailsOverLost
<1> QED
  BY <1>7, <1>8, <1>9, <1>10, <1>11, <1>12, <1>13 DEF CInv

LEMMA CloseKeeps ==
  ASSUME IInv, CInv, Close
  PROVE  CInv'
<1>1. /\ proc = "open" /\ proc' = "closed" /\ failed' = FALSE /\ work = Idle
      /\ disk' = Written /\ tail' = Empty
      /\ UNCHANGED <<indexMap, currentBlockPos, work, meta, expected, savedExpected, lost, ends>>
  BY DEF Close, statics, observer
<1>2. work.token = NoToken /\ work'.token = NoToken
  BY <1>1 DEF Idle
<1>3. Map' = Map /\ SavedMap' = SavedMap
  BY <1>1 DEF Map, SavedMap
<1>4. SavedSized' /\ SavedSmall' /\ MapSized'
  BY <1>1, <1>3, SavedStays DEF CInv, MapSized, Sized
<1>5. RowsRead' /\ FilesFinite'
  <2>1. \A u \in Tokens : u \in DOMAIN Map' => u \in DOMAIN Map /\ Map'[u] = Map[u]
    BY <1>3
  <2> QED
    BY <1>1, <1>2, <2>1, FlushKeeps
<1>6. HandSized' /\ HandReads' /\ CopySafe'
  BY <1>2 DEF HandSized, HandReads, CopySafe
<1>7. SavedBehind' /\ SavedPrefix'
  BY <1>1, <1>3 DEF CInv, SavedBehind, SavedPrefix
<1>8. DownClean' /\ FailsOverLost'
  BY <1>1 DEF CInv, DownClean, FailsOverLost
<1> QED
  BY <1>4, <1>5, <1>6, <1>7, <1>8 DEF CInv

\* The map that is saved is the one in force, at most as large as the head says.
LEMMA SaveStorageMetaKeeps ==
  ASSUME IInv, CInv, FileSmall, SaveStorageMeta
  PROVE  CInv'
<1>1. /\ proc # "down" /\ work = Idle
      /\ meta' = [indexMap |-> indexMap, freeBlockPoses |-> freeBlockPoses,
                  currentBlockPos |-> currentBlockPos]
      /\ savedExpected' = expected
      /\ UNCHANGED <<indexMap, currentBlockPos, proc, failed, work, disk, tail, expected, lost, ends>>
  BY DEF SaveStorageMeta, statics
<1>2. work.token = NoToken /\ work'.token = NoToken
  BY <1>1 DEF Idle
<1>3. meta' # NoMeta
  <2>1. meta'.currentBlockPos \in Nat
    BY <1>1, Owned
  <2>2. NoMeta.currentBlockPos \notin Nat
    BY DEF NoMeta
  <2> QED
    BY <2>1, <2>2
<1>4. /\ Map' = indexMap /\ Map = indexMap /\ Written' = Written
      /\ SavedMap' = indexMap /\ meta'.currentBlockPos = currentBlockPos
      /\ \A u \in Tokens : u \in Tokens \ {work.token}
  <2>1. meta'.indexMap = indexMap /\ meta'.currentBlockPos = currentBlockPos
    BY <1>1
  <2>2. SavedMap' = meta'.indexMap
    BY <1>3 DEF SavedMap
  <2> QED
    BY <1>1, <1>2, <2>1, <2>2, Types DEF Map, Written
<1>5. MapSized' /\ RowsRead' /\ SavedSmall'
  BY <1>1, <1>4 DEF CInv, MapSized, Sized, RowsRead, SavedSmall, FileSmall
<1>6. SavedSized'
  BY <1>1, <1>4 DEF CInv, MapSized, Sized, SavedSized
<1>7. HandSized' /\ HandReads' /\ CopySafe'
  BY <1>2 DEF HandSized, HandReads, CopySafe
<1>8. SavedBehind'
  <2> SUFFICES ASSUME NEW t \in DOMAIN indexMap
               PROVE  Grew(indexMap[t], indexMap[t]) /\ t # NoToken
    BY <1>2, <1>4 DEF SavedBehind
  <2>1. t \in Tokens /\ IsBlock(indexMap[t])
    BY Owned DEF IsOwned
  <2> QED
    BY <2>1, Types DEF Grew, IsBlock
<1>9. SavedPrefix'
  <2> SUFFICES ASSUME NEW t \in Tokens
               PROVE  Prefix(expected[t], expected[t])
    BY <1>1 DEF SavedPrefix
  <2>1. Len(expected[t]) \in Nat
    BY Types
  <2> QED
    BY <2>1 DEF Prefix
<1>10. DownClean' /\ FilesFinite' /\ FailsOverLost'
  BY <1>1 DEF CInv, DownClean, FilesFinite, FailsOverLost
<1> QED
  BY <1>5, <1>6, <1>7, <1>8, <1>9, <1>10 DEF CInv

-----------------------------------------------------------------------------
\* A token whose saved block was not given up has its saved rows there, in the file or
\* in the buffer.
LEMMA SavedRowsThere ==
  ASSUME IInv, CInv, proc # "down",
         NEW t \in DOMAIN SavedMap, t \notin lost \cup Released, SavedMap[t].bytesSize > 0
  PROVE  Held(Written, First(SavedMap[t]), savedExpected[t], 1, Len(savedExpected[t]))
<1> DEFINE pos == indexMap[t]
           at  == First(SavedMap[t])
<1>1. /\ t \in Tokens /\ Map = indexMap /\ pos.blockMask = SavedMap[t].blockMask
  BY Owned, Types DEF Released
<1>2. /\ t \in DOMAIN indexMap /\ pos.blockStart = SavedMap[t].blockStart
      /\ ~ (t = work.token /\ work.old # NoPos)
  <2>1. /\ t \in DOMAIN indexMap /\ Grew(SavedMap[t], pos)
        /\ t = work.token /\ work.old # NoPos => SavedMap[t].blockMask < pos.blockMask
    BY <1>1 DEF CInv, SavedBehind
  <2>2. SavedMap[t].blockMask \in Nat
    BY Owned DEF IsOwned, IsBlock
  <2> QED
    BY <1>1, <2>1, <2>2 DEF Grew
<1>3. First(pos) = at
  BY <1>2 DEF First
<1>4. Held(Written, at, expected[t], 1, Len(expected[t]))
  <2>1. CASE t = work.token
    <3>1. t # NoToken /\ work.old = NoPos
      BY <1>1, <1>2, <2>1, Types
    <3>2. pos.bytesSize = Len(expected[t])
      BY <2>1, <3>1 DEF CInv, HandSized
    <3>3. Held(Written, First(pos), expected[t], 1, pos.bytesSize)
      BY <2>1, <3>1 DEF CInv, HandReads
    <3> QED
      BY <1>3, <3>2, <3>3
  <2>2. CASE t # work.token
    BY <1>1, <1>2, <1>3, <2>2 DEF CInv, RowsRead, Reads
  <2> QED
    BY <2>1, <2>2
<1>5. /\ Len(savedExpected[t]) \in Nat /\ Len(expected[t]) \in Nat
      /\ Len(savedExpected[t]) <= Len(expected[t])
      /\ \A i \in 1 .. Len(savedExpected[t]) : savedExpected[t][i] = expected[t][i]
  BY <1>1, Types DEF CInv, SavedPrefix, Prefix
<1>6. \A i \in 1 .. Len(savedExpected[t]) : i \in 1 .. Len(expected[t])
  BY <1>5
<1> QED
  BY <1>4, <1>5, <1>6 DEF Held

\* Of the buffered rows those before the cut are in the file: a token with none of its
\* saved rows behind it finds them all.
LEMMA ProcessEndsKeeps ==
  ASSUME IInv, CInv, ProcessEnds
  PROVE  CInv'
<1>1. PICK cut \in DOMAIN tail \cup {Length(Written)} :
        /\ proc # "down" /\ ends' = ends + 1 /\ proc' = "down" /\ failed' = FALSE /\ work' = Idle
        /\ indexMap' = Empty
        /\ disk' = Over(Before(tail, cut), disk) /\ tail' = Empty
        /\ expected' = savedExpected
        /\ lost' = lost \cup Released \cup SavedIn(DOMAIN From(tail, cut))
        /\ UNCHANGED <<meta, savedExpected>>
  BY DEF ProcessEnds
<1>2. /\ SavedMap' = SavedMap /\ Map' = SavedMap /\ Written' = Over(Empty, disk')
      /\ work'.token = NoToken
  BY <1>1 DEF SavedMap, Map, Written, Idle
<1>3. DOMAIN Empty = {}
  BY DEF Empty
<1>4. cut \in Nat /\ DOMAIN tail \subseteq Nat
  <2> DEFINE file == Written
  <2>1. DOMAIN file \subseteq Nat /\ IsFiniteSet(DOMAIN file) /\ DOMAIN tail \subseteq Nat
    BY Types, OverFinite DEF CInv, FilesFinite, Written, IsFile
  <2> HIDE DEF file
  <2>2. Length(file) \in Nat
    BY <2>1, LengthPast
  <2> QED
    BY <2>1, <2>2 DEF file
<1>5. SavedSized' /\ SavedSmall'
  BY <1>1, SavedStays
<1>6. MapSized'
  BY <1>1, <1>2 DEF CInv, SavedSized, MapSized, Sized
<1>7. RowsRead'
  <2> SUFFICES ASSUME NEW t \in Tokens \ lost', t \in DOMAIN SavedMap,
                      NEW i \in 1 .. Len(savedExpected[t])
               PROVE  /\ First(SavedMap[t]) + i - 1 \in DOMAIN Over(Empty, disk')
                      /\ Over(Empty, disk')[First(SavedMap[t]) + i - 1] = savedExpected[t][i]
    BY <1>1, <1>2 DEF RowsRead, Reads, Held
  <2> DEFINE at  == First(SavedMap[t])
             a   == at + i - 1
             len == Len(savedExpected[t])
  <2>1. len \in Nat /\ SavedMap[t].bytesSize = len /\ len > 0
    <3>1. len \in Nat /\ len > 0
      BY Types
    <3> QED
      BY <3>1 DEF CInv, SavedSized, Sized, Fits
  <2>2. at \in Nat
    BY Owned, ConstantTypes DEF First, IsOwned, IsBlock
  <2>3. a \in at .. at + SavedMap[t].bytesSize - 1 /\ a \in Nat
    <3> HIDE DEF at, len
    <3>1. i \in 1 .. len
      BY DEF len
    <3> QED
      BY <2>1, <2>2, <3>1
  <2>4. a \in DOMAIN Written /\ Written[a] = savedExpected[t][i]
    <3>1. t \notin lost \cup Released
      BY <1>1
    <3>2. Held(Written, at, savedExpected[t], 1, len)
      BY <1>1, <2>1, <3>1, SavedRowsThere
    <3> QED
      BY <3>2 DEF Held
  <2>5. a \notin DOMAIN From(tail, cut)
    <3>1. t \notin SavedIn(DOMAIN From(tail, cut))
      BY <1>1
    <3> QED
      BY <2>3, <3>1 DEF SavedIn, First
  <2> HIDE DEF a
  <2>6. a \in DOMAIN disk' /\ disk'[a] = Written[a]
    <3>1. /\ DOMAIN Written = DOMAIN tail \cup DOMAIN disk
          /\ \A x \in DOMAIN tail : Written[x] = tail[x]
          /\ \A x \in DOMAIN disk : x \notin DOMAIN tail => Written[x] = disk[x]
      BY OverCells DEF Written
    <3>2. /\ DOMAIN Before(tail, cut) = {b \in DOMAIN tail : b < cut}
          /\ a \in DOMAIN Before(tail, cut) => Before(tail, cut)[a] = tail[a]
          /\ DOMAIN From(tail, cut) = {b \in DOMAIN tail : b >= cut}
      BY CutCells
    <3>3. a \in DOMAIN tail => a \in DOMAIN Before(tail, cut)
      BY <1>4, <2>3, <2>5, <3>2
    <3>4. a \in DOMAIN Before(tail, cut) => a \in DOMAIN tail
      BY <3>2
    <3> DEFINE put == Before(tail, cut)
    <3> HIDE DEF put
    <3>5. /\ DOMAIN Over(put, disk) = DOMAIN put \cup DOMAIN disk
          /\ \A x \in DOMAIN put : Over(put, disk)[x] = put[x]
          /\ \A x \in DOMAIN disk : x \notin DOMAIN put => Over(put, disk)[x] = disk[x]
      BY OverCells
    <3>6. disk' = Over(put, disk)
      BY <1>1 DEF put
    <3>7. /\ a \in DOMAIN tail <=> a \in DOMAIN put
          /\ a \in DOMAIN put => put[a] = tail[a]
      BY <3>2, <3>3, <3>4 DEF put
    <3> QED
      BY <2>4, <3>1, <3>5, <3>6, <3>7
  <2>7. a \in DOMAIN Over(Empty, disk') /\ Over(Empty, disk')[a] = disk'[a]
    <3> DEFINE file == disk'
    <3>1. a \in DOMAIN file
      BY <2>6
    <3> HIDE DEF file
    <3>2. /\ DOMAIN Over(Empty, file) = DOMAIN Empty \cup DOMAIN file
          /\ \A x \in DOMAIN file : x \notin DOMAIN Empty => Over(Empty, file)[x] = file[x]
      BY OverCells
    <3>3. a \in DOMAIN Over(Empty, file) /\ Over(Empty, file)[a] = file[a]
      BY <1>3, <3>1, <3>2
    <3> QED
      BY <3>3 DEF file
  <2> QED
    BY <2>4, <2>6, <2>7 DEF a
<1>8. HandSized' /\ HandReads' /\ CopySafe'
  BY <1>2 DEF HandSized, HandReads, CopySafe
<1>9. SavedBehind'
  <2> SUFFICES ASSUME NEW t \in DOMAIN SavedMap
               PROVE  Grew(SavedMap[t], SavedMap[t]) /\ t # NoToken
    BY <1>2 DEF SavedBehind
  <2>1. t \in Tokens /\ IsBlock(SavedMap[t])
    BY Owned DEF IsOwned
  <2> QED
    BY <2>1, Types DEF Grew, IsBlock
<1>10. SavedPrefix'
  <2> SUFFICES ASSUME NEW t \in Tokens
               PROVE  Prefix(savedExpected[t], savedExpected[t])
    BY <1>1 DEF SavedPrefix
  <2>1. Len(savedExpected[t]) \in Nat
    BY Types
  <2> QED
    BY <2>1 DEF Prefix
<1>11. DownClean'
  BY <1>1 DEF DownClean
<1>12. FilesFinite'
  <2> DEFINE put == Before(tail, cut)
  <2>1. IsFiniteSet(DOMAIN put)
    <3>1. DOMAIN put \subseteq DOMAIN tail
      BY CutCells
    <3> HIDE DEF put
    <3> QED
      BY <3>1, FS_Subset DEF CInv, FilesFinite
  <2>2. disk' = Over(put, disk) /\ tail' = Empty
    BY <1>1
  <2> HIDE DEF put
  <2>3. IsFiniteSet(DOMAIN disk')
    BY <2>1, <2>2, OverFinite DEF CInv, FilesFinite
  <2> QED
    BY <1>3, <2>2, <2>3, FS_EmptySet DEF FilesFinite
<1>13. FailsOverLost'
  <2>1. ends \in Nat
    BY WorkFacts, StorageAssumption
  <2> QED
    BY <1>1, <2>1 DEF FailsOverLost
<1> QED
  BY <1>5, <1>6, <1>7, <1>8, <1>9, <1>10, <1>11, <1>12, <1>13 DEF CInv

-----------------------------------------------------------------------------
LEMMA NextCInv ==
  ASSUME BatchesSmall
  PROVE  IInv /\ CInv /\ FileSmall /\ [Next]_vars => CInv'
<1> SUFFICES ASSUME IInv, CInv, FileSmall, [Next]_vars PROVE CInv'
  OBVIOUS
<1>1. CASE Construct
  BY <1>1, ConstructKeeps
<1>2. ASSUME NEW batch \in Batches, CreateIndex(batch) PROVE CInv'
  BY <1>2, CreateIndexKeeps
<1>3. ASSUME NEW t \in Tokens, KeepBlock(t) PROVE CInv'
  BY <1>3, KeepBlockKeeps
<1>4. ASSUME NEW t \in Tokens, MoveBlock(t) PROVE CInv'
  BY <1>4, MoveBlockKeeps
<1>5. ASSUME NEW t \in Tokens, NewBlock(t) PROVE CInv'
  BY <1>5, NewBlockKeeps
<1>6. CASE CopyChunk
  BY <1>6, CopyChunkKeeps
<1>7. CASE AppendRows
  BY <1>7, AppendRowsKeeps
<1>8. ASSUME NEW t \in Tokens, GetRawIndex(t) PROVE CInv'
  BY <1>8, GetRawIndexKeeps
<1>9. CASE SaveStorageMeta
  BY <1>9, SaveStorageMetaKeeps
<1>10. CASE Close
  BY <1>10, CloseKeeps
<1>11. CASE ProcessEnds
  BY <1>11, ProcessEndsKeeps
<1>12. CASE UNCHANGED vars
  <2>1. UNCHANGED <<indexMap, currentBlockPos, proc, failed, work, disk, tail, meta,
                    expected, savedExpected, lost, ends>>
    BY <1>12 DEF vars, statics, files, observer
  <2>2. Map' = Map /\ SavedMap' = SavedMap /\ Written' = Written
    BY <2>1 DEF Map, SavedMap, Written
  <2>3. SavedSized' /\ MapSized' /\ RowsRead' /\ HandSized' /\ HandReads' /\ CopySafe'
    BY <2>1, <2>2 DEF CInv, SavedSized, MapSized, Sized, RowsRead, HandSized, HandReads, CopySafe
  <2>4. SavedBehind' /\ SavedPrefix' /\ SavedSmall' /\ DownClean' /\ FilesFinite' /\ FailsOverLost'
    BY <2>1, <2>2
    DEF CInv, SavedBehind, SavedPrefix, SavedSmall, DownClean, FilesFinite, FailsOverLost
  <2> QED
    BY <2>3, <2>4 DEF CInv
<1> QED
  BY <1>1, <1>2, <1>3, <1>4, <1>5, <1>6, <1>7, <1>8, <1>9, <1>10, <1>11, <1>12
  DEF Next, CreateIndexStep

\* What holds of the contents in every state of a run whose file stays small.
LEMMA Contents ==
  ASSUME BatchesSmall
  PROVE  Spec /\ []FileSmall => [](IInv /\ CInv)
<1>1. Init => CInv
  BY InitCInv
<1>2. IInv /\ CInv /\ FileSmall /\ [Next]_vars => CInv'
  BY NextCInv
<1> QED
  BY <1>1, <1>2, Invariance, PTL DEF Spec

-----------------------------------------------------------------------------
\* Rows that are held, as the stream returns them.
Shows(cells, list, k, n) ==
  cells \in Seq(Row) /\ Len(cells) = n /\ \A i \in 1 .. n : cells[i] = list[k + i]

LEMMA HeldSlices ==
  ASSUME NEW file, NEW at \in Nat, NEW list \in Seq(Row), NEW k \in Nat, NEW n \in Nat,
         k + n <= Len(list), Held(file, at, list, k + 1, k + n),
         NEW from \in Nat, from = at + k
  PROVE  Shows(Slice(file, from, n), list, k, n)
<1> DEFINE cells == Slice(file, from, n)
<1>1. \A i \in 1 .. n : cells[i] = list[k + i] /\ list[k + i] \in Row
  <2> TAKE i \in 1 .. n
  <2>1. k + i \in k + 1 .. k + n /\ at + (k + i) - 1 = from + i - 1 /\ k + i \in 1 .. Len(list)
    OBVIOUS
  <2>2. from + i - 1 \in DOMAIN file /\ file[from + i - 1] = list[k + i]
    BY <2>1 DEF Held
  <2>3. cells[i] = list[k + i]
    BY <2>2 DEF Slice, Cell
  <2>4. list[k + i] \in Row
    BY <2>1, ElementOfSeq
  <2> QED
    BY <2>3, <2>4
<1>2. cells = [i \in 1 .. n |-> cells[i]]
  BY DEF Slice
<1> HIDE DEF cells
<1>3. cells \in [1 .. n -> Row]
  BY <1>1, <1>2
<1>4. cells \in Seq(Row) /\ Len(cells) = n
  BY <1>3
<1> QED
  BY <1>1, <1>4 DEF cells, Shows

\* A list read in two parts.
LEMMA HeldWhole ==
  ASSUME NEW file, NEW at \in Nat, NEW from \in Nat, NEW list \in Seq(Row), NEW k \in Nat,
         k <= Len(list), Held(file, at, list, 1, k), Held(file, from, list, k + 1, Len(list))
  PROVE  Slice(file, at, k) \o Slice(file, from + k, Len(list) - k) = list
<1> DEFINE n == Len(list) - k
           a == Slice(file, at, k)
           b == Slice(file, from + k, n)
<1>1. n \in Nat /\ k + n = Len(list) /\ k + n <= Len(list)
  OBVIOUS
<1>2. a \in Seq(Row) /\ Len(a) = k /\ \A i \in 1 .. k : a[i] = list[i]
  <2> DEFINE zero == 0
  <2>1. zero \in Nat /\ at = at + zero /\ zero + 1 = 1 /\ zero + k = k /\ zero + k <= Len(list)
        /\ \A i \in 1 .. k : zero + i = i
    OBVIOUS
  <2> HIDE DEF zero
  <2>2. Held(file, at, list, zero + 1, zero + k)
    BY <2>1
  <2>3. Shows(Slice(file, at, k), list, zero, k)
    BY <2>1, <2>2, HeldSlices
  <2> QED
    BY <2>1, <2>3 DEF Shows
<1>3. b \in Seq(Row) /\ Len(b) = n /\ \A i \in 1 .. n : b[i] = list[k + i]
  <2> DEFINE start == from + k
  <2>1. start \in Nat /\ start = from + k
    OBVIOUS
  <2>2. Held(file, from, list, k + 1, k + n)
    BY <1>1
  <2> HIDE DEF start, n
  <2>3. Shows(Slice(file, start, n), list, k, n)
    BY <1>1, <2>1, <2>2, HeldSlices
  <2> QED
    BY <2>3 DEF start, Shows
<1> HIDE DEF a, b, n
<1>4. a \o b \in Seq(Row) /\ Len(a \o b) = Len(list)
  <2>1. a \o b \in Seq(Row) /\ Len(a \o b) = Len(a) + Len(b)
    BY <1>2, <1>3, ConcatProperties
  <2> QED
    BY <1>1, <1>2, <1>3, <2>1
<1>5. \A i \in 1 .. Len(list) : (a \o b)[i] = list[i]
  <2> TAKE i \in 1 .. Len(list)
  <2>4. (a \o b)[i] = IF i <= Len(a) THEN a[i] ELSE b[i - Len(a)]
    BY <1>1, <1>2, <1>3, ConcatProperties
  <2>1. CASE i <= k
    BY <1>2, <2>1, <2>4
  <2>2. CASE i > k
    <3>1. PICK j \in 1 .. n : i = k + j
      <4>1. i - k \in 1 .. n /\ i = k + (i - k)
        BY <1>1, <2>2
      <4> QED
        BY <4>1
    <3>2. (a \o b)[i] = b[j]
      BY <1>2, <2>2, <2>4, <3>1
    <3> QED
      BY <1>3, <3>1, <3>2
  <2>3. i <= k \/ i > k
    OBVIOUS
  <2> QED
    BY <2>1, <2>2, <2>3
<1>6. a \o b = list
  <2> DEFINE c == a \o b
  <2>1. c \in Seq(Row) /\ Len(c) = Len(list) /\ \A i \in 1 .. Len(c) : c[i] = list[i]
    BY <1>4, <1>5
  <2> HIDE DEF c
  <2>2. c = list
    BY <2>1, SeqEqual
  <2> QED
    BY <2>2 DEF c
<1> QED
  BY <1>6 DEF a, b, n

\* What is kept for a token, also of the one that is being moved.
LEMMA StoredIsExpected ==
  ASSUME IInv, CInv, NEW t \in Tokens \ lost
  PROVE  Stored(t) = expected[t]
<1> DEFINE pos  == Map[t]
           list == expected[t]
           file == Written
           at   == First(pos)
<1>1. list \in Seq(Row) /\ Len(list) \in Nat
  BY Types
<1>2. work.token # NoToken => proc # "down" /\ work.token \in DOMAIN Map
  BY WorkFacts, Types DEF IInv, DownIdle, Idle
<1>3. CASE t \notin DOMAIN Map
  <2>1. t # work.token
    BY <1>2, <1>3, Types
  <2>2. list = << >>
    BY <1>3, <2>1 DEF CInv, MapSized, Sized
  <2> QED
    BY <1>3, <2>2 DEF Stored
<1>4. CASE t \in DOMAIN Map /\ ~ (work.token = t /\ work.old # NoPos)
  <2>1. pos.bytesSize = Len(list) /\ Held(file, at, list, 1, Len(list))
    <3>1. CASE t # work.token
      BY <1>4, <3>1 DEF CInv, MapSized, Sized, Fits, RowsRead, Reads
    <3>2. CASE t = work.token
      <4>1. t # NoToken /\ work.old = NoPos /\ Map = indexMap
        BY <1>2, <1>4, <3>2, Types
      <4>2. /\ indexMap[t].bytesSize = Len(expected[t])
            /\ Held(Written, First(indexMap[t]), expected[t], 1, indexMap[t].bytesSize)
        BY <3>2, <4>1 DEF CInv, HandSized, HandReads
      <4> QED
        BY <4>1, <4>2
    <3> QED
      BY <3>1, <3>2
  <2>2. at \in Nat
    BY <1>4, Owned, Types, ConstantTypes DEF First, IsOwned, IsBlock
  <2>3. Stored(t) = Slice(file, at, pos.bytesSize) \o << >>
    BY <1>4 DEF Stored, First
  <2> HIDE DEF at, file, list, pos
  <2>4. Held(file, at, list, Len(list) + 1, Len(list)) /\ Len(list) <= Len(list)
    BY <1>1 DEF Held
  <2>5. Slice(file, at, Len(list)) \o Slice(file, at + Len(list), Len(list) - Len(list)) = list
    BY <1>1, <2>1, <2>2, <2>4, HeldWhole
  <2>6. Slice(file, at + Len(list), Len(list) - Len(list)) = << >>
    BY <1>1 DEF Slice
  <2> QED
    BY <2>1, <2>3, <2>5, <2>6 DEF list
<1>5. CASE t \in DOMAIN Map /\ work.token = t /\ work.old # NoPos
  <2> DEFINE k    == work.copied
             from == First(work.old)
  <2>1. t # NoToken /\ Map = indexMap
    BY <1>2, <1>5, Types
  <2>2. /\ pos.bytesSize = k /\ work.old.bytesSize = Len(list)
        /\ Held(file, at, list, 1, k) /\ Held(file, from, list, k + 1, Len(list))
    BY <1>5, <2>1 DEF CInv, HandSized, Fits, HandReads
  <2>3. k \in Nat /\ k <= Len(list) /\ from \in Nat /\ at \in Nat
    <3>1. work.old \in IndexPos /\ k \in 0 .. work.old.bytesSize
      BY DEF IInv, TypeOK, WorkType
    <3>2. from \in Nat
      BY <3>1, ConstantTypes DEF First, IndexPos
    <3>3. at \in Nat
      BY <1>5, <2>1, Owned, ConstantTypes DEF First, IsOwned, IsBlock
    <3> HIDE DEF list, k
    <3> QED
      BY <1>1, <2>2, <3>1, <3>2, <3>3
  <2>4. Stored(t) = Slice(file, at, pos.bytesSize) \o Slice(file, from + k, work.old.bytesSize - k)
    BY <1>5 DEF Stored, First
  <2>5. Stored(t) = Slice(file, at, k) \o Slice(file, from + k, Len(list) - k)
    BY <2>2, <2>4
  <2> HIDE DEF at, file, list, pos, k, from
  <2>6. Slice(file, at, k) \o Slice(file, from + k, Len(list) - k) = list
    BY <1>1, <2>2, <2>3, HeldWhole
  <2> QED
    BY <2>5, <2>6 DEF list
<1> QED
  BY <1>3, <1>4, <1>5

\* Between the tokens of a batch every block is of the mask its size asks for.
\* (createIndex, cpp:19-50, and getMask, cpp:116-121.)
THEOREM BlocksStayFit ==
  ASSUME BatchesSmall
  PROVE  Spec /\ []FileSmall => []BlocksFit
<1>1. IInv /\ CInv => BlocksFit
  <2> SUFFICES ASSUME IInv, CInv, work.token = NoToken, NEW t \in DOMAIN indexMap
               PROVE  LET pos == indexMap[t]
                      IN  IF pos.bytesSize = 0 THEN pos = NoPos
                          ELSE pos.blockMask = GetMask(pos.bytesSize)
    BY DEF BlocksFit
  <2>1. proc # "down"
    BY DEF CInv, DownClean, Empty
  <2>2. t \in Tokens \ {work.token} /\ Map = indexMap
    BY <2>1, Owned, Types
  <2>3. Fits(indexMap[t], expected[t]) /\ expected[t] \in Seq(Row)
    BY <2>2, Types DEF CInv, MapSized, Sized
  <2>4. expected[t] = << >> <=> Len(expected[t]) = 0
    BY <2>3, EmptySeq
  <2> QED
    BY <2>3, <2>4 DEF Fits
<1> QED
  BY <1>1, Contents, PTL

\* For a token that is not damaged the file keeps exactly what was indexed for it, in
\* order, at every point: while it is copied to a block that overlaps the one it leaves,
\* and after a process that ended without closing.  A lookup returns that too, unless the
\* stream has failed, and it fails over a damaged token only.  (createIndex, copyBytes and
\* getRawIndex, cpp:19-100.)
THEOREM DamageStaysConfined ==
  ASSUME BatchesSmall
  PROVE  Spec /\ []FileSmall => []DamageConfined
<1>1. IInv /\ CInv => DamageConfined
  <2> SUFFICES ASSUME IInv, CInv, NEW t \in Tokens \ lost
               PROVE  /\ Stored(t) = expected[t]
                      /\ View(t) = expected[t] \/ (failed /\ lost # {})
    BY DEF DamageConfined
  <2>1. Stored(t) = expected[t]
    BY StoredIsExpected
  <2>2. CASE failed
    BY <2>1, <2>2 DEF CInv, FailsOverLost
  <2>3. CASE ~failed
    BY <2>1, <2>3 DEF View
  <2> QED
    BY <2>1, <2>2, <2>3
<1> QED
  BY <1>1, Contents, PTL

\* Before a process has ended without closing nothing is lost, and no read runs past
\* the file.  (createIndex and copyBytes, cpp:19-82; getRawIndex, cpp:84-100.)
THEOREM NothingLost ==
  ASSUME BatchesSmall
  PROVE  Spec /\ []FileSmall => []NothingLostInOneProcess
<1>1. IInv /\ CInv => NothingLostInOneProcess
  BY DEF IInv, TypeOK, CInv, FailsOverLost, NothingLostInOneProcess
<1> QED
  BY <1>1, Contents, PTL

-----------------------------------------------------------------------------
\* What the promise calls postings: for a token that is not lost, what was indexed.
Postings == Undamaged([t \in Tokens |-> Stored(t)])
PostingsExpected == Postings = Undamaged(expected)

\* What it calls answers: the postings, or what a failed stream makes of them.
Answers == Undamaged([t \in Tokens |-> View(t)])
Garbled == [t \in Tokens |-> IF Postings[t] = << >> THEN << >> ELSE NoToken]
AnswersFollow == Answers = IF failed THEN Garbled ELSE Postings

AtRisk == (Released \cup SavedIn(DOMAIN tail)) \ lost

\* Cells that lie in the block of a token; the buffer holds cells of one block only.
InBlock(cells, pos) ==
  \A a \in cells : \E i \in Nat : i < Capacity(pos) /\ a = First(pos) + i
TailOne ==
  /\ proc # "open" => work.token = NoToken /\ DOMAIN tail = {}
  /\ work.token = NoToken =>
       DOMAIN tail = {} \/ \E t \in DOMAIN indexMap : InBlock(DOMAIN tail, indexMap[t])

LEMMA PostingsAreExpected == IInv /\ CInv => PostingsExpected
BY StoredIsExpected DEF PostingsExpected, Postings, Undamaged

LEMMA PostingsStayExpected == IInv' /\ CInv' => PostingsExpected'
BY PostingsAreExpected, PTL

LEMMA NotAList == NoToken # << >>
<1>1. << >> \in Seq(Row)
  OBVIOUS
<1> QED
  BY <1>1, NoTokenAssumption

LEMMA AnswersAreGiven == AnswersFollow
<1>1. \A t \in Tokens : Postings[t] = IF t \in lost THEN NoToken ELSE Stored(t)
  BY DEF Postings, Undamaged
<1>2. NoToken # << >>
  BY NotAList
<1>3. CASE failed
  BY <1>1, <1>2, <1>3 DEF AnswersFollow, Answers, Garbled, Undamaged, View
<1>4. CASE ~failed
  BY <1>4 DEF AnswersFollow, Answers, Postings, Undamaged, View
<1> QED
  BY <1>3, <1>4

LEMMA AnswersStayGiven == AnswersFollow'
BY AnswersAreGiven, PTL

LEMMA SameAnswers ==
  ASSUME Postings' = Postings, failed' = failed
  PROVE  Answers' = Answers
BY AnswersAreGiven, AnswersStayGiven DEF AnswersFollow, Garbled

\* A token whose saved block has not been given up has its block where it was.
LEMMA NotReleased ==
  ASSUME IInv, CInv, proc # "down", NEW t \in DOMAIN SavedMap, SavedMap[t].bytesSize > 0,
         t \notin Released
  PROVE  /\ t \in DOMAIN indexMap
         /\ indexMap[t].blockStart = SavedMap[t].blockStart
         /\ indexMap[t].blockMask = SavedMap[t].blockMask
<1>1. Map = indexMap
  BY Types
<1>2. indexMap[t].blockMask = SavedMap[t].blockMask
  BY <1>1 DEF Released
<1>3. t \in DOMAIN indexMap /\ Grew(SavedMap[t], indexMap[t])
  BY <1>1 DEF CInv, SavedBehind
<1> QED
  BY <1>2, <1>3 DEF Grew

\* Rows put into the block of one token can cover saved rows of others only where these
\* have given their saved block up.
LEMMA PutAtRisk ==
  ASSUME IInv, CInv, FileSmall, proc # "down", NEW t \in DOMAIN indexMap,
         NEW cells, InBlock(cells, indexMap[t])
  PROVE  SavedIn(cells) \subseteq Released \cup {t}
<1> SUFFICES ASSUME NEW u \in SavedIn(cells), u # t, u \notin Released PROVE FALSE
  OBVIOUS
<1> DEFINE at == First(SavedMap[u])
           size == SavedMap[u].bytesSize
<1>1. u \in DOMAIN SavedMap /\ cells \cap (at .. at + size - 1) # {}
  BY DEF SavedIn, First
<1>2. /\ IsOwned(SavedMap[u], meta.currentBlockPos) /\ meta.currentBlockPos \in Nat
      /\ meta # NoMeta /\ u \in Tokens
  BY <1>1, Owned
<1>3. Small(meta.currentBlockPos)
  BY <1>2 DEF CInv, SavedSmall
<1>4. Fits(SavedMap[u], savedExpected[u])
  BY <1>1, <1>2 DEF CInv, SavedSized, Sized
<1>5. /\ at \in Nat /\ size \in Nat /\ size <= Capacity(SavedMap[u])
      /\ at = FirstRow(SavedMap[u])
  <2>1. Len(savedExpected[u]) <= Capacity(SavedMap[u])
    BY <1>2, <1>3, <1>4, FitsCapacity
  <2>2. First(SavedMap[u]) = FirstRow(SavedMap[u]) /\ FirstRow(SavedMap[u]) \in Nat
    BY <1>2, <1>3, BlockRows DEF IsOwned
  <2>3. size \in Nat
    BY <1>2 DEF IsOwned
  <2> QED
    BY <1>4, <2>1, <2>2, <2>3 DEF Fits
<1> HIDE DEF at, size
<1>6. PICK a \in cells : a \in at .. at + size - 1
  BY <1>1
<1>7. size > 0 /\ a - at \in Nat /\ a - at < size /\ a = at + (a - at)
  BY <1>5, <1>6
<1>8. /\ u \in DOMAIN indexMap /\ indexMap[u].blockStart = SavedMap[u].blockStart
      /\ indexMap[u].blockMask = SavedMap[u].blockMask
  BY <1>1, <1>7, NotReleased DEF size
<1>9. FirstRow(indexMap[u]) = at /\ Capacity(indexMap[u]) = Capacity(SavedMap[u])
  BY <1>5, <1>8 DEF FirstRow, Capacity
<1>10. Apart(indexMap[u], indexMap[t])
  <2>1. /\ IsIndexMap(indexMap) /\ currentBlockPos \in Nat
        /\ Partitioned(indexMap, freeBlockPoses, currentBlockPos)
    BY DEF IInv, TypeOK, BlocksPartitioned
  <2> QED
    BY <1>8, <2>1, OwnersApart
<1>11. /\ First(indexMap[t]) = FirstRow(indexMap[t])
       /\ Capacity(indexMap[u]) \in Nat
  <2>1. IsBlock(indexMap[t]) /\ Below(indexMap[t], currentBlockPos) /\ currentBlockPos \in Nat
    BY Owned DEF IsOwned
  <2>2. IsBlock(indexMap[u])
    BY <1>8, Owned DEF IsOwned
  <2> QED
    BY <2>1, <2>2, BlockRows, Rows DEF FileSmall, Capacity, IsBlock
<1>12. PICK j \in Nat : j < Capacity(indexMap[t]) /\ a = FirstRow(indexMap[t]) + j
  BY <1>6, <1>11 DEF InBlock
<1>13. a - at < Capacity(indexMap[u])
  BY <1>5, <1>7, <1>9, <1>11
<1>14. FirstRow(indexMap[u]) + (a - at) # FirstRow(indexMap[t]) + j
  BY <1>7, <1>10, <1>12, <1>13 DEF Apart
<1> QED
  BY <1>7, <1>9, <1>12, <1>14

-----------------------------------------------------------------------------
\* The buffer holds rows of one block only: those of the token indexed last.
LEMMA InitTailOne == Init => TailOne
BY DEF Init, TailOne, Empty, Idle

LEMMA NextTailOne ==
  ASSUME IInv, CInv, FileSmall, TailOne, [Next]_vars
  PROVE  TailOne'
<1>1. CASE Construct
  <2>1. proc # "open" /\ proc' = "open" /\ tail' = tail
    BY <1>1 DEF Construct, files
  <2> QED
    BY <2>1 DEF TailOne
<1>2. ASSUME NEW batch \in Batches, CreateIndex(batch) PROVE TailOne'
  BY <1>2 DEF CreateIndex, statics, files, TailOne, Idle
<1>3. ASSUME NEW t \in Tokens, KeepBlock(t) \/ MoveBlock(t) \/ NewBlock(t) PROVE TailOne'
  <2>1. proc = "open" /\ proc' = proc /\ work'.token = t
    BY <1>3, WorkFacts DEF KeepBlock, MoveBlock, NewBlock, NextOfBatch, IInv, TypeOK, WorkType
  <2> QED
    BY <1>3, <2>1, Types DEF TailOne
<1>4. CASE CopyChunk
  <2>1. work.token # NoToken /\ proc' = proc /\ work'.token = work.token
    BY <1>4 DEF CopyChunk, IInv, TypeOK, WorkType
  <2>2. proc = "open"
    BY <2>1 DEF TailOne
  <2> QED
    BY <2>1, <2>2 DEF TailOne
<1>5. CASE AppendRows
  <2> DEFINE t   == work.token
             new == indexMap[t]
  <2>1. /\ t # NoToken /\ work'.token = NoToken /\ proc' = proc /\ DOMAIN indexMap' = DOMAIN indexMap
        /\ indexMap'[t].blockMask = new.blockMask /\ indexMap'[t].blockStart = new.blockStart
    BY <1>5, AppendFacts
  <2>2. proc = "open" /\ t \in DOMAIN indexMap
    BY <2>1, WorkFacts DEF TailOne
  <2>3. \A a \in DOMAIN tail' : \E i \in Nat : i < Capacity(new) /\ a = First(new) + i
    BY <1>5, AppendReads
  <2>4. Capacity(indexMap'[t]) = Capacity(new) /\ First(indexMap'[t]) = First(new)
    BY <2>1 DEF Capacity, First
  <2>5. InBlock(DOMAIN tail', indexMap'[t])
    BY <2>3, <2>4 DEF InBlock
  <2> HIDE DEF t
  <2> QED
    BY <2>1, <2>2, <2>5 DEF TailOne
<1>6. ASSUME NEW t \in Tokens, GetRawIndex(t) PROVE TailOne'
  BY <1>6 DEF GetRawIndex, TailOne, Empty
<1>7. CASE SaveStorageMeta
  BY <1>7 DEF SaveStorageMeta, statics, TailOne
<1>8. CASE Close
  BY <1>8 DEF Close, TailOne, Empty, Idle
<1>9. CASE ProcessEnds
  BY <1>9 DEF ProcessEnds, TailOne, Empty, Idle
<1>10. CASE UNCHANGED vars
  BY <1>10 DEF vars, statics, files, TailOne
<1> QED
  BY <1>1, <1>2, <1>3, <1>4, <1>5, <1>6, <1>7, <1>8, <1>9, <1>10 DEF Next, CreateIndexStep

-----------------------------------------------------------------------------
LEMMA PromiseInit == Init => Promise!Init
<1> SUFFICES ASSUME Init PROVE Promise!Init
  OBVIOUS
<1>1. Postings = [t \in Tokens |-> << >>]
  <2>1. Postings = Undamaged(expected)
    BY InitIInv, InitCInv, PostingsAreExpected DEF PostingsExpected
  <2> QED
    BY <2>1 DEF Init, Undamaged
<1>2. Undamaged(savedExpected) = [t \in Tokens |-> << >>]
  BY DEF Init, Undamaged
<1>3. AtRisk = {}
  BY DEF Init, AtRisk, Released, SavedIn, SavedMap, Empty
<1>4. Answers = Postings
  BY AnswersAreGiven DEF AnswersFollow, Init
<1> QED
  BY <1>1, <1>2, <1>3, <1>4 DEF Promise!Init, Postings, Answers, AtRisk

\* Lists and risks that stay as they are: no step of the promise.
LEMMA Stutters ==
  ASSUME IInv, CInv, IInv', CInv', AtRisk' = AtRisk, failed' = failed,
         expected' = expected, savedExpected' = savedExpected, lost' = lost
  PROVE  UNCHANGED Promise!vars
<1>1. Postings' = Postings
  BY PostingsAreExpected, PostingsStayExpected DEF PostingsExpected, Undamaged
<1>2. Undamaged(savedExpected)' = Undamaged(savedExpected)
  BY DEF Undamaged
<1>3. Answers' = Answers
  BY <1>1, SameAnswers
<1> QED
  BY <1>1, <1>2, <1>3 DEF Promise!vars, Postings, Answers, AtRisk

\* Lists that stay as they are, and at most one token more at risk.
LEMMA Rearranges ==
  ASSUME IInv, CInv, IInv', CInv', NEW t \in Tokens, AtRisk' \subseteq AtRisk \cup {t},
         failed' = failed, savedExpected' = savedExpected, lost' = lost,
         \A u \in Tokens \ lost : expected'[u] = expected[u]
  PROVE  Promise!Rearrange
<1>1. Postings' = Postings
  BY PostingsAreExpected, PostingsStayExpected DEF PostingsExpected, Undamaged
<1>2. Undamaged(savedExpected)' = Undamaged(savedExpected)
  BY DEF Undamaged
<1>3. Answers' = Answers
  BY <1>1, SameAnswers
<1> QED
  BY <1>1, <1>2, <1>3 DEF Promise!Rearrange, Postings, Answers, AtRisk

\* The stream fails over a token that is lost.
LEMMA Fails ==
  ASSUME IInv, CInv, IInv', CInv', NEW t \in Tokens, AtRisk' \subseteq AtRisk \cup {t},
         t \in lost, failed', savedExpected' = savedExpected, lost' = lost,
         \A u \in Tokens \ lost : expected'[u] = expected[u]
  PROVE  Promise!Fail(t)
<1>1. Postings' = Postings /\ Postings[t] = NoToken
  BY PostingsAreExpected, PostingsStayExpected DEF PostingsExpected, Undamaged
<1>2. Undamaged(savedExpected)' = Undamaged(savedExpected)
  BY DEF Undamaged
<1>3. Answers' = [u \in Tokens |-> IF Postings[u] = << >> THEN << >> ELSE NoToken]
  BY <1>1, AnswersStayGiven DEF AnswersFollow, Garbled
<1> QED
  BY <1>1, <1>2, <1>3 DEF Promise!Fail, Postings, Answers, AtRisk

\* The stream is opened afresh.
LEMMA Opens ==
  ASSUME IInv, CInv, IInv', CInv', AtRisk' \subseteq AtRisk, ~failed',
         expected' = expected, savedExpected' = savedExpected, lost' = lost
  PROVE  Promise!Close
<1>1. Postings' = Postings
  BY PostingsAreExpected, PostingsStayExpected DEF PostingsExpected, Undamaged
<1>2. Undamaged(savedExpected)' = Undamaged(savedExpected)
  BY DEF Undamaged
<1>3. Answers' = Postings
  BY <1>1, AnswersStayGiven DEF AnswersFollow
<1> QED
  BY <1>1, <1>2, <1>3 DEF Promise!Close, Postings, Answers, AtRisk

\* A token is damaged through a stream that has failed over another.
LEMMA Spoils ==
  ASSUME IInv, CInv, IInv', CInv', NEW t \in Tokens, AtRisk' \subseteq AtRisk \cup {t},
         savedExpected' = savedExpected, failed, failed', lost' = lost \cup {t},
         \A u \in Tokens \ {t} : expected'[u] = expected[u]
  PROVE  Promise!Spoil(t)
<1>1. /\ Postings = Undamaged(expected) /\ Postings' = Undamaged(expected)'
  BY PostingsAreExpected, PostingsStayExpected DEF PostingsExpected
<1>2. Postings' = [Postings EXCEPT ![t] = NoToken]
  <2>1. Undamaged(expected)' = [u \in Tokens |-> IF u \in lost' THEN NoToken ELSE expected'[u]]
    BY DEF Undamaged
  <2> QED
    BY <1>1, <2>1 DEF Undamaged
<1>3. Undamaged(savedExpected)' = [Undamaged(savedExpected) EXCEPT ![t] = NoToken]
  BY DEF Undamaged
<1>4. PICK u \in lost : u \in Tokens
  BY DEF CInv, FailsOverLost, IInv, TypeOK
<1>5. Postings[u] = NoToken
  BY <1>1, <1>4 DEF Undamaged
<1>6. Answers' = [Answers EXCEPT ![t] = NoToken]
  <2>1. Postings = [v \in Tokens |-> Postings[v]]
    BY DEF Postings, Undamaged
  <2>2. /\ Answers = [v \in Tokens |-> IF Postings[v] = << >> THEN << >> ELSE NoToken]
        /\ Answers' = [v \in Tokens |-> IF Postings'[v] = << >> THEN << >> ELSE NoToken]
    BY AnswersAreGiven, AnswersStayGiven DEF AnswersFollow, Garbled
  <2>3. NoToken # << >>
    BY NotAList
  <2> QED
    BY <1>2, <2>1, <2>2, <2>3
<1> QED
  BY <1>2, <1>3, <1>4, <1>5, <1>6 DEF Promise!Spoil, Postings, Answers, AtRisk

\* The tokens at risk for having given their saved block up are as before.
LEMMA SameReleased ==
  ASSUME IInv, CInv, proc # "down", proc' # "down", meta' = meta, NEW T,
         \A u \in DOMAIN indexMap \ T : /\ u \in DOMAIN indexMap'
                                       /\ indexMap'[u].blockMask = indexMap[u].blockMask
  PROVE  Released' \subseteq Released \cup T
<1>1. Map = indexMap /\ Map' = indexMap' /\ SavedMap' = SavedMap
  BY Types DEF Map, SavedMap
<1>2. \A u \in DOMAIN SavedMap : SavedMap[u].bytesSize > 0 => u \in DOMAIN indexMap
  BY <1>1 DEF CInv, SavedBehind
<1>3. Released' = {u \in DOMAIN SavedMap : /\ SavedMap[u].bytesSize > 0
                                           /\ indexMap'[u].blockMask # SavedMap[u].blockMask}
  BY <1>1 DEF Released
<1>4. Released = {u \in DOMAIN SavedMap : /\ SavedMap[u].bytesSize > 0
                                          /\ indexMap[u].blockMask # SavedMap[u].blockMask}
  BY <1>1 DEF Released
<1> QED
  BY <1>2, <1>3, <1>4

LEMMA RiskIn ==
  ASSUME meta' = meta, NEW cells, DOMAIN tail' = cells
  PROVE  AtRisk' = (Released' \cup SavedIn(cells)) \ lost'
<1>1. SavedMap' = SavedMap
  BY DEF SavedMap
<1>2. SavedIn(DOMAIN tail)' = SavedIn(cells)
  BY <1>1 DEF SavedIn
<1> QED
  BY <1>2 DEF AtRisk

-----------------------------------------------------------------------------
\* The steps of the storage, as steps of the promise.
LEMMA ConstructPromise ==
  ASSUME IInv, CInv, IInv', CInv', TailOne, Construct
  PROVE  Promise!Close
<1>1. /\ proc \in {"down", "closed"} /\ proc' = "open" /\ ~failed' /\ tail' = tail /\ meta' = meta
      /\ expected' = expected /\ savedExpected' = savedExpected /\ lost' = lost
  BY DEF Construct, files, observer
<1>2. Map' = Map
  <2>1. Map' = indexMap'
    BY <1>1 DEF Map
  <2>2. CASE proc = "down" /\ meta # NoMeta
    BY <2>1, <2>2 DEF Construct, Map
  <2>3. CASE proc = "down" /\ meta = NoMeta
    BY <2>1, <2>3 DEF Construct, statics, Map, SavedMap, CInv, DownClean
  <2>4. CASE proc = "closed"
    BY <2>1, <2>4 DEF Construct, statics, Map
  <2> QED
    BY <1>1, <2>2, <2>3, <2>4
<1>3. SavedMap' = SavedMap
  BY <1>1 DEF SavedMap
<1>4. AtRisk' = AtRisk
  BY <1>1, <1>2, <1>3 DEF AtRisk, Released, SavedIn
<1> QED
  BY <1>1, <1>4, Opens

LEMMA NewBlockPromise ==
  ASSUME IInv, CInv, IInv', CInv', NEW t \in Tokens, NewBlock(t)
  PROVE  UNCHANGED Promise!vars
<1>1. /\ proc = "open" /\ proc' = proc /\ failed' = failed /\ tail' = tail /\ meta' = meta
      /\ expected' = expected /\ savedExpected' = savedExpected /\ lost' = lost
      /\ \A u \in DOMAIN indexMap : u \in DOMAIN indexMap' /\ indexMap'[u] = indexMap[u]
  BY DEF NewBlock, NextOfBatch, SetPos, files, observer
<1>2. Map = indexMap /\ Map' = indexMap' /\ SavedMap' = SavedMap
  BY <1>1 DEF Map, SavedMap
<1>3. \A u \in DOMAIN SavedMap : SavedMap[u].bytesSize > 0 => u \in DOMAIN indexMap
  BY <1>2 DEF CInv, SavedBehind
<1>4. Released' = Released
  BY <1>1, <1>2, <1>3 DEF Released
<1>5. AtRisk' = AtRisk
  BY <1>1, <1>2, <1>4 DEF AtRisk, SavedIn
<1> QED
  BY <1>1, <1>5, Stutters

LEMMA MoveBlockPromise ==
  ASSUME IInv, CInv, IInv', CInv', NEW t \in Tokens, MoveBlock(t)
  PROVE  Promise!Rearrange
<1>1. /\ proc = "open" /\ proc' = proc /\ failed' = failed /\ tail' = tail /\ meta' = meta
      /\ expected' = expected /\ savedExpected' = savedExpected /\ lost' = lost
      /\ \A u \in DOMAIN indexMap \ {t} : u \in DOMAIN indexMap' /\ indexMap'[u] = indexMap[u]
  BY DEF MoveBlock, NextOfBatch, SetPos, files, observer
<1>2. Released' \subseteq Released \cup {t}
  BY <1>1, SameReleased
<1>3. AtRisk' = (Released' \cup SavedIn(DOMAIN tail)) \ lost'
  BY <1>1, RiskIn
<1> QED
  BY <1>1, <1>2, <1>3, Rearranges DEF AtRisk

\* What is put into the block of the token in hand puts at most that token at risk.
LEMMA PutRisks ==
  ASSUME IInv, CInv, FileSmall, proc # "down", work.token \in DOMAIN indexMap, meta' = meta,
         InBlock(DOMAIN tail', indexMap[work.token]),
         Released' \subseteq Released, lost \subseteq lost'
  PROVE  AtRisk' \subseteq AtRisk \cup {work.token}
<1> DEFINE t     == work.token
           cells == DOMAIN tail'
<1>1. SavedIn(cells) \subseteq Released \cup {t}
  <2> HIDE DEF t, cells
  <2>1. t \in DOMAIN indexMap /\ InBlock(cells, indexMap[t])
    BY DEF t, cells
  <2> QED
    BY <2>1, PutAtRisk
<1>2. AtRisk' = (Released' \cup SavedIn(cells)) \ lost'
  BY RiskIn
<1> QED
  BY <1>1, <1>2 DEF AtRisk

LEMMA CopyChunkPromise ==
  ASSUME IInv, CInv, FileSmall, IInv', CInv', CopyChunk
  PROVE  Promise!Next
<1> DEFINE t   == work.token
           new == indexMap[t]
           ok  == ~failed /\ Readable(Written, First(work.old) + work.copied, ChunkRows)
           put == Place(Slice(Written, First(work.old) + work.copied, ChunkRows),
                        First(new) + work.copied)
<1>1. /\ t # NoToken /\ work.copied < work.old.bytesSize
      /\ proc' = proc /\ meta' = meta /\ expected' = expected /\ savedExpected' = savedExpected
      /\ ok => tail' = put /\ lost' = lost /\ ~failed /\ ~failed'
      /\ ~ok => tail' = Empty /\ lost' = lost \cup {t} /\ failed'
  BY DEF CopyChunk, First
<1>2. \A u \in DOMAIN indexMap : u \in DOMAIN indexMap' /\ indexMap'[u].blockMask = indexMap[u].blockMask
  <2>1. \A u \in DOMAIN indexMap :
          indexMap[u] = [blockMask |-> indexMap[u].blockMask, blockStart |-> indexMap[u].blockStart,
                         bytesSize |-> indexMap[u].bytesSize]
    BY WorkFacts DEF IndexPos
  <2> QED
    BY <2>1 DEF CopyChunk
<1>3. proc # "down" /\ t \in Tokens /\ t \in DOMAIN indexMap
  BY <1>1, HandFacts
<1>4. /\ \A a \in DOMAIN put : \E i \in Nat : i < Capacity(new) /\ a = First(new) + i
      /\ t \notin lost => Readable(Written, First(work.old) + work.copied, ChunkRows)
  BY <1>1, ChunkReads
<1>5. InBlock(DOMAIN tail', new)
  BY <1>1, <1>4 DEF InBlock, Empty
<1>6. Released' \subseteq Released
  <2>1. Released' \subseteq Released \cup {}
    BY <1>1, <1>2, <1>3, SameReleased
  <2> QED
    BY <2>1
<1>7. AtRisk' \subseteq AtRisk \cup {t}
  BY <1>1, <1>3, <1>5, <1>6, PutRisks
<1>8. CASE lost' = lost /\ failed' = failed
  <2>1. Promise!Rearrange
    BY <1>1, <1>3, <1>7, <1>8, Rearranges
  <2> QED
    BY <2>1 DEF Promise!Next
<1>10. CASE lost' = lost /\ failed' # failed
  <2>1. ~ok /\ t \in lost /\ failed'
    BY <1>1, <1>10 DEF IInv, TypeOK
  <2> HIDE DEF t, ok
  <2>2. Promise!Fail(t)
    BY <1>1, <1>3, <1>7, <1>10, <2>1, Fails
  <2> QED
    BY <1>3, <2>2 DEF Promise!Next
<1>9. CASE lost' # lost
  <2>1. ~ok /\ t \notin lost /\ lost' = lost \cup {t} /\ failed'
    BY <1>1, <1>9
  <2>2. failed
    BY <1>4, <2>1
  <2> HIDE DEF t, ok
  <2>3. Promise!Spoil(t)
    BY <1>1, <1>3, <1>7, <2>1, <2>2, Spoils
  <2> QED
    BY <1>3, <2>3 DEF Promise!Next
<1> QED
  BY <1>8, <1>9, <1>10

LEMMA AppendRowsPromise ==
  ASSUME IInv, CInv, FileSmall, IInv', CInv', AppendRows
  PROVE  Promise!Next
<1> DEFINE t    == work.token
           new  == indexMap[t]
           old  == expected[t]
           rows == [i \in 1 .. work.batch[t] |-> <<t, Len(old) + i, ends>>]
           list == old \o rows
<1>1. /\ t # NoToken /\ proc' = proc /\ meta' = meta /\ savedExpected' = savedExpected
      /\ DOMAIN indexMap' = DOMAIN indexMap
      /\ \A u \in DOMAIN indexMap : u # t => indexMap'[u] = indexMap[u]
      /\ indexMap'[t].blockMask = new.blockMask
      /\ failed => lost' = lost \cup {t}
      /\ ~failed => lost' = lost
      /\ \A u \in Tokens : u # t => expected'[u] = expected[u]
      /\ failed' = failed
  BY AppendFacts DEF AppendRows
<1>2. /\ proc # "down" /\ t \in Tokens /\ t \in DOMAIN indexMap
      /\ Len(old) \in Nat /\ work.batch[t] \in Nat \ {0}
  BY <1>1, HandFacts
<1>3. InBlock(DOMAIN tail', new)
  BY AppendReads DEF InBlock
<1>4. \A u \in DOMAIN indexMap : u \in DOMAIN indexMap' /\ indexMap'[u].blockMask = indexMap[u].blockMask
  BY <1>1
<1>5. Released' \subseteq Released
  <2>1. Released' \subseteq Released \cup {}
    BY <1>1, <1>2, <1>4, SameReleased
  <2> QED
    BY <2>1
<1>6. AtRisk' \subseteq AtRisk \cup {t}
  BY <1>1, <1>2, <1>3, <1>5, PutRisks
<1>7. CASE t \in lost
  <2>1. lost' = lost /\ \A u \in Tokens \ lost : expected'[u] = expected[u]
    BY <1>1, <1>7
  <2>2. Promise!Rearrange
    BY <1>1, <1>2, <1>6, <2>1, Rearranges
  <2> QED
    BY <2>2 DEF Promise!Next
<1>8. CASE t \notin lost /\ failed
  <2>1. Promise!Spoil(t)
    BY <1>1, <1>2, <1>6, <1>8, Spoils
  <2> QED
    BY <1>2, <2>1 DEF Promise!Next
<1>9. CASE t \notin lost /\ ~failed
  <2>1. lost' = lost
    BY <1>1, <1>9
  <2>2. expected' = [expected EXCEPT ![t] = list] /\ expected \in [Tokens -> Seq(Row)]
    BY DEF AppendRows, IInv, TypeOK
  <2>3. /\ old \in Seq(Row) /\ work.batch[t] \in 1 .. MaxIncoming
        /\ expected'[t] = list /\ list \in Seq(Row)
    <3>1. expected'[t] = list
      BY <1>2, <2>2
    <3>2. expected'[t] \in Seq(Row)
      BY <1>2 DEF IInv, TypeOK
    <3> QED
      BY <1>1, <1>2, <2>2, <3>1, <3>2, WorkFacts
  <2>4. /\ Len(list) = Len(old) + work.batch[t]
        /\ \A i \in 1 .. Len(old) : list[i] = old[i]
    BY <1>2, <2>3, AppendFacts
  <2>5. SubSeq(list, 1, Len(old)) = old
    <3> HIDE DEF list, old, t
    <3>1. Len(old) \in Nat /\ work.batch[t] \in Nat /\ Len(old) <= Len(list)
      BY <1>2, <2>4
    <3>2. SubSeq(list, 1, Len(old)) \in Seq(Row) /\ Len(SubSeq(list, 1, Len(old))) = Len(old)
      BY <2>3, <3>1
    <3>3. \A i \in 1 .. Len(old) : SubSeq(list, 1, Len(old))[i] = old[i]
      BY <2>3, <2>4, <3>1
    <3> QED
      BY <2>3, <3>2, <3>3, SeqEqual
  <2>6. Postings = Undamaged(expected) /\ Postings' = Undamaged(expected)'
    BY PostingsAreExpected, PostingsStayExpected DEF PostingsExpected
  <2>7. Postings[t] = old /\ Postings[t] # NoToken
    BY <1>2, <1>9, <2>3, <2>6, NoTokenAssumption DEF Undamaged
  <2>8. Postings' = [Postings EXCEPT ![t] = list] /\ Postings'[t] = list
    <3>1. Undamaged(expected)' = [u \in Tokens |-> IF u \in lost THEN NoToken ELSE expected'[u]]
      BY <2>1 DEF Undamaged
    <3> HIDE DEF list, t
    <3> QED
      BY <1>2, <1>9, <2>2, <2>6, <3>1 DEF Undamaged
  <2>9. Undamaged(savedExpected)' = Undamaged(savedExpected)
    BY <1>1, <2>1 DEF Undamaged
  <2>13. Answers = Postings /\ Answers' = Postings'
    BY <1>1, <1>9, AnswersAreGiven, AnswersStayGiven DEF AnswersFollow
  <2> HIDE DEF list, old, t
  <2>10. Len(list) - Len(Postings[t]) \in 1 .. MaxIncoming
    BY <1>2, <2>3, <2>4, <2>7, StorageAssumption
  <2>11. SubSeq(list, 1, Len(Postings[t])) = Postings[t]
    BY <2>5, <2>7
  <2>12. Promise!Index(t)
    BY <1>6, <2>3, <2>7, <2>8, <2>9, <2>10, <2>11, <2>13 DEF Promise!Index, Postings, Answers, AtRisk
  <2> QED
    BY <1>2, <2>12 DEF Promise!Next
<1> QED
  BY <1>7, <1>8, <1>9

LEMMA GetRawIndexPromise ==
  ASSUME IInv, CInv, FileSmall, IInv', CInv', NEW t \in Tokens, GetRawIndex(t)
  PROVE  Promise!Next
<1>1. /\ proc = "open" /\ proc' = proc /\ meta' = meta /\ DOMAIN tail' = {}
      /\ expected' = expected /\ savedExpected' = savedExpected /\ lost' = lost
      /\ \A u \in DOMAIN indexMap : u \in DOMAIN indexMap' /\ indexMap'[u] = indexMap[u]
  BY DEF GetRawIndex, SetPos, observer, Empty
<1>2. Released' \subseteq Released \cup {}
  BY <1>1, SameReleased
<1>3. AtRisk' = (Released' \cup SavedIn({})) \ lost'
  BY <1>1, RiskIn
<1>4. SavedIn({}) = {}
  BY DEF SavedIn
<1>5. AtRisk' \subseteq AtRisk \cup {t}
  BY <1>1, <1>2, <1>3, <1>4 DEF AtRisk
<1>6. CASE failed' = failed
  <2>1. Promise!Rearrange
    BY <1>1, <1>5, <1>6, Rearranges
  <2> QED
    BY <2>1 DEF Promise!Next
<1>7. CASE failed' # failed
  <2>1. failed' /\ t \in lost
    BY <1>7, LookupReads DEF GetRawIndex, First, IInv, TypeOK
  <2>2. Promise!Fail(t)
    BY <1>1, <1>5, <2>1, Fails
  <2> QED
    BY <2>2 DEF Promise!Next
<1> QED
  BY <1>6, <1>7

LEMMA ClosePromise ==
  ASSUME IInv, CInv, IInv', CInv', Close
  PROVE  Promise!Close
<1>1. /\ proc = "open" /\ proc' = "closed" /\ ~failed' /\ meta' = meta /\ DOMAIN tail' = {}
      /\ expected' = expected /\ savedExpected' = savedExpected /\ lost' = lost
      /\ indexMap' = indexMap
  BY DEF Close, statics, observer, Empty
<1>2. Released' \subseteq Released \cup {}
  BY <1>1, SameReleased
<1>3. AtRisk' = (Released' \cup SavedIn({})) \ lost'
  BY <1>1, RiskIn
<1>4. SavedIn({}) = {}
  BY DEF SavedIn
<1>5. AtRisk' \subseteq AtRisk
  BY <1>1, <1>2, <1>3, <1>4 DEF AtRisk
<1> QED
  BY <1>1, <1>5, Opens

LEMMA SaveStorageMetaPromise ==
  ASSUME IInv, CInv, FileSmall, TailOne, IInv', CInv', SaveStorageMeta
  PROVE  [Promise!Next]_Promise!vars
<1>1. /\ proc # "down" /\ proc' = proc /\ failed' = failed /\ tail' = tail /\ work = Idle /\ indexMap' = indexMap
      /\ expected' = expected /\ savedExpected' = expected /\ lost' = lost
  BY DEF SaveStorageMeta, statics
<1>2. Map' = indexMap /\ SavedMap' = indexMap
  <2>1. /\ meta' = [indexMap |-> indexMap, freeBlockPoses |-> freeBlockPoses,
                    currentBlockPos |-> currentBlockPos]
    BY DEF SaveStorageMeta
  <2>2. meta'.indexMap = indexMap
    BY <2>1
  <2>3. meta' = NoMeta => indexMap = Empty
    BY <2>2 DEF NoMeta
  <2> QED
    BY <1>1, <2>2, <2>3 DEF Map, SavedMap
<1>3. Released' = {}
  BY <1>2 DEF Released
<1>4. Postings' = Postings
  BY <1>1, PostingsAreExpected, PostingsStayExpected DEF PostingsExpected, Undamaged
<1>5. Undamaged(savedExpected)' = Postings'
  BY <1>1, PostingsStayExpected DEF PostingsExpected, Undamaged
<1>10. Answers' = Answers
  BY <1>1, <1>4, SameAnswers
<1>6. AtRisk' = SavedIn(DOMAIN tail)' \ lost
  BY <1>1, <1>3 DEF AtRisk
<1>7. SavedIn(DOMAIN tail)' = {u \in DOMAIN indexMap :
                                 DOMAIN tail \cap (First(indexMap[u]) .. First(indexMap[u])
                                                     + indexMap[u].bytesSize - 1) # {}}
  BY <1>1, <1>2 DEF SavedIn, First
<1>8. CASE DOMAIN tail = {}
  <2>1. AtRisk' = {}
    BY <1>6, <1>7, <1>8
  <2>2. CASE Tokens = {}
    <3>1. AtRisk = {}
      BY <2>2, Owned DEF AtRisk, Released, SavedIn
    <3>2. Undamaged(savedExpected)' = Undamaged(savedExpected)
      BY <2>2 DEF Undamaged
    <3> QED
      BY <1>4, <1>10, <2>1, <3>1, <3>2 DEF Promise!vars, Postings, Answers, AtRisk
  <2>3. CASE Tokens # {}
    <3>1. PICK t \in Tokens : AtRisk' \subseteq {t} \cup {}
      BY <2>1, <2>3
    <3>2. Promise!Save
      BY <1>4, <1>5, <1>10, <3>1 DEF Promise!Save, Postings, Answers, AtRisk
    <3> QED
      BY <3>2 DEF Promise!Next
  <2> QED
    BY <2>2, <2>3
<1>9. CASE DOMAIN tail # {}
  <2>1. PICK t \in DOMAIN indexMap : InBlock(DOMAIN tail, indexMap[t])
    BY <1>1, <1>9 DEF TailOne, Idle
  <2>2. ASSUME NEW u \in AtRisk', u # t PROVE FALSE
    <3> DEFINE at   == First(indexMap[u])
               size == indexMap[u].bytesSize
    <3>1. u \in DOMAIN indexMap
      BY <1>6, <1>7, <2>2
    <3>2. PICK a \in DOMAIN tail : a \in at .. at + size - 1
      BY <1>6, <1>7, <2>2
    <3>3. /\ currentBlockPos \in Nat /\ Small(currentBlockPos)
          /\ IsOwned(indexMap[u], currentBlockPos) /\ IsOwned(indexMap[t], currentBlockPos)
          /\ u \in Tokens
      BY <2>1, <3>1, Owned DEF FileSmall
    <3>4. Fits(indexMap[u], expected[u])
      BY <1>1, <3>1, <3>3, Types DEF CInv, MapSized, Sized, Idle
    <3>5. size \in Nat /\ size <= Capacity(indexMap[u])
      BY <3>3, <3>4, FitsCapacity DEF Fits, IsOwned
    <3>6. /\ at = FirstRow(indexMap[u]) /\ at \in Nat /\ Capacity(indexMap[u]) \in Nat
          /\ First(indexMap[t]) = FirstRow(indexMap[t])
      BY <3>3, BlockRows DEF IsOwned
    <3>7. Apart(indexMap[u], indexMap[t])
      <4>1. /\ IsIndexMap(indexMap)
            /\ Partitioned(indexMap, freeBlockPoses, currentBlockPos)
        BY DEF IInv, TypeOK, BlocksPartitioned
      <4> QED
        BY <2>1, <2>2, <3>1, <3>3, <4>1, OwnersApart
    <3>8. PICK j \in Nat : j < Capacity(indexMap[t]) /\ a = FirstRow(indexMap[t]) + j
      BY <2>1, <3>2, <3>6 DEF InBlock
    <3> HIDE DEF at, size
    <3>9. a - at \in Nat /\ a - at < Capacity(indexMap[u]) /\ a = at + (a - at)
      BY <3>2, <3>5, <3>6
    <3>10. FirstRow(indexMap[u]) + (a - at) # FirstRow(indexMap[t]) + j
      BY <3>7, <3>8, <3>9 DEF Apart
    <3> QED
      BY <3>6, <3>8, <3>9, <3>10
  <2>3. AtRisk' \subseteq {t} \cup {}
    BY <2>2
  <2>4. t \in Tokens
    BY <2>1, Owned
  <2>5. Promise!Save
    BY <1>4, <1>5, <1>10, <2>3, <2>4 DEF Promise!Save, Postings, Answers, AtRisk
  <2> QED
    BY <2>5 DEF Promise!Next
<1> QED
  BY <1>8, <1>9

LEMMA ProcessEndsPromise ==
  ASSUME IInv, CInv, IInv', CInv', ProcessEnds
  PROVE  Promise!Restart
<1>1. PICK cut \in DOMAIN tail \cup {Length(Written)} :
        lost' = lost \cup Released \cup SavedIn(DOMAIN From(tail, cut))
  BY DEF ProcessEnds
<1>2. /\ proc' = "down" /\ ~failed' /\ DOMAIN tail' = {} /\ meta' = meta
      /\ expected' = savedExpected /\ savedExpected' = savedExpected
  BY DEF ProcessEnds, Empty
<1>3. SavedIn(DOMAIN From(tail, cut)) \subseteq SavedIn(DOMAIN tail)
  <2>1. DOMAIN From(tail, cut) \subseteq DOMAIN tail
    BY DEF From
  <2> QED
    BY <2>1 DEF SavedIn
<1>4. PICK hit : hit = lost' \ lost
  OBVIOUS
<1>5. hit \in SUBSET AtRisk /\ lost' = lost \cup hit
  BY <1>1, <1>3, <1>4 DEF AtRisk
<1>6. Postings' = [t \in Tokens |-> IF t \in lost' THEN NoToken ELSE savedExpected[t]]
  BY <1>2, PostingsStayExpected DEF PostingsExpected, Undamaged
<1>7. Undamaged(savedExpected)' = [t \in Tokens |-> IF t \in lost' THEN NoToken ELSE savedExpected[t]]
  BY <1>2 DEF Undamaged
<1>8. Postings' = [t \in Tokens |-> IF t \in hit THEN NoToken ELSE Undamaged(savedExpected)[t]]
  BY <1>5, <1>6 DEF Undamaged
<1>9. AtRisk' = {}
  <2>1. Map' = SavedMap'
    BY <1>2 DEF Map
  <2>2. Released' = {}
    BY <2>1 DEF Released
  <2>3. SavedIn(DOMAIN tail)' = {}
    BY <1>2 DEF SavedIn
  <2> QED
    BY <2>2, <2>3 DEF AtRisk
<1>10. Undamaged(savedExpected)' = Postings'
  BY <1>6, <1>7
<1>11. Answers' = Postings'
  BY <1>2, AnswersStayGiven DEF AnswersFollow
<1> QED
  BY <1>5, <1>8, <1>9, <1>10, <1>11 DEF Promise!Restart, Postings, Answers, AtRisk

LEMMA NextPromise ==
  ASSUME IInv, CInv, FileSmall, TailOne, IInv', CInv', [Next]_vars
  PROVE  [Promise!Next]_Promise!vars
<1>1. CASE Construct
  BY <1>1, ConstructPromise DEF Promise!Next
<1>2. CASE \/ \E batch \in Batches : CreateIndex(batch)
           \/ \E t \in Tokens : KeepBlock(t)
           \/ UNCHANGED vars
  <2>1. /\ UNCHANGED <<indexMap, proc, failed, tail, meta, expected, savedExpected, lost>>
    BY <1>2 DEF CreateIndex, KeepBlock, vars, statics, files, observer
  <2>2. AtRisk' = AtRisk
    BY <2>1 DEF AtRisk, Released, SavedIn, SavedMap, Map
  <2> QED
    BY <2>1, <2>2, Stutters
<1>3. ASSUME NEW t \in Tokens, MoveBlock(t) PROVE Promise!Next
  BY <1>3, MoveBlockPromise DEF Promise!Next
<1>4. ASSUME NEW t \in Tokens, NewBlock(t) PROVE UNCHANGED Promise!vars
  BY <1>4, NewBlockPromise
<1>5. CASE CopyChunk
  BY <1>5, CopyChunkPromise
<1>6. CASE AppendRows
  BY <1>6, AppendRowsPromise
<1>7. ASSUME NEW t \in Tokens, GetRawIndex(t) PROVE Promise!Next
  BY <1>7, GetRawIndexPromise
<1>8. CASE SaveStorageMeta
  BY <1>8, SaveStorageMetaPromise
<1>9. CASE Close
  BY <1>9, ClosePromise DEF Promise!Next
<1>10. CASE ProcessEnds
  BY <1>10, ProcessEndsPromise DEF Promise!Next
<1> QED
  BY <1>1, <1>2, <1>3, <1>4, <1>5, <1>6, <1>7, <1>8, <1>9, <1>10 DEF Next, CreateIndexStep

\* The single-file storage implements the promise of IndexStorage: read out of the cells
\* of its file and of its stream's buffer, a token's list only grows; of a restart it is
\* what the last save left; what is damaged then was at risk, and damage spreads only
\* through a stream that has failed.  A stream fails over a damaged token only, answers
\* with garbage for every token that has postings until it is closed, and costs none of
\* them their postings.  (createIndex, getRawIndex, close, saveStorageMeta and
\* loadStorageMeta against what the callers of IIndexStorage count on.)
THEOREM ImplementsPromise ==
  ASSUME BatchesSmall
  PROVE  Spec /\ []FileSmall => KeepsPromise
<1>1. Init => Promise!Init /\ TailOne
  BY PromiseInit, InitTailOne
<1>2. IInv /\ CInv /\ FileSmall /\ TailOne /\ [Next]_vars => TailOne'
  BY NextTailOne
<1>3. IInv /\ CInv /\ FileSmall /\ TailOne /\ IInv' /\ CInv' /\ [Next]_vars
        => [Promise!Next]_Promise!vars
  BY NextPromise
<1> QED
  BY <1>1, <1>2, <1>3, Contents, PTL DEF Spec, KeepsPromise, Promise!Spec

=============================================================================
