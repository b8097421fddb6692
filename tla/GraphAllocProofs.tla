-------------------------- MODULE GraphAllocProofs --------------------------
(***************************************************************************)
(* Proofs about GraphAlloc, for every session of well-formed graphs, every *)
(* set of sizes, alignment and bound:                                      *)
(*   - the allocator loses no space and gives none out twice (SpaceIsExact)*)
(*   - the counters of children and views never drop below zero, and all   *)
(*     variables keep their types (GraphTypeOK)                            *)
(*   - planning a graph leaves nothing behind (NothingLeaks)               *)
(*   - what a node reads, and the outputs, have the values that were put   *)
(*     there, if the kept plans serve (PlansServe, ValuesAreIntact)        *)
(*                                                                         *)
(* The first part is about the allocator alone, under any requests; the    *)
(* second about the walk over a graph; the third about what the graph      *)
(* computes where the walk, or an earlier one, has put it.                 *)
(***************************************************************************)
EXTENDS GraphAlloc, NumberSets, SequenceTheorems

-----------------------------------------------------------------------------
(* Blocks                                                                  *)

\* Address a lies in a block of s.
Covers(s, a) == \E k \in 1..Len(s) : a \in Extent(s[k])

\* Sorted, none empty, and no two meet
Merged(s) ==
  /\ \A k \in 1..Len(s) : s[k].size > 0
  /\ \A k, l \in 1..Len(s) : k < l => End(s[k]) < s[l].offset

\* What the operators on blocks stand for
LEMMA BlockFacts ==
  ASSUME NEW b \in Block
  PROVE  /\ b.offset \in Nat /\ b.size \in Nat
         /\ End(b) = b.offset + b.size /\ End(b) \in Nat /\ b.offset <= End(b)
         /\ \A a : a \in Extent(b) <=> a \in Int /\ b.offset <= a /\ a < End(b)
BY DEF Block, End, Extent

\* A block with both fields changed
LEMMA ChangedBlock ==
  ASSUME NEW b \in Block, NEW x, NEW y
  PROVE  [b EXCEPT !.offset = x, !.size = y] = [offset |-> x, size |-> y]
<1> DEFINE one == [b EXCEPT !.offset = x]
           c == [offset |-> x, size |-> b.size]
<1>1. [b EXCEPT !.offset = x, !.size = y] = [one EXCEPT !.size = y]
  OBVIOUS
<1>2. one = c
  BY DEF Block
<1>3. [c EXCEPT !.size = y] = [offset |-> x, size |-> y]
  OBVIOUS
<1> QED
  BY <1>1, <1>2, <1>3

\* Two blocks that have bytes and share none lie one behind the other.
LEMMA Apart ==
  ASSUME NEW b \in Block, NEW c \in Block, b.size > 0, c.size > 0,
         \A a \in Nat : ~(a \in Extent(b) /\ a \in Extent(c))
  PROVE  End(b) <= c.offset \/ End(c) <= b.offset
<1>1. ~(b.offset \in Extent(b) /\ b.offset \in Extent(c))
  BY BlockFacts
<1>2. ~(c.offset \in Extent(b) /\ c.offset \in Extent(c))
  BY BlockFacts
<1>3. b.offset \in Extent(b) /\ c.offset \in Extent(c)
  BY BlockFacts
<1> QED
  BY <1>1, <1>2, <1>3, BlockFacts

\* Blocks in order share no address.
LEMMA MergedApart ==
  ASSUME NEW s \in Seq(Block), Merged(s), NEW k \in 1..Len(s), NEW l \in 1..Len(s),
         NEW a, a \in Extent(s[k]), a \in Extent(s[l])
  PROVE  k = l
<1>1. s[k] \in Block /\ s[l] \in Block /\ k \in Int /\ l \in Int
  OBVIOUS
<1>2. CASE k < l
  <2>1. End(s[k]) < s[l].offset
    BY <1>2 DEF Merged
  <2> QED
    BY <1>1, <2>1, BlockFacts
<1>3. CASE l < k
  <2>1. End(s[l]) < s[k].offset
    BY <1>3 DEF Merged
  <2> QED
    BY <1>1, <2>1, BlockFacts
<1>4. k < l \/ l < k \/ k = l
  OBVIOUS
<1> QED
  BY <1>2, <1>3, <1>4

\* A sequence without its element k.
LEMMA WithoutFacts ==
  ASSUME NEW S, NEW s \in Seq(S), NEW k \in 1..Len(s)
  PROVE  /\ Without(s, k) \in Seq(S) /\ Len(Without(s, k)) = Len(s) - 1
         /\ \A l \in 1..(Len(s) - 1) :
              Without(s, k)[l] = IF l < k THEN s[l] ELSE s[l + 1]
<1>1. Len(s) \in Nat /\ Len(s) - 1 \in Nat
  OBVIOUS
<1>2. \A l \in 1..(Len(s) - 1) : (IF l < k THEN s[l] ELSE s[l + 1]) \in S
  OBVIOUS
<1> DEFINE W == [l \in 1..(Len(s) - 1) |-> IF l < k THEN s[l] ELSE s[l + 1]]
<1>3. W \in [1..(Len(s) - 1) -> S]
  BY <1>2
<1>4. W \in Seq(S) /\ Len(W) = Len(s) - 1
  BY <1>1, <1>3
<1> QED
  BY <1>4 DEF Without

\* A sequence with b as its element k.
LEMMA InsertedFacts ==
  ASSUME NEW s \in Seq(Block), NEW b \in Block, NEW k \in 1..(Len(s) + 1)
  PROVE  /\ Inserted(s, k, b) \in Seq(Block) /\ Len(Inserted(s, k, b)) = Len(s) + 1
         /\ \A l \in 1..(Len(s) + 1) :
              Inserted(s, k, b)[l] = IF l < k THEN s[l] ELSE IF l = k THEN b ELSE s[l - 1]
<1>1. Len(s) \in Nat /\ Len(s) + 1 \in Nat
  OBVIOUS
<1> DEFINE W == [l \in 1..(Len(s) + 1) |->
                   IF l < k THEN s[l] ELSE IF l = k THEN b ELSE s[l - 1]]
<1>2. \A l \in 1..(Len(s) + 1) :
        (IF l < k THEN s[l] ELSE IF l = k THEN b ELSE s[l - 1]) \in Block
  OBVIOUS
<1>3. W \in [1..(Len(s) + 1) -> Block]
  BY <1>2
<1>4. W \in Seq(Block) /\ Len(W) = Len(s) + 1
  BY <1>1, <1>3
<1> QED
  BY <1>4 DEF Inserted

\* Without block k there is less space by just that block.
LEMMA WithoutCovers ==
  ASSUME NEW s \in Seq(Block), Merged(s), NEW k \in 1..Len(s)
  PROVE  /\ Merged(Without(s, k))
         /\ \A a : Covers(Without(s, k), a) <=> Covers(s, a) /\ a \notin Extent(s[k])
<1> DEFINE W == Without(s, k)
<1>1. /\ W \in Seq(Block) /\ Len(W) = Len(s) - 1
      /\ \A l \in 1..(Len(s) - 1) : W[l] = IF l < k THEN s[l] ELSE s[l + 1]
  BY WithoutFacts
<1> HIDE DEF W
<1>2. \A l \in 1..Len(W) : \E m \in 1..Len(s) :
        /\ W[l] = s[m] /\ m # k /\ m = (IF l < k THEN l ELSE l + 1)
  BY <1>1
<1>3. \A m \in 1..Len(s) : m # k => \E l \in 1..Len(W) : W[l] = s[m]
  <2> TAKE m \in 1..Len(s)
  <2>1. CASE m < k
    BY <1>1, <2>1
  <2>2. CASE m > k
    <3>1. m - 1 \in 1..(Len(s) - 1) /\ ~(m - 1 < k) /\ (m - 1) + 1 = m
      BY <2>2
    <3> QED
      BY <1>1, <3>1
  <2> QED
    BY <2>1, <2>2
<1>4. Merged(W)
  <2>1. \A l \in 1..Len(W) : W[l].size > 0
    BY <1>2 DEF Merged
  <2>2. ASSUME NEW l \in 1..Len(W), NEW m \in 1..Len(W), l < m
        PROVE  End(W[l]) < W[m].offset
    <3>1. PICK x \in 1..Len(s) : W[l] = s[x] /\ x = (IF l < k THEN l ELSE l + 1)
      BY <1>2
    <3>2. PICK y \in 1..Len(s) : W[m] = s[y] /\ y = (IF m < k THEN m ELSE m + 1)
      BY <1>2
    <3>3. x < y
      BY <2>2, <3>1, <3>2
    <3> QED
      BY <3>1, <3>2, <3>3 DEF Merged
  <2> QED
    BY <2>1, <2>2 DEF Merged
<1>5. ASSUME NEW a PROVE Covers(W, a) <=> Covers(s, a) /\ a \notin Extent(s[k])
  <2>1. ASSUME Covers(W, a) PROVE Covers(s, a) /\ a \notin Extent(s[k])
    <3>1. PICK l \in 1..Len(W) : a \in Extent(W[l])
      BY <2>1 DEF Covers
    <3>2. PICK m \in 1..Len(s) : W[l] = s[m] /\ m # k
      BY <1>2
    <3> QED
      BY <3>1, <3>2, MergedApart DEF Covers
  <2>2. ASSUME Covers(s, a), a \notin Extent(s[k]) PROVE Covers(W, a)
    BY <2>2, <1>3 DEF Covers
  <2> QED
    BY <2>1, <2>2
<1> QED
  BY <1>4, <1>5 DEF W
\* The first n bytes of block k are taken.
TakenFrom(s, k, n) ==
  IF s[k].size = n THEN Without(s, k)
  ELSE [s EXCEPT ![k].offset = @ + n, ![k].size = @ - n]

\* Blocks stay in order when one becomes shorter, at its front.
LEMMA TakenCovers ==
  ASSUME NEW s \in Seq(Block), Merged(s), NEW k \in 1..Len(s),
         NEW n \in Nat \ {0}, s[k].size >= n
  PROVE  LET T == TakenFrom(s, k, n)
             X == [offset |-> s[k].offset, size |-> n]
         IN  /\ T \in Seq(Block) /\ Merged(T) /\ Len(T) <= Len(s)
             /\ \A a : Covers(T, a) <=> Covers(s, a) /\ a \notin Extent(X)
<1> DEFINE T == TakenFrom(s, k, n)
           X == [offset |-> s[k].offset, size |-> n]
<1>0. s[k] \in Block
  OBVIOUS
<1>1. s[k] \in Block /\ s[k].offset \in Nat /\ s[k].size \in Nat
  BY <1>0, BlockFacts
<1>2. X \in Block /\ X.offset = s[k].offset /\ X.size = n
  BY <1>1 DEF Block
<1>3. CASE s[k].size = n
  <2>1. T = Without(s, k)
    BY <1>3 DEF TakenFrom
  <2>2. \A a : a \in Extent(X) <=> a \in Extent(s[k])
    <3> HIDE DEF X
    <3> QED
      BY <1>1, <1>2, <1>3, BlockFacts
  <2>3. T \in Seq(Block) /\ Len(T) <= Len(s)
    BY <2>1, WithoutFacts
  <2> QED
    BY <2>1, <2>2, <2>3, WithoutCovers
<1>4. CASE s[k].size # n
  <2> DEFINE R == [offset |-> s[k].offset + n, size |-> s[k].size - n]
  <2>1. R \in Block /\ R.offset = s[k].offset + n /\ R.size = s[k].size - n
    BY <1>1, <1>4 DEF Block
  <2>2. T = [s EXCEPT ![k] = R]
    <3>1. [s[k] EXCEPT !.offset = @ + n, !.size = @ - n] = R
      BY <1>1, ChangedBlock
    <3> QED
      BY <1>4, <3>1 DEF TakenFrom
  <2> HIDE DEF R, X
  <2>3. T \in Seq(Block) /\ Len(T) = Len(s)
    BY <2>1, <2>2
  <2>4. \A l \in 1..Len(s) : T[l] = IF l = k THEN R ELSE s[l]
    BY <2>2
  <2> HIDE DEF T
  <2>5. R.size > 0 /\ End(R) = End(s[k]) /\ s[k].offset < R.offset
    <3> DEFINE so == s[k].offset  ss == s[k].size
               ro == R.offset  rs == R.size  er == End(R)  es == End(s[k])
    <3>1. so \in Nat /\ ss \in Nat /\ ss # n /\ ss >= n /\ ro = so + n /\ rs = ss - n
      BY <1>1, <1>4, <2>1
    <3>2. er = ro + rs /\ es = so + ss
      BY DEF End
    <3> HIDE DEF so, ss, ro, rs, er, es
    <3>3. rs > 0 /\ er = es /\ so < ro
      BY <3>1, <3>2
    <3> QED
      BY <3>3 DEF so, ro, rs, er, es
  <2>6. Merged(T)
    <3>1. \A l \in 1..Len(T) : T[l].size > 0
      BY <2>3, <2>4, <2>5 DEF Merged
    <3>2. ASSUME NEW l \in 1..Len(T), NEW m \in 1..Len(T), l < m
          PROVE  End(T[l]) < T[m].offset
      <4>1. End(s[l]) < s[m].offset /\ s[m].offset \in Nat /\ End(s[l]) \in Nat
        BY <2>3, <3>2, BlockFacts DEF Merged
      <4>2. End(T[l]) = End(s[l])
        BY <2>3, <2>4, <2>5
      <4>3. s[m].offset <= T[m].offset /\ T[m].offset \in Nat
        BY <1>1, <2>1, <2>3, <2>4, <2>5, <4>1
      <4> QED
        BY <4>1, <4>2, <4>3
    <3> QED
      BY <3>1, <3>2 DEF Merged
  <2>7. \A a : a \in Extent(R) <=> a \in Extent(s[k]) /\ a \notin Extent(X)
    <3>1. /\ R.offset = s[k].offset + n /\ End(R) = s[k].offset + s[k].size
          /\ End(s[k]) = s[k].offset + s[k].size /\ End(X) = s[k].offset + n
      <4>1. /\ End(R) = R.offset + R.size /\ End(X) = X.offset + X.size
            /\ End(s[k]) = s[k].offset + s[k].size
        BY <1>1, <1>2, <2>1 DEF End
      <4> DEFINE so == s[k].offset  ss == s[k].size  er == End(R)
      <4>2. so \in Nat /\ ss \in Nat /\ er = (so + n) + (ss - n)
        BY <1>1, <2>1, <4>1
      <4> HIDE DEF so, ss, er
      <4>3. er = so + ss
        BY <4>2
      <4> QED
        BY <1>2, <2>1, <4>1, <4>3 DEF so, ss, er
    <3>2. /\ \A a : a \in Extent(R) <=> a \in Int /\ R.offset <= a /\ a < End(R)
          /\ \A a : a \in Extent(X) <=> a \in Int /\ X.offset <= a /\ a < End(X)
          /\ \A a : a \in Extent(s[k]) <=> a \in Int /\ s[k].offset <= a /\ a < End(s[k])
      BY <1>1, <1>2, <2>1, BlockFacts
    <3> QED
      BY <1>1, <1>2, <1>4, <3>1, <3>2
  <2>8. \A a : a \in Extent(X) => a \in Extent(s[k])
    BY <1>1, <1>2, BlockFacts
  <2>9. ASSUME NEW a PROVE Covers(T, a) <=> Covers(s, a) /\ a \notin Extent(X)
    <3>1. ASSUME Covers(T, a) PROVE Covers(s, a) /\ a \notin Extent(X)
      <4>1. PICK l \in 1..Len(s) : a \in Extent(T[l])
        BY <2>3, <3>1 DEF Covers
      <4>2. CASE l = k
        BY <2>4, <2>7, <4>1, <4>2 DEF Covers
      <4>3. CASE l # k
        <5>1. a \in Extent(s[l])
          BY <2>4, <4>1, <4>3
        <5> QED
          BY <2>8, <4>3, <5>1, MergedApart DEF Covers
      <4> QED
        BY <4>2, <4>3
    <3>2. ASSUME Covers(s, a), a \notin Extent(X) PROVE Covers(T, a)
      <4>1. PICK l \in 1..Len(s) : a \in Extent(s[l])
        BY <3>2 DEF Covers
      <4>2. a \in Extent(T[l])
        BY <2>4, <2>7, <3>2, <4>1
      <4> QED
        BY <2>3, <4>2 DEF Covers
    <3> QED
      BY <3>1, <3>2
  <2> QED
    BY <2>3, <2>6, <2>9 DEF T, X
<1> QED
  BY <1>3, <1>4

\* Block b shares no address with the blocks of s.
Outside(s, b) == \A k \in 1..Len(s) : \A a \in Nat : ~(a \in Extent(s[k]) /\ a \in Extent(b))

\* It lies behind or before each of them.
LEMMA OutsideApart ==
  ASSUME NEW s \in Seq(Block), Merged(s), NEW b \in Block, b.size > 0, Outside(s, b),
         NEW k \in 1..Len(s)
  PROVE  /\ End(s[k]) <= b.offset \/ End(b) <= s[k].offset
         /\ s[k].offset \in Nat /\ s[k].size \in Nat \ {0} /\ End(s[k]) = s[k].offset + s[k].size
<1>1. s[k] \in Block /\ s[k].size > 0
  BY DEF Merged
<1> QED
  BY <1>1, Apart, BlockFacts DEF Outside

\* A block that touches none is inserted where the offsets say.
LEMMA InsertedCovers ==
  ASSUME NEW s \in Seq(Block), Merged(s), NEW b \in Block, b.size > 0, Outside(s, b),
         \A l \in 1..Len(s) : End(s[l]) # b.offset /\ End(b) # s[l].offset,
         NEW k \in 1..(Len(s) + 1),
         \A l \in 1..(k - 1) : s[l].offset < b.offset,
         k \in 1..Len(s) => s[k].offset >= b.offset
  PROVE  /\ Merged(Inserted(s, k, b))
         /\ \A a : Covers(Inserted(s, k, b), a) <=> Covers(s, a) \/ a \in Extent(b)
<1>2. Len(s) \in Nat /\ k \in Nat
  OBVIOUS
<1>0. /\ Inserted(s, k, b) \in Seq(Block) /\ Len(Inserted(s, k, b)) = Len(s) + 1
      /\ \A l \in 1..(Len(s) + 1) :
           Inserted(s, k, b)[l] = IF l < k THEN s[l] ELSE IF l = k THEN b ELSE s[l - 1]
  BY ONLY InsertedFacts, s \in Seq(Block), b \in Block, k \in 1..(Len(s) + 1)
<1> DEFINE I == Inserted(s, k, b)
<1>1. /\ I \in Seq(Block) /\ Len(I) = Len(s) + 1
      /\ \A l \in 1..(Len(s) + 1) :
           I[l] = IF l < k THEN s[l] ELSE IF l = k THEN b ELSE s[l - 1]
  BY <1>0
<1> HIDE DEF I
<1>3. b.offset \in Nat /\ b.size \in Nat /\ End(b) = b.offset + b.size /\ End(b) \in Nat
  BY BlockFacts
<1>4. ASSUME NEW l \in 1..Len(s), l < k PROVE End(s[l]) < b.offset
  <2>1. s[l].offset < b.offset /\ End(s[l]) # b.offset
    BY <1>2, <1>4
  <2>2. End(s[l]) <= b.offset \/ End(b) <= s[l].offset
    BY OutsideApart
  <2>3. End(s[l]) \in Nat /\ s[l].offset \in Nat
    BY OutsideApart
  <2> QED
    BY <1>3, <2>1, <2>2, <2>3
<1>5. ASSUME NEW l \in 1..Len(s), l >= k PROVE End(b) < s[l].offset
  <2>1. s[k].offset <= s[l].offset /\ k \in 1..Len(s)
    <3>1. k \in 1..Len(s)
      BY <1>2, <1>5
    <3>2. CASE k = l
      BY <3>1, <3>2, OutsideApart
    <3>3. CASE k < l
      <4>1. End(s[k]) < s[l].offset
        BY <3>1, <3>3 DEF Merged
      <4> QED
        BY <3>1, <4>1, OutsideApart
    <3> QED
      BY <1>2, <1>5, <3>1, <3>2, <3>3
  <2>2. s[l].offset >= b.offset /\ End(b) # s[l].offset
    BY <1>3, <2>1, OutsideApart
  <2>3. End(s[l]) <= b.offset \/ End(b) <= s[l].offset
    BY OutsideApart
  <2>4. s[l].offset \in Nat /\ s[l].size \in Nat \ {0} /\ End(s[l]) = s[l].offset + s[l].size
    BY OutsideApart
  <2>5. s[l].offset < End(s[l]) /\ End(s[l]) \in Nat
    BY <2>4
  <2>6. CASE End(s[l]) <= b.offset
    BY <1>3, <2>2, <2>4, <2>5, <2>6
  <2>7. CASE End(b) <= s[l].offset
    <3>1. s[l].offset \in Nat /\ End(b) # s[l].offset /\ End(b) \in Nat
      BY <1>3, <2>2, <2>4
    <3> QED
      BY <2>7, <3>1
  <2> QED
    BY <2>3, <2>6, <2>7
<1>6. \A l \in 1..Len(s) : l < k => I[l] = s[l]
  BY <1>1, <1>2
<1>7. \A l \in 1..Len(s) : l >= k => l + 1 \in 1..Len(I) /\ I[l + 1] = s[l]
  BY <1>1, <1>2
<1>8. I[k] = b /\ k \in 1..Len(I)
  BY <1>1, <1>2
<1>9. \A x \in 1..Len(I) : \/ x < k /\ x \in 1..Len(s) /\ I[x] = s[x]
                           \/ x = k
                           \/ x > k /\ x - 1 \in 1..Len(s) /\ I[x] = s[x - 1]
  BY <1>1, <1>2
<1>10. Merged(I)
  <2>1. \A l \in 1..Len(I) : I[l].size > 0
    BY <1>8, <1>9 DEF Merged
  <2>2. ASSUME NEW x \in 1..Len(I), NEW y \in 1..Len(I), x < y
        PROVE  End(I[x]) < I[y].offset
    <3>0. x \in Nat /\ y \in Nat
      OBVIOUS
    <3>1. CASE y < k
      <4>1. x < k
        BY <1>2, <2>2, <3>0, <3>1
      <4> QED
        BY <1>9, <2>2, <3>1, <4>1 DEF Merged
    <3>2. CASE y = k
      BY <1>4, <1>8, <1>9, <2>2, <3>2
    <3>3. CASE y > k
      <4>1. y - 1 \in 1..Len(s) /\ I[y] = s[y - 1] /\ y - 1 >= k
        BY <1>2, <1>9, <3>0, <3>3
      <4>2. CASE x < k
        <5>1. x \in 1..Len(s) /\ I[x] = s[x] /\ x < y - 1
          BY <1>2, <1>9, <3>0, <4>1, <4>2
        <5> QED
          BY <4>1, <5>1 DEF Merged
      <4>3. CASE x = k
        BY <1>5, <1>8, <4>1, <4>3
      <4>4. CASE x > k
        <5>1. x - 1 \in 1..Len(s) /\ x - 1 < y - 1 /\ x \in 1..(Len(s) + 1)
          BY <1>2, <2>2, <3>0, <4>1, <4>4
        <5>2. I[x] = s[x - 1]
          BY <1>2, <1>9, <3>0, <4>4, <5>1
        <5> QED
          BY <4>1, <5>1, <5>2 DEF Merged
      <4> QED
        BY <1>2, <3>0, <4>2, <4>3, <4>4
    <3> QED
      BY <1>2, <3>0, <3>1, <3>2, <3>3
  <2> QED
    BY <2>1, <2>2 DEF Merged
<1>11. ASSUME NEW a PROVE Covers(I, a) <=> Covers(s, a) \/ a \in Extent(b)
  <2>1. ASSUME Covers(I, a) PROVE Covers(s, a) \/ a \in Extent(b)
    BY <1>8, <1>9, <2>1 DEF Covers
  <2>2. ASSUME Covers(s, a) PROVE Covers(I, a)
    <3>1. PICK l \in 1..Len(s) : a \in Extent(s[l])
      BY <2>2 DEF Covers
    <3>2. CASE l < k
      <4>1. l \in 1..Len(I)
        BY <1>1, <1>2
      <4> QED
        BY <1>6, <3>1, <3>2, <4>1 DEF Covers
    <3>3. CASE l >= k
      BY <1>7, <3>1, <3>3 DEF Covers
    <3> QED
      BY <1>2, <3>2, <3>3
  <2>3. ASSUME a \in Extent(b) PROVE Covers(I, a)
    BY <1>8, <2>3 DEF Covers
  <2> QED
    BY <2>1, <2>2, <2>3
<1> QED
  BY <1>10, <1>11 DEF I
\* Block k becomes c, which stays clear of the others.
LEMMA ReplacedCovers ==
  ASSUME NEW s \in Seq(Block), Merged(s), NEW k \in 1..Len(s),
         NEW c \in Block, c.size > 0,
         \A l \in 1..Len(s) : l < k => End(s[l]) < c.offset,
         \A l \in 1..Len(s) : k < l => End(c) < s[l].offset
  PROVE  LET T == [s EXCEPT ![k] = c]
         IN  /\ T \in Seq(Block) /\ Merged(T) /\ Len(T) = Len(s)
             /\ \A a : Covers(T, a) <=> \/ Covers(s, a) /\ a \notin Extent(s[k])
                                        \/ a \in Extent(c)
<1> DEFINE T == [s EXCEPT ![k] = c]
<1>1. T \in Seq(Block) /\ Len(T) = Len(s)
  OBVIOUS
<1>2. \A l \in 1..Len(s) : T[l] = IF l = k THEN c ELSE s[l]
  OBVIOUS
<1> HIDE DEF T
<1>3. Merged(T)
  <2>1. \A l \in 1..Len(T) : T[l].size > 0
    BY <1>1, <1>2 DEF Merged
  <2>2. ASSUME NEW l \in 1..Len(T), NEW m \in 1..Len(T), l < m
        PROVE  End(T[l]) < T[m].offset
    <3>1. CASE l = k
      BY <1>1, <1>2, <2>2, <3>1
    <3>2. CASE m = k
      BY <1>1, <1>2, <2>2, <3>2
    <3>3. CASE l # k /\ m # k
      BY <1>1, <1>2, <2>2, <3>3 DEF Merged
    <3> QED
      BY <3>1, <3>2, <3>3
  <2> QED
    BY <2>1, <2>2 DEF Merged
<1>4. ASSUME NEW a, Covers(T, a)
      PROVE  (Covers(s, a) /\ a \notin Extent(s[k])) \/ a \in Extent(c)
  <2>1. PICK l \in 1..Len(s) : a \in Extent(T[l])
    BY <1>1, <1>4 DEF Covers
  <2>2. CASE l = k
    BY <1>2, <2>1, <2>2
  <2>3. CASE l # k
    <3>1. a \in Extent(s[l])
      BY <1>2, <2>1, <2>3
    <3> QED
      BY <2>3, <3>1, MergedApart DEF Covers
  <2> QED
    BY <2>2, <2>3
<1>5. ASSUME NEW a, Covers(s, a), a \notin Extent(s[k]) PROVE Covers(T, a)
  <2>1. PICK l \in 1..Len(s) : a \in Extent(s[l])
    BY <1>5 DEF Covers
  <2>2. a \in Extent(T[l])
    BY <1>2, <1>5, <2>1
  <2> QED
    BY <1>1, <2>2 DEF Covers
<1>6. ASSUME NEW a, a \in Extent(c) PROVE Covers(T, a)
  <2>1. k \in 1..Len(T) /\ T[k] = c
    BY <1>1, <1>2
  <2> QED
    BY <1>6, <2>1 DEF Covers
<1> QED
  BY <1>1, <1>3, <1>4, <1>5, <1>6 DEF T

\* Block k with b behind it, and with the next one when that follows
GrownUp(s, k, b) ==
  IF k < Len(s) /\ End(b) = s[k + 1].offset
  THEN Without([s EXCEPT ![k].size = @ + b.size + s[k + 1].size], k + 1)
  ELSE [s EXCEPT ![k].size = @ + b.size]

LEMMA LongerBlock ==
  ASSUME NEW b \in Block, NEW x \in Nat
  PROVE  LET c == [b EXCEPT !.size = x]
         IN  c \in Block /\ c.offset = b.offset /\ c.size = x /\ End(c) = b.offset + x
BY DEF Block, End

LEMMA GrownUpCovers ==
  ASSUME NEW s \in Seq(Block), Merged(s), NEW b \in Block, b.size > 0, Outside(s, b),
         NEW k \in 1..Len(s), End(s[k]) = b.offset
  PROVE  LET T == GrownUp(s, k, b)
         IN  /\ T \in Seq(Block) /\ Merged(T) /\ Len(T) <= Len(s) /\ Len(T) > 0
             /\ \A a : Covers(T, a) <=> Covers(s, a) \/ a \in Extent(b)
<1> DEFINE T == GrownUp(s, k, b)
<1>1. Len(s) \in Nat /\ k \in Nat /\ s[k] \in Block
  OBVIOUS
<1>2. /\ s[k].offset \in Nat /\ s[k].size \in Nat /\ s[k].size > 0
      /\ End(s[k]) = s[k].offset + s[k].size
  BY OutsideApart
<1>3. b.offset \in Nat /\ b.size \in Nat /\ End(b) = b.offset + b.size /\ End(b) \in Nat
  BY BlockFacts
<1>4. \A a : Covers(s, a) \/ a \notin Extent(s[k])
  BY DEF Covers
<1>5. /\ \A a : a \in Extent(s[k]) <=> a \in Int /\ s[k].offset <= a /\ a < End(s[k])
      /\ \A a : a \in Extent(b) <=> a \in Int /\ b.offset <= a /\ a < End(b)
  BY <1>1, BlockFacts
<1>6. CASE k < Len(s) /\ End(b) = s[k + 1].offset
  <2>1. k + 1 \in 1..Len(s) /\ s[k + 1] \in Block
    BY <1>1, <1>6
  <2> DEFINE n == s[k + 1]
             c == [s[k] EXCEPT !.size = s[k].size + b.size + n.size]
             W == Without(s, k + 1)
  <2>2. n.offset \in Nat /\ n.size \in Nat /\ n.size > 0 /\ End(n) = n.offset + n.size
    BY <2>1, OutsideApart
  <2>3. s[k].size + b.size + n.size \in Nat
    <3>1. s[k].size \in Nat /\ b.size \in Nat /\ n.size \in Nat
      BY <1>2, <1>3, <2>2
    <3> HIDE DEF n
    <3> QED
      BY <3>1
  <2>4. /\ c \in Block /\ c.offset = s[k].offset /\ c.size = s[k].size + b.size + n.size
        /\ End(c) = s[k].offset + (s[k].size + b.size + n.size)
    BY <1>1, <2>3, LongerBlock
  <2> HIDE DEF c
  <2>5. c.size > 0 /\ End(c) = End(n)
    <3> DEFINE so == s[k].offset  ss == s[k].size  bs == b.size  ns == n.size
               cs == c.size  ec == End(c)  en == End(n)
    <3>1. /\ so \in Nat /\ ss \in Nat /\ bs \in Nat /\ ns \in Nat /\ ss > 0
          /\ cs = ss + bs + ns /\ ec = so + (ss + bs + ns) /\ en = ((so + ss) + bs) + ns
      BY <1>2, <1>3, <1>6, <2>2, <2>4
    <3> HIDE DEF so, ss, bs, ns, cs, ec, en
    <3>2. cs > 0 /\ ec = en
      BY <3>1
    <3> QED
      BY <3>2 DEF cs, ec, en
  <2>6. /\ W \in Seq(Block) /\ Len(W) = Len(s) - 1
        /\ \A l \in 1..(Len(s) - 1) : W[l] = IF l < k + 1 THEN s[l] ELSE s[l + 1]
    BY <2>1, WithoutFacts
  <2>7. Merged(W) /\ \A a : Covers(W, a) <=> Covers(s, a) /\ a \notin Extent(n)
    BY <2>1, WithoutCovers
  <2> DEFINE G == [s EXCEPT ![k].size = @ + b.size + s[k + 1].size]
  <2>8. G = [s EXCEPT ![k] = c]
    BY DEF c
  <2> HIDE DEF W
  <2>9. G \in Seq(Block) /\ Len(G) = Len(s) /\ \A l \in 1..Len(s) : G[l] = IF l = k THEN c ELSE s[l]
    BY <2>4, <2>8
  <2>10. T = Without(G, k + 1)
    BY <1>6 DEF GrownUp
  <2> HIDE DEF G, T
  <2>0. k + 1 \in 1..Len(G)
    BY <2>1, <2>9
  <2>11. /\ T \in Seq(Block) /\ Len(T) = Len(s) - 1
         /\ \A l \in 1..(Len(s) - 1) : T[l] = IF l < k + 1 THEN G[l] ELSE G[l + 1]
    <3>1. G \in Seq(Block)
      BY <2>9
    <3>2. /\ Without(G, k + 1) \in Seq(Block) /\ Len(Without(G, k + 1)) = Len(G) - 1
          /\ \A l \in 1..(Len(G) - 1) :
               Without(G, k + 1)[l] = IF l < k + 1 THEN G[l] ELSE G[l + 1]
      BY <2>0, <3>1, WithoutFacts
    <3> QED
      BY <2>9, <2>10, <3>2
  <2>12. k \in 1..Len(W) /\ W[k] = s[k]
    BY <1>1, <1>6, <2>6
  <2>13. T = [W EXCEPT ![k] = c]
    <3>1. \A l \in 1..(Len(s) - 1) : T[l] = [W EXCEPT ![k] = c][l]
      BY <1>1, <2>6, <2>9, <2>11
    <3>2. [W EXCEPT ![k] = c] \in Seq(Block) /\ Len([W EXCEPT ![k] = c]) = Len(s) - 1
      BY <2>4, <2>6, <2>12
    <3> QED
      BY <2>11, <3>1, <3>2, SeqEqual
  <2>14. \A l \in 1..Len(W) : l < k => End(W[l]) < c.offset
    BY <1>1, <2>4, <2>6 DEF Merged
  <2>15. \A l \in 1..Len(W) : k < l => End(c) < W[l].offset
    <3> TAKE l \in 1..Len(W)
    <3> HAVE k < l
    <3>1. W[l] = s[l + 1] /\ l + 1 \in 1..Len(s) /\ k + 1 < l + 1
      BY <1>1, <2>6
    <3>2. End(n) < s[l + 1].offset
      BY <2>1, <3>1 DEF Merged
    <3> QED
      BY <2>5, <3>1, <3>2
  <2>16. /\ Merged(T) /\ Len(T) = Len(W)
         /\ \A a : Covers(T, a) <=> \/ Covers(W, a) /\ a \notin Extent(W[k])
                                    \/ a \in Extent(c)
    BY <2>4, <2>5, <2>6, <2>7, <2>12, <2>13, <2>14, <2>15, ReplacedCovers
  <2>17. /\ \A a : a \in Extent(n) <=> a \in Int /\ n.offset <= a /\ a < End(n)
         /\ \A a : a \in Extent(c) <=> a \in Int /\ c.offset <= a /\ a < End(c)
    BY <2>1, <2>4, BlockFacts
  <2>18. \A a : a \in Extent(c) <=> a \in Extent(s[k]) \/ a \in Extent(b) \/ a \in Extent(n)
    <3>1. c.offset = s[k].offset /\ End(c) = End(n) /\ End(s[k]) = b.offset /\ End(b) = n.offset
      BY <1>6, <2>4, <2>5
    <3>2. /\ s[k].offset \in Nat /\ b.offset \in Nat /\ n.offset \in Nat /\ End(n) \in Nat
          /\ s[k].offset <= b.offset /\ b.offset <= n.offset /\ n.offset <= End(n)
      <4>1. s[k].offset <= End(s[k]) /\ b.offset <= End(b) /\ n.offset <= End(n) /\ End(n) \in Nat
        BY <1>1, <2>1, BlockFacts
      <4> QED
        BY <1>2, <1>3, <2>2, <3>1, <4>1
    <3>3. \A a : a \in Extent(c) <=> a \in Int /\ s[k].offset <= a /\ a < End(n)
      BY <2>17, <3>1
    <3>4. \A a : a \in Extent(n) <=> a \in Int /\ n.offset <= a /\ a < End(n)
      BY <2>17
    <3>5. \A a : a \in Extent(s[k]) <=> a \in Int /\ s[k].offset <= a /\ a < b.offset
      BY <1>5, <3>1
    <3>6. \A a : a \in Extent(b) <=> a \in Int /\ b.offset <= a /\ a < n.offset
      BY <1>5, <3>1
    <3> HIDE DEF n
    <3> QED
      BY <3>2, <3>3, <3>4, <3>5, <3>6
  <2>19. \A a : Covers(s, a) \/ a \notin Extent(n)
    BY <2>1 DEF Covers
  <2>20. \A a : Covers(T, a) <=> Covers(s, a) \/ a \in Extent(b)
    BY <1>4, <2>7, <2>12, <2>16, <2>18, <2>19, Zenon
  <2>21. Len(T) <= Len(s) /\ Len(T) > 0
    BY <1>1, <1>6, <2>11
  <2> QED
    BY <2>11, <2>16, <2>20, <2>21 DEF T
<1>7. CASE ~(k < Len(s) /\ End(b) = s[k + 1].offset)
  <2> DEFINE c == [s[k] EXCEPT !.size = s[k].size + b.size]
  <2>1. s[k].size + b.size \in Nat
    BY <1>2, <1>3
  <2>2. /\ c \in Block /\ c.offset = s[k].offset /\ c.size = s[k].size + b.size
        /\ End(c) = s[k].offset + (s[k].size + b.size)
    BY <1>1, <2>1, LongerBlock
  <2> HIDE DEF c
  <2>3. c.size > 0 /\ End(c) = End(b)
    <3> DEFINE so == s[k].offset  ss == s[k].size  bs == b.size
               cs == c.size  ec == End(c)  eb == End(b)
    <3>1. /\ so \in Nat /\ ss \in Nat /\ bs \in Nat /\ ss > 0
          /\ cs = ss + bs /\ ec = so + (ss + bs) /\ eb = (so + ss) + bs
      BY <1>2, <1>3, <2>2
    <3> HIDE DEF so, ss, bs, cs, ec, eb
    <3>2. cs > 0 /\ ec = eb
      BY <3>1
    <3> QED
      BY <3>2 DEF cs, ec, eb
  <2>4. T = [s EXCEPT ![k] = c]
    BY <1>7 DEF GrownUp, c
  <2> HIDE DEF T
  <2>5. \A l \in 1..Len(s) : l < k => End(s[l]) < c.offset
    BY <2>2 DEF Merged
  <2>6. ASSUME NEW l \in 1..Len(s), k < l PROVE End(c) < s[l].offset
    <3>1. l \in Nat /\ k + 1 \in 1..Len(s)
      BY <1>1, <2>6
    <3>2. /\ End(s[k + 1]) <= b.offset \/ End(b) <= s[k + 1].offset
          /\ s[k + 1].offset \in Nat /\ s[k + 1].size \in Nat \ {0}
          /\ End(s[k + 1]) = s[k + 1].offset + s[k + 1].size
      BY <3>1, OutsideApart
    <3>3. End(s[k]) < s[k + 1].offset
      BY <1>1, <3>1 DEF Merged
    <3>4. End(b) # s[k + 1].offset
      BY <1>1, <1>7, <2>6, <3>1
    <3>5. End(b) < s[k + 1].offset
      <4>1. b.offset < s[k + 1].offset /\ s[k + 1].offset < End(s[k + 1])
        BY <3>2, <3>3
      <4>2. ~(End(s[k + 1]) <= b.offset)
        BY <1>3, <3>2, <4>1
      <4> QED
        BY <1>3, <3>2, <3>4, <4>2
    <3>6. CASE l = k + 1
      BY <2>3, <3>5, <3>6
    <3>7. CASE k + 1 < l
      <4>1. End(s[k + 1]) < s[l].offset /\ s[l] \in Block
        BY <3>1, <3>7 DEF Merged
      <4>2. s[l].offset \in Nat
        BY <4>1, BlockFacts
      <4> QED
        BY <1>3, <2>3, <3>2, <3>5, <4>1, <4>2
    <3> QED
      BY <1>1, <2>6, <3>1, <3>6, <3>7
  <2>7. /\ T \in Seq(Block) /\ Merged(T) /\ Len(T) = Len(s)
        /\ \A a : Covers(T, a) <=> \/ Covers(s, a) /\ a \notin Extent(s[k])
                                   \/ a \in Extent(c)
    BY <2>2, <2>3, <2>4, <2>5, <2>6, ReplacedCovers
  <2>8. \A a : a \in Extent(c) <=> a \in Int /\ c.offset <= a /\ a < End(c)
    BY <2>2, BlockFacts
  <2>9. \A a : a \in Extent(c) <=> a \in Extent(s[k]) \/ a \in Extent(b)
    <3>1. c.offset = s[k].offset /\ End(c) = End(b) /\ End(s[k]) = b.offset
      BY <2>2, <2>3
    <3>2. /\ s[k].offset \in Nat /\ b.offset \in Nat /\ End(b) \in Nat
          /\ s[k].offset <= b.offset /\ b.offset <= End(b)
      <4>1. s[k].offset <= End(s[k]) /\ b.offset <= End(b)
        BY <1>1, BlockFacts
      <4> QED
        BY <1>2, <1>3, <3>1, <4>1
    <3>3. \A a : a \in Extent(c) <=> a \in Int /\ s[k].offset <= a /\ a < End(b)
      BY <2>8, <3>1
    <3>4. \A a : a \in Extent(s[k]) <=> a \in Int /\ s[k].offset <= a /\ a < b.offset
      BY <1>5, <3>1
    <3>5. \A a : a \in Extent(b) <=> a \in Int /\ b.offset <= a /\ a < End(b)
      BY <1>5
    <3> QED
      BY <3>2, <3>3, <3>4, <3>5
  <2>10. \A a : Covers(T, a) <=> Covers(s, a) \/ a \in Extent(b)
    BY <1>4, <2>7, <2>9, Zenon
  <2>11. Len(T) <= Len(s) /\ Len(T) > 0
    BY <1>1, <2>7
  <2> QED
    BY <2>7, <2>10, <2>11 DEF T
<1> QED
  BY <1>6, <1>7

\* Block k with b before it
GrownDown(s, k, b) ==
  [s EXCEPT ![k] = [offset |-> b.offset, size |-> @.size + b.size]]

LEMMA GrownDownCovers ==
  ASSUME NEW s \in Seq(Block), Merged(s), NEW b \in Block, b.size > 0, Outside(s, b),
         NEW k \in 1..Len(s), End(b) = s[k].offset,
         \A l \in 1..(k - 1) : End(s[l]) # b.offset
  PROVE  LET T == GrownDown(s, k, b)
         IN  /\ T \in Seq(Block) /\ Merged(T) /\ Len(T) = Len(s)
             /\ \A a : Covers(T, a) <=> Covers(s, a) \/ a \in Extent(b)
<1> DEFINE T == GrownDown(s, k, b)
           c == [offset |-> b.offset, size |-> s[k].size + b.size]
<1>1. Len(s) \in Nat /\ k \in Nat /\ s[k] \in Block
  OBVIOUS
<1>2. /\ s[k].offset \in Nat /\ s[k].size \in Nat /\ s[k].size > 0
      /\ End(s[k]) = s[k].offset + s[k].size
  BY OutsideApart
<1>3. b.offset \in Nat /\ b.size \in Nat /\ End(b) = b.offset + b.size /\ End(b) \in Nat
  BY BlockFacts
<1>4. \A a : Covers(s, a) \/ a \notin Extent(s[k])
  BY DEF Covers
<1>5. /\ \A a : a \in Extent(s[k]) <=> a \in Int /\ s[k].offset <= a /\ a < End(s[k])
      /\ \A a : a \in Extent(b) <=> a \in Int /\ b.offset <= a /\ a < End(b)
  BY <1>1, BlockFacts
<1>6. s[k].size + b.size \in Nat /\ s[k].size + b.size > 0
  BY <1>2, <1>3
<1>7. c \in Block /\ c.offset = b.offset /\ c.size = s[k].size + b.size
  BY <1>3, <1>6 DEF Block
<1>8. T = [s EXCEPT ![k] = c]
  BY DEF GrownDown
<1> HIDE DEF c, T
<1>9. c.size > 0 /\ End(c) = End(s[k])
  <2>1. End(c) = c.offset + c.size
    BY <1>7, BlockFacts
  <2> QED
    BY <1>2, <1>3, <1>6, <1>7, <2>1
<1>10. ASSUME NEW l \in 1..Len(s), l < k PROVE End(s[l]) < c.offset
  <2>1. End(s[l]) < s[k].offset
    BY <1>10 DEF Merged
  <2>2. End(s[l]) # b.offset
    BY <1>1, <1>10
  <2>3. /\ End(s[l]) <= b.offset \/ End(b) <= s[l].offset
        /\ s[l].offset \in Nat /\ s[l].size \in Nat \ {0}
        /\ End(s[l]) = s[l].offset + s[l].size
    BY OutsideApart
  <2>4. End(s[l]) \in Nat /\ s[l].offset < End(s[l])
    BY <2>3
  <2>5. ~(End(b) <= s[l].offset)
    BY <1>2, <2>1, <2>3, <2>4
  <2> QED
    BY <1>3, <1>7, <2>2, <2>3, <2>4, <2>5
<1>11. \A l \in 1..Len(s) : k < l => End(c) < s[l].offset
  BY <1>9 DEF Merged
<1>12. /\ T \in Seq(Block) /\ Merged(T) /\ Len(T) = Len(s)
       /\ \A a : Covers(T, a) <=> \/ Covers(s, a) /\ a \notin Extent(s[k])
                                  \/ a \in Extent(c)
  BY <1>7, <1>8, <1>9, <1>10, <1>11, ReplacedCovers
<1>13. \A a : a \in Extent(c) <=> a \in Int /\ c.offset <= a /\ a < End(c)
  BY <1>7, BlockFacts
<1>14. \A a : a \in Extent(c) <=> a \in Extent(s[k]) \/ a \in Extent(b)
  <2>1. c.offset = b.offset /\ End(c) = End(s[k]) /\ End(b) = s[k].offset
    BY <1>7, <1>9
  <2>2. /\ s[k].offset \in Nat /\ b.offset \in Nat /\ End(s[k]) \in Nat
        /\ b.offset <= s[k].offset /\ s[k].offset <= End(s[k])
    BY <1>2, <1>3, <2>1
  <2>3. \A a : a \in Extent(c) <=> a \in Int /\ b.offset <= a /\ a < End(s[k])
    BY <1>13, <2>1
  <2>4. \A a : a \in Extent(s[k]) <=> a \in Int /\ s[k].offset <= a /\ a < End(s[k])
    BY <1>5
  <2>5. \A a : a \in Extent(b) <=> a \in Int /\ b.offset <= a /\ a < s[k].offset
    BY <1>5, <2>1
  <2> QED
    BY <2>2, <2>3, <2>4, <2>5
<1>15. \A a : Covers(T, a) <=> Covers(s, a) \/ a \in Extent(b)
  BY <1>4, <1>12, <1>14, Zenon
<1> QED
  BY <1>12, <1>15 DEF T
-----------------------------------------------------------------------------
(* The allocator                                                           *)

\* Whatever lies below Limit is free or held, by one; the last address is free.
Owned(s, h) ==
  /\ \A a \in Nat : Covers(s, a) => a < Limit
  /\ \A a \in Nat : Covers(s, a) => \A t \in Ids : a \notin Extent(h[t])
  /\ \A a \in Nat : \A t \in Ids : a \in Extent(h[t]) => a < Limit
  /\ \A a \in Nat : \A t, u \in Ids : a \in Extent(h[t]) /\ a \in Extent(h[u]) => t = u
  /\ \A a \in Nat : a < Limit => Covers(s, a) \/ \E t \in Ids : a \in Extent(h[t])
  /\ Covers(s, Limit - 1)

\* The inductive invariant of the allocator: beyond SpaceIsExact it says that no block
\* reaches beyond Limit, and that the last address stays free, so that there is always
\* a last block to fall back on.
AllocInv == AllocTypeOK /\ Merged(free_blocks) /\ Owned(free_blocks, held)

LEMMA NothingIsEmpty ==
  /\ Nothing \in Block /\ Nothing.size = 0
  /\ \A b \in Block : b.size = 0 => \A a : a \notin Extent(b)
<1>1. Nothing \in Block /\ Nothing.size = 0
  BY DEF Nothing, Block
<1>2. ASSUME NEW b \in Block, b.size = 0, NEW a PROVE a \notin Extent(b)
  <2>1. End(b) = b.offset /\ b.offset \in Nat
    BY <1>2, BlockFacts
  <2> QED
    BY <2>1, BlockFacts
<1> QED
  BY <1>1, <1>2

\* Free space X is given to t.
LEMMA Gave ==
  ASSUME NEW s, NEW r, NEW h \in [Ids -> Block], Owned(s, h),
         NEW t \in Ids, h[t].size = 0, NEW X \in Block,
         \A a : Covers(r, a) <=> Covers(s, a) /\ a \notin Extent(X),
         \A a : a \in Extent(X) => Covers(s, a),
         Limit - 1 \notin Extent(X)
  PROVE  Owned(r, [h EXCEPT ![t] = X])
<1> DEFINE g == [h EXCEPT ![t] = X]
<1>1. \A u \in Ids : g[u] = IF u = t THEN X ELSE h[u]
  OBVIOUS
<1>2. \A a : a \notin Extent(h[t])
  BY NothingIsEmpty
<1> HIDE DEF g
<1>3. \A a \in Nat : Covers(r, a) => a < Limit
  BY DEF Owned
<1>4. \A a \in Nat : Covers(r, a) => \A u \in Ids : a \notin Extent(g[u])
  BY <1>1 DEF Owned
<1>5. \A a \in Nat : \A u \in Ids : a \in Extent(g[u]) => a < Limit
  BY <1>1 DEF Owned
<1>6. ASSUME NEW a \in Nat, NEW u \in Ids, NEW v \in Ids,
             a \in Extent(g[u]), a \in Extent(g[v])
      PROVE  u = v
  <2>1. CASE u = t \/ v = t
    BY <1>1, <1>6, <2>1 DEF Owned
  <2>2. CASE u # t /\ v # t
    BY <1>1, <1>6, <2>2 DEF Owned
  <2> QED
    BY <2>1, <2>2
<1>7. ASSUME NEW a \in Nat, a < Limit
      PROVE  Covers(r, a) \/ \E u \in Ids : a \in Extent(g[u])
  <2>1. CASE Covers(s, a)
    BY <1>1, <2>1
  <2>2. CASE ~Covers(s, a)
    <3>1. PICK u \in Ids : a \in Extent(h[u])
      BY <1>7, <2>2 DEF Owned
    <3>2. u # t
      BY <1>2, <3>1
    <3> QED
      BY <1>1, <3>1, <3>2
  <2> QED
    BY <2>1, <2>2
<1>8. Covers(r, Limit - 1)
  BY DEF Owned
<1> QED
  BY <1>3, <1>4, <1>5, <1>6, <1>7, <1>8 DEF Owned, g

\* What t holds is given back.
LEMMA GaveBack ==
  ASSUME NEW s, NEW r, NEW h \in [Ids -> Block], Owned(s, h), NEW t \in Ids,
         \A a : Covers(r, a) <=> Covers(s, a) \/ a \in Extent(h[t])
  PROVE  Owned(r, [h EXCEPT ![t] = Nothing])
<1> DEFINE g == [h EXCEPT ![t] = Nothing]
<1>1. \A u \in Ids : g[u] = IF u = t THEN Nothing ELSE h[u]
  OBVIOUS
<1>2. \A a : a \notin Extent(Nothing)
  BY NothingIsEmpty
<1> HIDE DEF g
<1>3. \A a \in Nat : \A u \in Ids : a \in Extent(g[u]) => a \in Extent(h[u]) /\ u # t
  BY <1>1, <1>2
<1>4. \A a \in Nat : Covers(r, a) => a < Limit
  BY DEF Owned
<1>5. \A a \in Nat : Covers(r, a) => \A u \in Ids : a \notin Extent(g[u])
  BY <1>3 DEF Owned
<1>6. \A a \in Nat : \A u \in Ids : a \in Extent(g[u]) => a < Limit
  BY <1>3 DEF Owned
<1>7. \A a \in Nat : \A u, v \in Ids : a \in Extent(g[u]) /\ a \in Extent(g[v]) => u = v
  BY <1>3 DEF Owned
<1>8. ASSUME NEW a \in Nat, a < Limit
      PROVE  Covers(r, a) \/ \E u \in Ids : a \in Extent(g[u])
  BY <1>1, <1>8 DEF Owned
<1>9. Covers(r, Limit - 1)
  BY DEF Owned
<1> QED
  BY <1>4, <1>5, <1>6, <1>7, <1>8, <1>9 DEF Owned, g

\* What p holds passes to t.
LEMMA Passed ==
  ASSUME NEW s, NEW h \in [Ids -> Block], Owned(s, h),
         NEW t \in Ids, NEW p \in Ids, t # p, h[t].size = 0
  PROVE  Owned(s, [h EXCEPT ![t] = h[p], ![p] = Nothing])
<1> DEFINE g == [h EXCEPT ![t] = h[p], ![p] = Nothing]
<1>1. \A u \in Ids : g[u] = IF u = p THEN Nothing ELSE IF u = t THEN h[p] ELSE h[u]
  OBVIOUS
<1>2. \A a : a \notin Extent(Nothing) /\ a \notin Extent(h[t])
  BY NothingIsEmpty
<1> HIDE DEF g
<1> DEFINE Before(u) == IF u = t THEN p ELSE u
<1>3. \A a \in Nat : \A u \in Ids :
        a \in Extent(g[u]) => a \in Extent(h[Before(u)]) /\ u # p
  BY <1>1, <1>2
<1>4. \A a \in Nat : Covers(s, a) => \A u \in Ids : a \notin Extent(g[u])
  BY <1>3 DEF Owned
<1>5. \A a \in Nat : \A u \in Ids : a \in Extent(g[u]) => a < Limit
  BY <1>3 DEF Owned
<1>6. \A a \in Nat : \A u, v \in Ids : a \in Extent(g[u]) /\ a \in Extent(g[v]) => u = v
  <2>1. \A u, v \in Ids : Before(u) = Before(v) /\ u # p /\ v # p => u = v
    OBVIOUS
  <2>2. \A u \in Ids : Before(u) \in Ids
    OBVIOUS
  <2> HIDE DEF Before
  <2> QED
    BY <1>3, <2>1, <2>2 DEF Owned
<1>7. ASSUME NEW a \in Nat, a < Limit, ~Covers(s, a)
      PROVE  \E u \in Ids : a \in Extent(g[u])
  <2>1. PICK u \in Ids : a \in Extent(h[u])
    BY <1>7 DEF Owned
  <2>2. CASE u = p
    BY <1>1, <2>1, <2>2
  <2>3. CASE u # p
    BY <1>1, <1>2, <2>1, <2>3
  <2> QED
    BY <2>2, <2>3
<1> QED
  BY <1>4, <1>5, <1>6, <1>7 DEF Owned, g
\* A request is rounded up to a multiple of the alignment, so that it is not empty.
LEMMA AlignedFacts ==
  ASSUME NEW size \in Sizes
  PROVE  Aligned(size) \in Nat \ {0} /\ size <= Aligned(size)
<1>1. size \in Nat /\ size > 0 /\ Alignment \in Nat /\ Alignment > 0
  BY AllocAssumption
<1> DEFINE k == size + Alignment - 1
           q == k \div Alignment
           r == k % Alignment
<1>2. k \in Nat /\ k >= Alignment
  BY <1>1
<1> HIDE DEF k
<1>3. q \in Int /\ k = Alignment * q + r /\ r \in 0..(Alignment - 1)
  BY <1>1, <1>2
<1> HIDE DEF q, r
<1>4. q > 0
  BY <1>1, <1>2, <1>3
<1>5. q * Alignment \in Nat \ {0}
  BY <1>1, <1>3, <1>4
<1>6. size <= q * Alignment
  <2> DEFINE m == q * Alignment
  <2>1. m \in Nat /\ k = m + r /\ r \in Int /\ r <= Alignment - 1
    BY <1>1, <1>3, <1>5
  <2>2. k = size + Alignment - 1
    BY DEF k
  <2> HIDE DEF m
  <2>3. size <= m
    BY <1>1, <2>1, <2>2
  <2> QED
    BY <2>3 DEF m
<1> QED
  BY <1>5, <1>6 DEF Aligned, k, q

\* All space up to Limit is free.
LEMMA WholeSpace ==
  LET whole == [offset |-> 0, size |-> Limit]
      none == [t \in Ids |-> Nothing]
  IN  /\ <<whole>> \in Seq(Block) /\ Len(<<whole>>) \in 1..MaxFreeBlocks
      /\ none \in [Ids -> Block]
      /\ Merged(<<whole>>) /\ Owned(<<whole>>, none)
<1> DEFINE whole == [offset |-> 0, size |-> Limit]
           none == [t \in Ids |-> Nothing]
           s == <<whole>>
<1>1. Limit \in Nat /\ Limit > 0 /\ MaxFreeBlocks \in Nat /\ MaxFreeBlocks > 0
  BY AllocAssumption
<1>2. whole \in Block /\ whole.size > 0 /\ whole.offset = 0 /\ End(whole) = Limit
  BY <1>1 DEF Block, End
<1> HIDE DEF whole
<1>3. \A a : a \in Extent(whole) <=> a \in Int /\ 0 <= a /\ a < Limit
  BY <1>2, BlockFacts
<1>4. s \in Seq(Block) /\ Len(s) = 1 /\ s[1] = whole
  BY <1>2
<1>5. none \in [Ids -> Block] /\ \A t \in Ids : \A a : a \notin Extent(none[t])
  BY NothingIsEmpty
<1> HIDE DEF s, none
<1>6. \A k \in 1..Len(s) : k = 1
  BY <1>4
<1>7. 1 \in 1..Len(s) /\ Len(s) \in 1..MaxFreeBlocks
  BY <1>1, <1>4
<1>8. Merged(s)
  BY <1>2, <1>4, <1>6 DEF Merged
<1>9. \A a : Covers(s, a) <=> a \in Int /\ 0 <= a /\ a < Limit
  BY <1>3, <1>4, <1>6, <1>7 DEF Covers
<1>10. (\A a \in Nat : Covers(s, a) <=> a < Limit) /\ Covers(s, Limit - 1)
  BY <1>1, <1>9
<1>11. Owned(s, none)
  BY <1>5, <1>10 DEF Owned
<1> QED
  BY <1>4, <1>5, <1>7, <1>8, <1>11 DEF s, none, whole

LEMMA ResetSafe ==
  ASSUME ResetAllocator
  PROVE  AllocInv'
BY WholeSpace DEF ResetAllocator, AllocInv, AllocTypeOK

LEMMA InitialSpace ==
  ASSUME Init
  PROVE  AllocInv
BY WholeSpace DEF Init, AllocInv, AllocTypeOK

LEMMA AllocSafe ==
  ASSUME AllocInv, NEW t \in Ids, NEW size \in Sizes, held[t].size = 0,
         AllocTensor(t, size)
  PROVE  /\ AllocInv'
         /\ held' = [held EXCEPT ![t] = held'[t]] /\ held'[t].size > 0
<1> DEFINE n == Aligned(size)
<1>1. n \in Nat \ {0}
  BY AlignedFacts
<1> HIDE DEF n
<1>2. /\ free_blocks \in Seq(Block) /\ Len(free_blocks) \in 1..MaxFreeBlocks
      /\ max_size \in Nat /\ held \in [Ids -> Block]
      /\ Merged(free_blocks) /\ Owned(free_blocks, held)
  BY DEF AllocInv, AllocTypeOK
<1>3. PICK k \in Blocks :
        /\ free_blocks[k].size >= n /\ free_blocks[k].offset + n < Limit
        /\ Take(k, n)
        /\ held' = [held EXCEPT ![t] = [offset |-> free_blocks[k].offset, size |-> n]]
        /\ max_size' = IF free_blocks[k].offset + n > max_size
                       THEN free_blocks[k].offset + n ELSE max_size
  BY DEF AllocTensor, n
<1> DEFINE X == [offset |-> free_blocks[k].offset, size |-> n]
<1>4. k \in 1..Len(free_blocks)
  BY DEF Blocks
<1>5. free_blocks[k] \in Block /\ free_blocks[k].offset \in Nat /\ free_blocks[k].size \in Nat
  <2>1. free_blocks[k] \in Block
    BY <1>2, <1>4
  <2> QED
    BY <2>1, BlockFacts
<1>6. free_blocks' = TakenFrom(free_blocks, k, n)
  BY <1>3 DEF Take, TakenFrom
<1>7. /\ free_blocks' \in Seq(Block) /\ Merged(free_blocks')
      /\ Len(free_blocks') <= Len(free_blocks)
      /\ \A a : Covers(free_blocks', a) <=> Covers(free_blocks, a) /\ a \notin Extent(X)
  BY <1>1, <1>2, <1>3, <1>4, <1>6, TakenCovers
<1>8. X \in Block /\ X.size = n /\ X.offset = free_blocks[k].offset
  BY <1>1, <1>5 DEF Block
<1>9. held' = [held EXCEPT ![t] = X]
  BY <1>3
<1> HIDE DEF X
<1>10. \A a : a \in Extent(X) => Covers(free_blocks, a)
  <2>1. \A a : a \in Extent(X) => a \in Extent(free_blocks[k])
    BY <1>1, <1>3, <1>5, <1>8, BlockFacts
  <2> QED
    BY <1>4, <2>1 DEF Covers
<1>11. Limit - 1 \notin Extent(X)
  <2>1. End(X) = free_blocks[k].offset + n
    BY <1>8, BlockFacts
  <2>2. End(X) < Limit /\ End(X) \in Nat /\ Limit \in Nat
    BY <1>3, <1>8, <2>1, BlockFacts, AllocAssumption
  <2>3. ~(Limit - 1 < End(X))
    BY <2>2
  <2> QED
    BY <1>8, <2>3, BlockFacts
<1>12. Owned(free_blocks', held')
  BY <1>2, <1>7, <1>8, <1>9, <1>10, <1>11, Gave
<1>13. held' \in [Ids -> Block] /\ held'[t] = X
  BY <1>2, <1>8, <1>9
<1>14. max_size' \in Nat
  BY <1>1, <1>2, <1>3, <1>5
<1>15. Len(free_blocks') \in 1..MaxFreeBlocks
  <2>1. Len(free_blocks') > 0
    <3>1. \E l \in 1..Len(free_blocks') : TRUE
      BY <1>12 DEF Owned, Covers
    <3> QED
      BY <1>7, <3>1
  <2> QED
    BY <1>2, <1>7, <2>1, AllocAssumption
<1> QED
  BY <1>1, <1>7, <1>8, <1>9, <1>12, <1>13, <1>14, <1>15 DEF AllocInv, AllocTypeOK

LEMMA FreeBlockCovers ==
  ASSUME free_blocks \in Seq(Block), Merged(free_blocks),
         Len(free_blocks) \in 1..MaxFreeBlocks,
         NEW b \in Block, b.size > 0, Outside(free_blocks, b), FreeBlock(b)
  PROVE  /\ free_blocks' \in Seq(Block) /\ Merged(free_blocks')
         /\ Len(free_blocks') \in 1..MaxFreeBlocks
         /\ \A a : Covers(free_blocks', a) <=> Covers(free_blocks, a) \/ a \in Extent(b)
<1>1. MaxFreeBlocks \in Nat /\ Len(free_blocks) \in Nat
  BY AllocAssumption
<1>2. CASE (\A k \in Blocks : ~Touches(k, b)) /\ InsertBlock(b)
  <2>1. \A l \in 1..Len(free_blocks) :
          End(free_blocks[l]) # b.offset /\ End(b) # free_blocks[l].offset
    BY <1>2 DEF Touches, Blocks
  <2>2. PICK k \in 1..(Len(free_blocks) + 1) :
          /\ \A l \in 1..(k - 1) : free_blocks[l].offset < b.offset
          /\ k \in Blocks => free_blocks[k].offset >= b.offset
          /\ free_blocks' = Inserted(free_blocks, k, b)
    BY <1>2 DEF InsertBlock
  <2>3. k \in 1..Len(free_blocks) => free_blocks[k].offset >= b.offset
    BY <2>2 DEF Blocks
  <2>4. /\ Merged(free_blocks')
        /\ \A a : Covers(free_blocks', a) <=> Covers(free_blocks, a) \/ a \in Extent(b)
    BY <2>1, <2>2, <2>3, InsertedCovers
  <2>5. free_blocks' \in Seq(Block) /\ Len(free_blocks') = Len(free_blocks) + 1
    BY <2>2, InsertedFacts
  <2>6. Len(free_blocks) < MaxFreeBlocks
    BY <1>2 DEF InsertBlock
  <2>7. Len(free_blocks') \in 1..MaxFreeBlocks
    BY <1>1, <2>5, <2>6
  <2> QED
    BY <2>4, <2>5, <2>7
<1>3. ASSUME NEW k \in Blocks, Touches(k, b), \A l \in 1..(k - 1) : ~Touches(l, b),
             IF End(free_blocks[k]) = b.offset THEN GrowUp(k, b) ELSE GrowDown(k, b)
      PROVE  /\ free_blocks' \in Seq(Block) /\ Merged(free_blocks')
             /\ Len(free_blocks') <= Len(free_blocks) /\ Len(free_blocks') > 0
             /\ \A a : Covers(free_blocks', a) <=> Covers(free_blocks, a) \/ a \in Extent(b)
  <2>1. k \in 1..Len(free_blocks)
    BY DEF Blocks
  <2>2. CASE End(free_blocks[k]) = b.offset
    <3>1. free_blocks' = GrownUp(free_blocks, k, b)
      BY <1>3, <2>2 DEF GrowUp, GrownUp
    <3> QED
      BY <2>1, <2>2, <3>1, GrownUpCovers
  <2>3. CASE End(free_blocks[k]) # b.offset
    <3>1. free_blocks' = GrownDown(free_blocks, k, b)
      BY <1>3, <2>3 DEF GrowDown, GrownDown
    <3>2. End(b) = free_blocks[k].offset
      BY <1>3, <2>3 DEF Touches
    <3>3. \A l \in 1..(k - 1) : End(free_blocks[l]) # b.offset
      BY <1>3 DEF Touches
    <3>4. /\ free_blocks' \in Seq(Block) /\ Merged(free_blocks')
          /\ Len(free_blocks') = Len(free_blocks)
          /\ \A a : Covers(free_blocks', a) <=> Covers(free_blocks, a) \/ a \in Extent(b)
      BY <2>1, <3>1, <3>2, <3>3, GrownDownCovers
    <3> QED
      BY <1>1, <2>1, <3>4
  <2> QED
    BY <2>2, <2>3
<1>4. CASE \E k \in Blocks :
             /\ Touches(k, b) /\ \A l \in 1..(k - 1) : ~Touches(l, b)
             /\ IF End(free_blocks[k]) = b.offset THEN GrowUp(k, b) ELSE GrowDown(k, b)
  <2>1. /\ free_blocks' \in Seq(Block) /\ Merged(free_blocks')
        /\ Len(free_blocks') <= Len(free_blocks) /\ Len(free_blocks') > 0
        /\ \A a : Covers(free_blocks', a) <=> Covers(free_blocks, a) \/ a \in Extent(b)
    BY <1>3, <1>4
  <2>2. Len(free_blocks') \in 1..MaxFreeBlocks
    BY <1>1, <2>1
  <2> QED
    BY <2>1, <2>2
<1> QED
  BY <1>2, <1>4 DEF FreeBlock

LEMMA FreeSafe ==
  ASSUME AllocInv, NEW t \in Ids, held[t].size > 0, FreeTensor(t)
  PROVE  AllocInv'
<1>1. /\ free_blocks \in Seq(Block) /\ Len(free_blocks) \in 1..MaxFreeBlocks
      /\ max_size \in Nat /\ held \in [Ids -> Block]
      /\ Merged(free_blocks) /\ Owned(free_blocks, held)
  BY DEF AllocInv, AllocTypeOK
<1>2. FreeBlock(held[t]) /\ held' = [held EXCEPT ![t] = Nothing] /\ max_size' = max_size
  BY DEF FreeTensor
<1>3. held[t] \in Block
  BY <1>1
<1>4. Outside(free_blocks, held[t])
  BY <1>1 DEF Outside, Owned, Covers
<1>5. /\ free_blocks' \in Seq(Block) /\ Merged(free_blocks')
      /\ Len(free_blocks') \in 1..MaxFreeBlocks
      /\ \A a : Covers(free_blocks', a) <=> Covers(free_blocks, a) \/ a \in Extent(held[t])
  BY <1>1, <1>2, <1>3, <1>4, FreeBlockCovers
<1>6. Owned(free_blocks', held')
  BY <1>1, <1>2, <1>5, GaveBack
<1>7. held' \in [Ids -> Block]
  BY <1>1, <1>2, NothingIsEmpty
<1> QED
  BY <1>1, <1>2, <1>5, <1>6, <1>7 DEF AllocInv, AllocTypeOK

\* SpaceIsExact says the same in other words.
LEMMA ExactSpace ==
  ASSUME AllocInv
  PROVE  SpaceIsExact
<1>1. Limit \in Nat
  BY AllocAssumption
<1>2. BlocksAreMerged
  BY DEF AllocInv, Merged, BlocksAreMerged, Blocks
<1>3. ASSUME NEW a \in 0..(Limit - 1)
      PROVE  \/ /\ \E k \in Blocks : a \in Extent(free_blocks[k])
                /\ \A t \in Ids : a \notin Extent(held[t])
             \/ /\ \A k \in Blocks : a \notin Extent(free_blocks[k])
                /\ \E t \in Ids : /\ a \in Extent(held[t])
                                  /\ \A u \in Ids \ {t} : a \notin Extent(held[u])
  <2>1. a \in Nat /\ a < Limit
    BY <1>1
  <2>2. Covers(free_blocks, a) <=> \E k \in Blocks : a \in Extent(free_blocks[k])
    BY DEF Covers, Blocks
  <2>3. CASE Covers(free_blocks, a)
    BY <2>1, <2>2, <2>3 DEF AllocInv, Owned
  <2>4. CASE ~Covers(free_blocks, a)
    <3>1. PICK t \in Ids : a \in Extent(held[t])
      BY <2>1, <2>4 DEF AllocInv, Owned
    <3>2. \A u \in Ids \ {t} : a \notin Extent(held[u])
      BY <2>1, <3>1 DEF AllocInv, Owned
    <3> QED
      BY <2>2, <2>4, <3>1, <3>2
  <2> QED
    BY <2>3, <2>4
<1> QED
  BY <1>2, <1>3 DEF SpaceIsExact, Partition

\* However space is asked for and given back, what is free and what is held are exact:
\* the allocator alone, whatever uses it.
THEOREM AllocatorExact == Spec => []SpaceIsExact
<1>1. Init => AllocInv
  <2> SUFFICES ASSUME Init PROVE AllocInv
    OBVIOUS
  <2> QED
    BY InitialSpace
<1>2. AllocInv /\ [Next]_allocVars => AllocInv'
  <2> SUFFICES ASSUME AllocInv, [Next]_allocVars PROVE AllocInv'
    OBVIOUS
  <2>1. ASSUME NEW t \in Ids, NEW size \in Sizes, held[t].size = 0, AllocTensor(t, size)
        PROVE  AllocInv'
    BY <2>1, AllocSafe
  <2>2. ASSUME NEW t \in Ids, held[t].size > 0, FreeTensor(t) PROVE AllocInv'
    BY <2>2, FreeSafe
  <2>3. CASE ResetAllocator
    BY <2>3, ResetSafe
  <2>4. CASE UNCHANGED allocVars
    BY <2>4 DEF AllocInv, AllocTypeOK, allocVars
  <2> QED
    BY <2>1, <2>2, <2>3, <2>4 DEF Next
<1>3. AllocInv => SpaceIsExact
  BY ExactSpace
<1> QED
  BY <1>1, <1>2, <1>3, PTL DEF Spec
-----------------------------------------------------------------------------
(* The walk over a graph: the inductive invariant                          *)

IsGraph(g) == \E n \in 1..Most : WellFormed(g, n)

\* The graphs at hand and to come are well-formed.
Known ==
  /\ IsGraph(graph)
  /\ session \in Seq({session[k] : k \in DOMAIN session}) /\ session # <<>>
  /\ \A k \in DOMAIN session : IsGraph(session[k])

Entry == [offset : Nat, size_max : Nat]
NodeEntry == [dst : Entry, src : Seq(Entry)]

PlanTyped ==
  /\ leaf_allocs \in Seq(Entry)
  /\ node_allocs \in Seq(NodeEntry)

\* Where the walk is
Walk ==
  /\ pc = "leafs" => i \in 1..(graph.n_leafs + 1)
  /\ pc \in {"node", "run"} => i \in (graph.n_leafs + 1)..(Count(graph) + 1)
  /\ pc = "parents" => /\ i \in (graph.n_leafs + 1)..Count(graph)
                       /\ j \in 1..(Len(graph.src[i]) + 1)

InPlanning == pc \in {"leafs", "node", "parents"}
Updating == pc \in {"node", "parents"}

\* The space that is held is that of allocated tensors: none that the walk has not
\* reached yet, and no view.
SpaceMatches ==
  /\ \A t \in Ids : allocated[t] <=> held[t].size > 0
  /\ InPlanning => \A t \in Ids : allocated[t] =>
       t \in Tensors /\ ~IsView(graph, t) /\ (t < i \/ (t = i /\ pc = "parents"))

\* What is still to be counted down of the places where u is read
Remaining(u) ==
  {r \in Reads(u) : r[1] > i \/ (r[1] = i /\ (pc = "node" \/ r[2] >= j))}

\* The views of u that have not been read for the last time
Alive(u) == {v \in Views(u) : n_children[v] > 0 \/ Reads(v) = {}}

Counted ==
  Updating => \A u \in Ids : /\ n_children[u] = Cardinality(Remaining(u))
                             /\ n_views[u] = Cardinality(Alive(u))

\* Whoever still has space is an output, is read or viewed later, or is never read.
Needed ==
  Updating => \A t \in Ids : allocated[t] /\ ~graph.output[t] =>
    n_children[t] > 0 \/ n_views[t] > 0 \/ Reads(t) = {}

GraphInv ==
  /\ GraphTypeOK /\ AllocInv
  /\ Known /\ PlanTyped /\ Walk /\ SpaceMatches /\ Counted /\ Needed
-----------------------------------------------------------------------------
(* Graphs                                                                  *)

\* What a graph consists of
LEMMA GraphFacts ==
  ASSUME NEW g, IsGraph(g)
  PROVE  /\ Count(g) \in 1..Most /\ g.n_leafs \in 0..Count(g)
         /\ \A t \in 1..Count(g) :
              /\ g.size[t] \in Sizes /\ g.view_src[t] \in 0..Count(g)
              /\ g.inplace[t] \in BOOLEAN /\ g.output[t] \in BOOLEAN
              /\ g.src[t] \in Seq(1..Count(g)) /\ Len(g.src[t]) <= MaxSrc
              /\ g.src[t] = <<>> <=> t <= g.n_leafs
              /\ \A l \in 1..Len(g.src[t]) : g.src[t][l] \in 1..Count(g) /\ g.src[t][l] < t
              /\ IsView(g, t) => t > g.n_leafs /\ g.view_src[t] = Root(g, g.src[t][1])
<1>1. PICK n \in 1..Most : WellFormed(g, n)
  BY DEF IsGraph
<1>2. /\ g.n_leafs \in 0..n /\ g.size \in [1..n -> Sizes] /\ g.src \in [1..n -> Seq(1..n)]
      /\ g.view_src \in [1..n -> 0..n] /\ g.inplace \in [1..n -> BOOLEAN]
      /\ g.output \in [1..n -> BOOLEAN]
  BY <1>1 DEF WellFormed, Graph
<1>3. Most \in Nat
  BY SessionsOK
<1>4. Count(g) = n
  <2>1. g.size \in Seq(Sizes) /\ Len(g.size) = n
    BY <1>2, <1>3
  <2> QED
    BY <2>1 DEF Count
<1>5. \A t \in 1..n :
        /\ Len(g.src[t]) <= MaxSrc
        /\ g.src[t] = <<>> <=> t <= g.n_leafs
        /\ \A l \in 1..Len(g.src[t]) : g.src[t][l] < t
        /\ IsView(g, t) => t > g.n_leafs /\ g.view_src[t] = Root(g, g.src[t][1])
  BY <1>1 DEF WellFormed
<1>6. ASSUME NEW t \in 1..n
      PROVE  /\ g.size[t] \in Sizes /\ g.view_src[t] \in 0..n
             /\ g.inplace[t] \in BOOLEAN /\ g.output[t] \in BOOLEAN
             /\ g.src[t] \in Seq(1..n)
             /\ \A l \in 1..Len(g.src[t]) : g.src[t][l] \in 1..n
  <2>1. g.src[t] \in Seq(1..n)
    BY <1>2
  <2>2. \A l \in 1..Len(g.src[t]) : g.src[t][l] \in 1..n
    BY <2>1
  <2>3. g.inplace[t] \in BOOLEAN /\ g.output[t] \in BOOLEAN
    BY <1>2
  <2>4. g.size[t] \in Sizes /\ g.view_src[t] \in 0..n
    BY <1>2
  <2> QED
    BY <2>1, <2>2, <2>3, <2>4
<1> QED
  BY <1>2, <1>4, <1>5, <1>6

\* What a view shows comes before it and is itself no view.
LEMMA ViewsShowRoots ==
  ASSUME NEW g, IsGraph(g), NEW t \in 1..Count(g), IsView(g, t)
  PROVE  /\ g.view_src[t] \in 1..Count(g) /\ g.view_src[t] < t
         /\ ~IsView(g, g.view_src[t])
<1> DEFINE Wrong == {v \in 1..Count(g) : /\ IsView(g, v)
                                         /\ \/ ~(g.view_src[v] < v)
                                            \/ IsView(g, g.view_src[v])}
<1>1. Count(g) \in Nat
  BY GraphFacts, SessionsOK
<1>2. Wrong = {}
  <2> SUFFICES ASSUME Wrong # {} PROVE FALSE
    OBVIOUS
  <2>1. Wrong \in SUBSET Nat
    BY <1>1
  <2>2. PICK m \in Wrong : \A v \in Wrong : m <= v
    <3> HIDE DEF Wrong
    <3> QED
      BY <2>1, LeastNumber
  <2>3. /\ m \in 1..Count(g) /\ IsView(g, m) /\ m > g.n_leafs
        /\ g.view_src[m] = Root(g, g.src[m][1])
    BY GraphFacts
  <2>4. /\ g.src[m] \in Seq(1..Count(g)) /\ g.src[m] # <<>> /\ g.n_leafs \in Nat
        /\ \A l \in 1..Len(g.src[m]) : g.src[m][l] \in 1..Count(g) /\ g.src[m][l] < m
    <3>1. g.n_leafs \in Nat /\ ~(m <= g.n_leafs)
      BY <1>1, <2>3, GraphFacts
    <3> QED
      BY <2>3, <3>1, GraphFacts
  <2>5. 1 \in 1..Len(g.src[m])
    BY <2>4
  <2> DEFINE p == g.src[m][1]
  <2>6. p \in 1..Count(g) /\ p < m
    BY <2>4, <2>5
  <2>7. CASE IsView(g, p)
    <3>1. p \notin Wrong
      BY <1>1, <2>1, <2>2, <2>6
    <3>2. g.view_src[p] < p /\ ~IsView(g, g.view_src[p])
      BY <2>6, <2>7, <3>1
    <3>3. g.view_src[m] = g.view_src[p] /\ g.view_src[p] \in Int
      BY <1>1, <2>3, <2>6, <2>7, GraphFacts DEF Root
    <3>4. g.view_src[m] < m
      BY <1>1, <2>3, <2>6, <3>2, <3>3
    <3> QED
      BY <3>2, <3>3, <3>4
  <2>8. CASE ~IsView(g, p)
    BY <2>3, <2>6, <2>8 DEF Root
  <2> QED
    BY <2>7, <2>8
<1>3. g.view_src[t] < t /\ ~IsView(g, g.view_src[t])
  BY <1>2
<1>4. g.view_src[t] \in 0..Count(g) /\ g.view_src[t] # 0
  BY GraphFacts DEF IsView
<1> QED
  BY <1>1, <1>3, <1>4

\* Where a tensor is read, a node reads it that comes after it.
LEMMA ReadsFacts ==
  ASSUME IsGraph(graph), NEW u
  PROVE  /\ IsFiniteSet(Reads(u))
         /\ \A r \in Reads(u) :
              /\ r[1] \in Tensors /\ r[1] > graph.n_leafs
              /\ r[2] \in 1..Len(graph.src[r[1]]) /\ graph.src[r[1]][r[2]] = u
              /\ u \in Tensors /\ u < r[1]
              /\ r = <<r[1], r[2]>>
         /\ \A t \in Tensors : \A l \in 1..Len(graph.src[t]) :
              graph.src[t][l] = u => <<t, l>> \in Reads(u)
<1>1. /\ Count(graph) \in 1..Most /\ graph.n_leafs \in 0..Count(graph)
      /\ Most \in Nat /\ MaxSrc \in Nat
  BY GraphFacts, SessionsOK
<1>2. IsFiniteSet(Reads(u))
  <2>1. IsFiniteSet(Tensors) /\ IsFiniteSet(1..MaxSrc)
    BY <1>1, FS_Interval DEF Tensors
  <2>2. IsFiniteSet(Tensors \X (1..MaxSrc))
    BY <2>1, FS_Product
  <2> QED
    BY <2>2, FS_Subset DEF Reads
<1>3. ASSUME NEW r \in Reads(u)
      PROVE  /\ r[1] \in Tensors /\ r[1] > graph.n_leafs
             /\ r[2] \in 1..Len(graph.src[r[1]]) /\ graph.src[r[1]][r[2]] = u
             /\ u \in Tensors /\ u < r[1]
             /\ r = <<r[1], r[2]>>
  <2>1. /\ r \in Tensors \X (1..MaxSrc) /\ r[2] <= Len(graph.src[r[1]])
        /\ graph.src[r[1]][r[2]] = u
    BY DEF Reads
  <2>2. r[1] \in Tensors /\ r[2] \in 1..MaxSrc /\ r = <<r[1], r[2]>>
    BY <2>1
  <2>3. /\ graph.src[r[1]] \in Seq(1..Count(graph))
        /\ graph.src[r[1]] = <<>> <=> r[1] <= graph.n_leafs
        /\ \A l \in 1..Len(graph.src[r[1]]) :
             graph.src[r[1]][l] \in 1..Count(graph) /\ graph.src[r[1]][l] < r[1]
    BY <2>2, GraphFacts DEF Tensors
  <2>4. r[2] \in 1..Len(graph.src[r[1]])
    BY <1>1, <2>1, <2>2, <2>3
  <2>5. graph.src[r[1]] # <<>>
    BY <2>4
  <2>6. ~(r[1] <= graph.n_leafs) /\ r[1] \in Int /\ graph.n_leafs \in Int
    BY <1>1, <2>2, <2>3, <2>5 DEF Tensors
  <2>7. r[1] > graph.n_leafs
    BY <2>6
  <2> QED
    BY <2>1, <2>2, <2>3, <2>4, <2>7 DEF Tensors
<1>4. ASSUME NEW t \in Tensors, NEW l \in 1..Len(graph.src[t]), graph.src[t][l] = u
      PROVE  <<t, l>> \in Reads(u)
  <2>1. graph.src[t] \in Seq(1..Count(graph)) /\ Len(graph.src[t]) <= MaxSrc
    BY GraphFacts DEF Tensors
  <2>2. Len(graph.src[t]) \in Nat
    BY <2>1
  <2>3. l \in 1..MaxSrc /\ l <= Len(graph.src[t])
    BY <1>1, <2>1, <2>2
  <2>4. <<t, l>> \in Tensors \X (1..MaxSrc) /\ <<t, l>>[1] = t /\ <<t, l>>[2] = l
    BY <2>3
  <2> QED
    BY <1>4, <2>3, <2>4 DEF Reads
<1> QED
  BY <1>2, <1>3, <1>4

\* The sets that are counted are finite.
LEMMA CountedFinite ==
  ASSUME IsGraph(graph), NEW u
  PROVE  /\ IsFiniteSet(Remaining(u)) /\ Remaining(u) \subseteq Reads(u)
         /\ IsFiniteSet(Views(u)) /\ IsFiniteSet(Alive(u))
         /\ Cardinality(Remaining(u)) \in Nat /\ Cardinality(Alive(u)) \in Nat
         /\ Cardinality(Reads(u)) \in Nat /\ Cardinality(Views(u)) \in Nat
<1>1. Remaining(u) \subseteq Reads(u) /\ IsFiniteSet(Reads(u))
  BY ReadsFacts DEF Remaining
<1>2. IsFiniteSet(Tensors)
  <2>1. Count(graph) \in 1..Most /\ Most \in Nat
    BY GraphFacts, SessionsOK
  <2> QED
    BY <2>1, FS_Interval DEF Tensors
<1>3. IsFiniteSet(Views(u)) /\ Alive(u) \subseteq Views(u)
  BY <1>2, FS_Subset DEF Views, Alive
<1>4. IsFiniteSet(Remaining(u)) /\ IsFiniteSet(Alive(u))
  BY <1>1, <1>3, FS_Subset
<1> QED
  BY <1>1, <1>3, <1>4, FS_CardinalityType

\* The walk is over tensors that have a place in every table.
LEMMA WalkFacts ==
  ASSUME GraphInv
  PROVE  /\ Most \in Nat /\ Ids = 1..Most
         /\ Count(graph) \in 1..Most /\ graph.n_leafs \in 0..Count(graph)
         /\ Tensors \subseteq Ids /\ Tensors = 1..Count(graph)
         /\ IsGraph(graph)
         /\ i \in Nat /\ j \in Nat
         /\ {n_children, n_views, offset, address} \subseteq [Ids -> Nat]
         /\ allocated \in [Ids -> BOOLEAN] /\ held \in [Ids -> Block]
<1>1. IsGraph(graph) /\ GraphTypeOK /\ AllocTypeOK
  BY DEF GraphInv, Known, GraphTypeOK
<1>2. Most \in Nat /\ Ids = 1..Most
  BY SessionsOK
<1>3. Count(graph) \in 1..Most /\ graph.n_leafs \in 0..Count(graph)
  BY <1>1, GraphFacts
<1>4. Tensors = 1..Count(graph) /\ Tensors \subseteq Ids
  BY <1>2, <1>3 DEF Tensors
<1>5. i \in Nat
  BY <1>1, <1>2 DEF GraphTypeOK
<1>6. /\ {n_children, n_views, offset, address} \subseteq [Ids -> Nat] /\ j \in Nat
      /\ allocated \in [Ids -> BOOLEAN] /\ held \in [Ids -> Block]
  BY <1>1 DEF GraphTypeOK, AllocTypeOK
<1> QED
  BY <1>1, <1>2, <1>3, <1>4, <1>5, <1>6
-----------------------------------------------------------------------------
(* The initial states, and the steps outside the walk                      *)

LEMMA AllocKept ==
  ASSUME AllocInv, UNCHANGED allocVars
  PROVE  AllocInv'
BY DEF AllocInv, AllocTypeOK, allocVars

\* Graphs and plans are well-formed as long as they stay the same.
LEMMA StaticKept ==
  ASSUME GraphInv, UNCHANGED <<session, graph, node_allocs, leaf_allocs>>
  PROVE  Known' /\ PlanTyped'
BY DEF GraphInv, Known, PlanTyped

LEMMA SessionKnown ==
  ASSUME NEW s \in Sessions
  PROVE  /\ s \in Seq({s[k] : k \in DOMAIN s}) /\ s # <<>>
         /\ \A k \in DOMAIN s : IsGraph(s[k])
<1>1. /\ s \in Seq({s[k] : k \in DOMAIN s}) /\ s # <<>>
      /\ \A k \in 1..Len(s) : \E n \in 1..Most : WellFormed(s[k], n)
  BY SessionsOK
<1>2. DOMAIN s = 1..Len(s)
  BY <1>1
<1> QED
  BY <1>1, <1>2 DEF IsGraph

LEMMA GraphInitially ==
  ASSUME GraphInit
  PROVE  GraphInv
<1>1. PICK s \in Sessions : session = s /\ graph = s[1]
  BY DEF GraphInit
<1>2. /\ pc = "alloc" /\ i = 0 /\ j = 0 /\ Init
      /\ n_children = Unread /\ n_views = Unread /\ offset = Unread /\ address = Unread
      /\ allocated = [t \in Ids |-> FALSE]
      /\ node_allocs = <<>> /\ leaf_allocs = <<>> /\ buffer_size = 0
      /\ memory = [a \in 0..(Limit - 1) |-> 0]
  BY DEF GraphInit
<1>3. AllocInv
  BY <1>2, InitialSpace
<1>4. Known
  <2>1. /\ s \in Seq({s[k] : k \in DOMAIN s}) /\ s # <<>>
        /\ \A k \in DOMAIN s : IsGraph(s[k])
    BY SessionKnown
  <2>2. 1 \in DOMAIN s
    BY <2>1
  <2> QED
    BY <1>1, <2>1, <2>2 DEF Known
<1>5. PlanTyped
  BY <1>2 DEF PlanTyped
<1>6. Walk /\ Counted /\ Needed
  BY <1>2 DEF Walk, Counted, Needed, Updating
<1>7. SpaceMatches
  <2>1. held = [t \in Ids |-> Nothing]
    BY <1>2 DEF Init
  <2>2. allocated = [t \in Ids |-> FALSE]
    BY <1>2
  <2>3. \A t \in Ids : held[t].size = 0
    BY <2>1, NothingIsEmpty
  <2>4. \A t \in Ids : ~allocated[t] /\ ~(held[t].size > 0)
    <3>1. \A t \in Ids : ~allocated[t]
      BY <2>2
    <3>2. ASSUME NEW t \in Ids PROVE ~(held[t].size > 0)
      <4>1. held[t].size = 0
        BY <2>3
      <4>2. ~(0 > 0)
        OBVIOUS
      <4> QED
        BY <4>1, <4>2
    <3> QED
      BY <3>1, <3>2
  <2> QED
    BY <1>2, <2>4 DEF SpaceMatches, InPlanning
<1>8. GraphTypeOK
  <2>1. {n_children, n_views, offset, address} \subseteq [Ids -> Nat]
    BY <1>2 DEF Unread
  <2>2. i \in 0..(Most + 1) /\ j \in Nat
    BY <1>2, SessionsOK
  <2>3. allocated \in [Ids -> BOOLEAN] /\ memory \in [0..(Limit - 1) -> {0} \union Ids]
    BY <1>2
  <2> QED
    BY <1>2, <1>3, <2>1, <2>2, <2>3 DEF GraphTypeOK, AllocInv
<1> QED
  BY <1>3, <1>4, <1>5, <1>6, <1>7, <1>8 DEF GraphInv

LEMMA StartReserveSafe ==
  ASSUME GraphInv, StartReserve
  PROVE  GraphInv'
<1>1. /\ ResetAllocator
      /\ n_children' = Unread /\ n_views' = Unread /\ offset' = Unread
      /\ allocated' = [t \in Ids |-> FALSE]
      /\ pc' = "leafs" /\ i' = 1 /\ j' = j /\ session' = session /\ graph' = graph
      /\ node_allocs' = node_allocs /\ leaf_allocs' = leaf_allocs
      /\ buffer_size' = buffer_size /\ address' = address /\ memory' = memory
  BY DEF StartReserve, planVars, runVars
<1>2. AllocInv'
  BY <1>1, ResetSafe
<1>3. Known' /\ PlanTyped'
  BY <1>1, StaticKept
<1>4. Counted' /\ Needed'
  BY <1>1 DEF Counted, Needed, Updating
<1>5. Walk'
  <2>1. 1 \in 1..(graph.n_leafs + 1)
    BY WalkFacts
  <2> QED
    BY <1>1, <2>1 DEF Walk
<1>6. SpaceMatches'
  <2>1. held' = [t \in Ids |-> Nothing]
    BY <1>1 DEF ResetAllocator
  <2>2. \A t \in Ids : ~allocated'[t] /\ ~(held'[t].size > 0)
    BY <1>1, <2>1, NothingIsEmpty
  <2> QED
    BY <2>2 DEF SpaceMatches
<1>7. GraphTypeOK'
  <2>1. {n_children, n_views, offset, address}' \subseteq [Ids -> Nat]
    BY <1>1, WalkFacts DEF Unread
  <2>2. i' \in 0..(Most + 1) /\ j' \in Nat
    BY <1>1, WalkFacts
  <2>3. allocated' \in [Ids -> BOOLEAN]
    BY <1>1
  <2> QED
    BY <1>1, <1>2, <2>1, <2>2, <2>3 DEF GraphInv, GraphTypeOK, AllocInv
<1> QED
  BY <1>2, <1>3, <1>4, <1>5, <1>6, <1>7 DEF GraphInv

\* The plan that is kept has an offset and a size for every tensor.
LEMMA PlannedTyped ==
  ASSUME GraphInv, NEW t \in Tensors
  PROVE  Planned(t) \in Entry
<1>1. t \in Ids /\ t \in 1..Count(graph) /\ offset \in [Ids -> Nat]
  BY WalkFacts
<1>2. graph.size[t] \in Nat
  BY <1>1, WalkFacts, GraphFacts, AllocAssumption
<1>3. Room(graph, t) \in Nat
  BY <1>2 DEF Room
<1> QED
  BY <1>1, <1>3 DEF Planned, Entry

LEMMA KeepPlanSafe ==
  ASSUME GraphInv, KeepPlan
  PROVE  GraphInv'
<1>1. /\ leaf_allocs' = [k \in 1..graph.n_leafs |-> Planned(k)]
      /\ node_allocs' = [k \in 1..NNodes(graph) |->
           [dst |-> Planned(Node(k)),
            src |-> [l \in 1..Len(graph.src[Node(k)]) |-> Planned(graph.src[Node(k)][l])]]]
      /\ buffer_size' = IF max_size > buffer_size THEN max_size ELSE buffer_size
      /\ pc' = "alloc" /\ session' = session /\ graph' = graph /\ i' = i /\ j' = j
      /\ UNCHANGED allocVars
      /\ n_children' = n_children /\ n_views' = n_views /\ allocated' = allocated
      /\ offset' = offset /\ address' = address /\ memory' = memory
  BY DEF KeepPlan, hashVars, runVars
<1>2. Count(graph) \in Nat /\ graph.n_leafs \in Nat /\ graph.n_leafs <= Count(graph)
  BY WalkFacts
<1>3. leaf_allocs' \in Seq(Entry)
  <2>1. \A k \in 1..graph.n_leafs : k \in Tensors
    BY <1>2 DEF Tensors
  <2>2. \A k \in 1..graph.n_leafs : Planned(k) \in Entry
    BY <2>1, PlannedTyped
  <2>3. leaf_allocs' \in [1..graph.n_leafs -> Entry]
    BY <1>1, <2>2
  <2> QED
    BY <1>2, <2>3
<1>4. node_allocs' \in Seq(NodeEntry)
  <2>1. NNodes(graph) \in Nat
    BY <1>2 DEF NNodes
  <2> DEFINE Plan(k) == [dst |-> Planned(Node(k)),
               src |-> [l \in 1..Len(graph.src[Node(k)]) |-> Planned(graph.src[Node(k)][l])]]
  <2>2. ASSUME NEW k \in 1..NNodes(graph)
        PROVE  Plan(k) \in NodeEntry
    <3> DEFINE t == Node(k)
    <3>1. t \in Tensors
      BY <1>2 DEF Node, Tensors, NNodes
    <3> HIDE DEF t
    <3>2. /\ graph.src[t] \in Seq(1..Count(graph))
          /\ \A l \in 1..Len(graph.src[t]) : graph.src[t][l] \in Tensors
      BY <3>1, WalkFacts, GraphFacts
    <3>3. \A l \in 1..Len(graph.src[t]) : Planned(graph.src[t][l]) \in Entry
      BY <3>2, PlannedTyped
    <3>4. [l \in 1..Len(graph.src[t]) |-> Planned(graph.src[t][l])]
            \in [1..Len(graph.src[t]) -> Entry]
      BY <3>3
    <3>5. Len(graph.src[t]) \in Nat
      BY <3>2
    <3>6. [l \in 1..Len(graph.src[t]) |-> Planned(graph.src[t][l])] \in Seq(Entry)
      BY <3>4, <3>5
    <3>7. Planned(t) \in Entry
      BY <3>1, PlannedTyped
    <3> QED
      BY <3>6, <3>7, Zenon DEF t, NodeEntry
  <2> HIDE DEF Plan
  <2>3. [k \in 1..NNodes(graph) |-> Plan(k)]
          \in [1..NNodes(graph) -> NodeEntry]
    BY <2>2
  <2>4. node_allocs' = [k \in 1..NNodes(graph) |-> Plan(k)]
    BY <1>1, Zenon DEF Plan
  <2> QED
    BY <2>1, <2>3, <2>4
<1>5. Known' /\ PlanTyped'
  BY <1>1, <1>3, <1>4 DEF GraphInv, Known, PlanTyped
<1>6. AllocInv'
  BY <1>1, AllocKept DEF GraphInv
<1>7. Walk' /\ Counted' /\ Needed'
  BY <1>1 DEF Walk, Counted, Needed, Updating
<1>8. SpaceMatches'
  <2>1. held' = held
    BY <1>1 DEF allocVars
  <2> QED
    BY <1>1, <2>1 DEF GraphInv, SpaceMatches, InPlanning
<1>9. GraphTypeOK'
  <2>1. buffer_size' \in Nat
    BY <1>1 DEF GraphInv, GraphTypeOK, AllocTypeOK
  <2> QED
    BY <1>1, <1>6, <2>1 DEF GraphInv, GraphTypeOK, AllocInv
<1> QED
  BY <1>5, <1>6, <1>7, <1>8, <1>9 DEF GraphInv

\* Without a new plan, the kept one has an address for every tensor.
LEMMA InitTensorsSafe ==
  ASSUME GraphInv, InitTensors
  PROVE  GraphInv'
<1>1. /\ pc' = "run" /\ i' = graph.n_leafs + 1 /\ session' = session /\ graph' = graph
      /\ j' = j /\ UNCHANGED allocVars
      /\ n_children' = n_children /\ n_views' = n_views /\ allocated' = allocated
      /\ offset' = offset /\ node_allocs' = node_allocs /\ leaf_allocs' = leaf_allocs
      /\ buffer_size' = buffer_size /\ ~NeedsRealloc
  BY DEF InitTensors, hashVars, planVars
<1>2. /\ address' = [t \in Ids |->
           IF t \notin Tensors \/ IsView(graph, t) THEN 0
           ELSE IF t <= graph.n_leafs THEN leaf_allocs[t].offset
           ELSE node_allocs[t - graph.n_leafs].dst.offset]
      /\ memory' = [a \in DOMAIN memory |->
           IF \E t \in 1..graph.n_leafs : address'[t] <= a /\ a < address'[t] + graph.size[t]
           THEN CHOOSE t \in 1..graph.n_leafs :
                  address'[t] <= a /\ a < address'[t] + graph.size[t]
           ELSE 0]
  BY DEF InitTensors
<1>3. Count(graph) \in Nat /\ graph.n_leafs \in Nat /\ graph.n_leafs <= Count(graph)
      /\ Count(graph) <= Most /\ Most \in Nat
  BY WalkFacts
<1>4. /\ Len(node_allocs) = NNodes(graph) /\ Len(leaf_allocs) = graph.n_leafs
      /\ leaf_allocs \in Seq(Entry) /\ node_allocs \in Seq(NodeEntry)
  BY <1>1 DEF NeedsRealloc, GraphInv, PlanTyped
<1>5. ASSUME NEW t \in Tensors, t <= graph.n_leafs PROVE leaf_allocs[t].offset \in Nat
  <2>1. t \in 1..Len(leaf_allocs)
    BY <1>3, <1>4, <1>5 DEF Tensors
  <2>2. leaf_allocs[t] \in Entry
    BY <1>4, <2>1
  <2> QED
    BY <2>2 DEF Entry
<1>6. ASSUME NEW t \in Tensors, ~(t <= graph.n_leafs)
      PROVE  node_allocs[t - graph.n_leafs].dst.offset \in Nat
  <2>1. t - graph.n_leafs \in 1..Len(node_allocs)
    BY <1>3, <1>4, <1>6 DEF Tensors, NNodes
  <2>2. node_allocs[t - graph.n_leafs] \in NodeEntry
    BY <1>4, <2>1
  <2>3. node_allocs[t - graph.n_leafs].dst \in Entry
    BY <2>2 DEF NodeEntry
  <2> QED
    BY <2>3 DEF Entry
<1>7. address' \in [Ids -> Nat]
  BY <1>2, <1>5, <1>6
<1>8. memory' \in [0..(Limit - 1) -> {0} \union Ids]
  <2> DEFINE At(t, a) == address'[t] <= a /\ a < address'[t] + graph.size[t]
             Leafs == 1..graph.n_leafs
             Val(a) == IF \E t \in Leafs : At(t, a) THEN CHOOSE t \in Leafs : At(t, a) ELSE 0
  <2>1. DOMAIN memory = 0..(Limit - 1)
    BY DEF GraphInv, GraphTypeOK
  <2>2. Leafs \subseteq Ids
    BY <1>3, SessionsOK
  <2>3. memory' = [a \in 0..(Limit - 1) |-> Val(a)]
    BY <1>2, <2>1, Zenon
  <2> HIDE DEF At, Leafs
  <2>4. \A a : Val(a) \in {0} \union Ids
    BY <2>2
  <2> HIDE DEF Val
  <2> QED
    BY <2>3, <2>4
<1>9. Known' /\ PlanTyped'
  BY <1>1, StaticKept
<1>10. AllocInv'
  BY <1>1, AllocKept DEF GraphInv
<1>11. Counted' /\ Needed'
  BY <1>1 DEF Counted, Needed, Updating
<1>12. Walk'
  <2>1. graph.n_leafs + 1 \in (graph.n_leafs + 1)..(Count(graph) + 1)
    BY <1>3
  <2> QED
    BY <1>1, <2>1 DEF Walk
<1>13. SpaceMatches'
  <2>1. held' = held
    BY <1>1 DEF allocVars
  <2> QED
    BY <1>1, <2>1 DEF GraphInv, SpaceMatches, InPlanning
<1>14. GraphTypeOK'
  <2>1. i' \in 0..(Most + 1)
    BY <1>1, <1>3
  <2>2. {n_children, n_views, offset, address}' \subseteq [Ids -> Nat]
    BY <1>1, <1>7, WalkFacts
  <2> QED
    BY <1>1, <1>8, <1>10, <2>1, <2>2 DEF GraphInv, GraphTypeOK, AllocInv
<1> QED
  BY <1>9, <1>10, <1>11, <1>12, <1>13, <1>14 DEF GraphInv
LEMMA ComputeNodeSafe ==
  ASSUME GraphInv, ComputeNode
  PROVE  GraphInv'
<1>1. /\ pc = "run" /\ i <= Count(graph)
      /\ memory' = IF IsView(graph, i) THEN memory
                   ELSE [a \in DOMAIN memory |-> IF a \in Space(i) THEN i ELSE memory[a]]
      /\ i' = i + 1 /\ pc' = pc /\ session' = session /\ graph' = graph
      /\ j' = j /\ UNCHANGED allocVars
      /\ n_children' = n_children /\ n_views' = n_views /\ allocated' = allocated
      /\ offset' = offset /\ node_allocs' = node_allocs /\ leaf_allocs' = leaf_allocs
      /\ buffer_size' = buffer_size /\ address' = address
  BY DEF ComputeNode, hashVars, planVars
<1>2. /\ Count(graph) \in Nat /\ graph.n_leafs \in Nat /\ Count(graph) <= Most /\ Most \in Nat
      /\ i \in Nat
  BY WalkFacts
<1>3. i \in (graph.n_leafs + 1)..Count(graph)
  <2>1. i \in (graph.n_leafs + 1)..(Count(graph) + 1)
    BY <1>1 DEF GraphInv, Walk
  <2> QED
    BY <1>1, <1>2, <2>1
<1>4. i \in Ids
  BY <1>2, <1>3, SessionsOK
<1>5. memory' \in [0..(Limit - 1) -> {0} \union Ids]
  <2>1. memory \in [0..(Limit - 1) -> {0} \union Ids]
    BY DEF GraphInv, GraphTypeOK
  <2> HIDE DEF Space
  <2> QED
    BY <1>1, <1>4, <2>1
<1>6. Known' /\ PlanTyped'
  BY <1>1, StaticKept
<1>7. AllocInv'
  BY <1>1, AllocKept DEF GraphInv
<1>8. Counted' /\ Needed'
  BY <1>1 DEF Counted, Needed, Updating
<1>9. Walk'
  <2>1. i + 1 \in (graph.n_leafs + 1)..(Count(graph) + 1)
    BY <1>2, <1>3
  <2> QED
    BY <1>1, <2>1 DEF Walk
<1>10. SpaceMatches'
  <2>1. held' = held
    BY <1>1 DEF allocVars
  <2> QED
    BY <1>1, <2>1 DEF GraphInv, SpaceMatches, InPlanning
<1>11. GraphTypeOK'
  <2>1. i' \in 0..(Most + 1)
    BY <1>1, <1>2, <1>3
  <2> QED
    BY <1>1, <1>5, <1>7, <2>1 DEF GraphInv, GraphTypeOK, AllocInv
<1> QED
  BY <1>6, <1>7, <1>8, <1>9, <1>10, <1>11 DEF GraphInv

LEMMA NextGraphSafe ==
  ASSUME GraphInv, NextGraph
  PROVE  GraphInv'
<1>1. /\ Len(session) > 1 /\ session' = Tail(session) /\ graph' = session[2]
      /\ pc' = "alloc" /\ i' = 0 /\ j' = j /\ UNCHANGED allocVars
      /\ n_children' = n_children /\ n_views' = n_views /\ allocated' = allocated
      /\ offset' = offset /\ node_allocs' = node_allocs /\ leaf_allocs' = leaf_allocs
      /\ buffer_size' = buffer_size /\ address' = address /\ memory' = memory
  BY DEF NextGraph, hashVars, planVars, runVars
<1>2. Known'
  <2> DEFINE S == {session[k] : k \in DOMAIN session}
             s == Tail(session)
  <2>1. session \in Seq(S) /\ session # <<>> /\ \A k \in DOMAIN session : IsGraph(session[k])
    BY DEF GraphInv, Known
  <2>2. \A x \in S : IsGraph(x)
    BY <2>1
  <2> HIDE DEF S
  <2>3. 2 \in DOMAIN session
    BY <1>1, <2>1
  <2>4. s \in Seq(S) /\ Len(s) = Len(session) - 1
    BY <2>1
  <2> HIDE DEF s
  <2>5. s # <<>> /\ DOMAIN s = 1..Len(s)
    BY <1>1, <2>1, <2>4
  <2>6. \A k \in DOMAIN s : s[k] \in S /\ s[k] \in {s[l] : l \in DOMAIN s}
    BY <2>4, <2>5
  <2>7. s \in Seq({s[l] : l \in DOMAIN s})
    <3>1. s \in [1..Len(s) -> {s[l] : l \in DOMAIN s}]
      BY <2>4, <2>5, <2>6
    <3>2. Len(s) \in Nat
      BY <2>4
    <3> QED
      BY <3>1, <3>2
  <2>8. \A k \in DOMAIN s : IsGraph(s[k])
    BY <2>2, <2>6
  <2>9. IsGraph(session[2])
    BY <2>1, <2>3
  <2>10. session' = s /\ graph' = session[2]
    BY <1>1 DEF s
  <2> QED
    BY <2>5, <2>7, <2>8, <2>9, <2>10 DEF Known
<1>3. PlanTyped'
  BY <1>1 DEF GraphInv, PlanTyped
<1>4. AllocInv'
  BY <1>1, AllocKept DEF GraphInv
<1>5. Walk' /\ Counted' /\ Needed'
  BY <1>1 DEF Walk, Counted, Needed, Updating
<1>6. SpaceMatches'
  <2>1. held' = held
    BY <1>1 DEF allocVars
  <2> QED
    BY <1>1, <2>1 DEF GraphInv, SpaceMatches, InPlanning
<1>7. GraphTypeOK'
  <2>1. i' \in 0..(Most + 1)
    BY <1>1, SessionsOK
  <2> QED
    BY <1>1, <1>4, <2>1 DEF GraphInv, GraphTypeOK, AllocInv
<1> QED
  BY <1>2, <1>3, <1>4, <1>5, <1>6, <1>7 DEF GraphInv

LEMMA StutterSafe ==
  ASSUME GraphInv, UNCHANGED vars
  PROVE  GraphInv'
<1>1. /\ pc' = pc /\ i' = i /\ j' = j /\ session' = session /\ graph' = graph
      /\ UNCHANGED allocVars /\ n_children' = n_children /\ n_views' = n_views
      /\ allocated' = allocated /\ offset' = offset
      /\ node_allocs' = node_allocs /\ leaf_allocs' = leaf_allocs
      /\ buffer_size' = buffer_size /\ address' = address /\ memory' = memory
  BY DEF vars, hashVars, planVars, runVars
<1>2. AllocInv'
  BY <1>1, AllocKept DEF GraphInv
<1>3. Known' /\ PlanTyped'
  BY <1>1, StaticKept
<1>4. held' = held
  BY <1>1 DEF allocVars
<1>5. Walk' /\ SpaceMatches'
  BY <1>1, <1>4 DEF GraphInv, Walk, SpaceMatches, InPlanning, Tensors
<1>6. \A u : Reads(u)' = Reads(u) /\ Views(u)' = Views(u)
  BY <1>1 DEF Reads, Views, Tensors
<1>7. \A u : Remaining(u)' = Remaining(u) /\ Alive(u)' = Alive(u)
  BY <1>1, <1>6 DEF Remaining, Alive
<1>8. Counted' /\ Needed'
  BY <1>1, <1>6, <1>7 DEF GraphInv, Counted, Needed, Updating
<1>9. GraphTypeOK'
  BY <1>1, <1>2 DEF GraphInv, GraphTypeOK, AllocInv
<1> QED
  BY <1>2, <1>3, <1>5, <1>8, <1>9 DEF GraphInv

-----------------------------------------------------------------------------
(* The steps of the walk                                                   *)

\* A tensor without space takes some.
LEMMA TakeSpaceSafe ==
  ASSUME GraphInv, NEW t \in Tensors, ~allocated[t], TakeSpace(t)
  PROVE  /\ AllocInv' /\ allocated' \in [Ids -> BOOLEAN] /\ offset' \in [Ids -> Nat]
         /\ \A u \in Ids : allocated'[u] <=> held'[u].size > 0
         /\ \A u \in Ids : allocated'[u] => u = t \/ allocated[u]
<1>1. t \in Ids /\ held \in [Ids -> Block] /\ allocated \in [Ids -> BOOLEAN]
      /\ offset \in [Ids -> Nat]
  BY WalkFacts
<1>2. /\ AllocTensor(t, graph.size[t]) /\ allocated' = [allocated EXCEPT ![t] = TRUE]
      /\ offset' = [offset EXCEPT ![t] = held'[t].offset]
  BY DEF TakeSpace
<1>3. held[t].size = 0
  <2>1. ~(held[t].size > 0)
    BY <1>1 DEF GraphInv, SpaceMatches
  <2>2. held[t].size \in Nat
    BY <1>1, BlockFacts
  <2> QED
    BY <2>1, <2>2
<1>4. graph.size[t] \in Sizes
  BY WalkFacts, GraphFacts
<1>5. /\ AllocInv' /\ held' = [held EXCEPT ![t] = held'[t]] /\ held'[t].size > 0
  BY <1>1, <1>2, <1>3, <1>4, AllocSafe DEF GraphInv
<1>6. held'[t].offset \in Nat
  <2>1. held' \in [Ids -> Block]
    BY <1>5 DEF AllocInv, AllocTypeOK
  <2>2. held'[t] \in Block
    BY <1>1, <2>1
  <2> QED
    BY <2>2, BlockFacts
<1>7. allocated' \in [Ids -> BOOLEAN] /\ offset' \in [Ids -> Nat]
  BY <1>1, <1>2, <1>6
<1>8. ASSUME NEW u \in Ids PROVE allocated'[u] <=> held'[u].size > 0
  <2>1. CASE u = t
    BY <1>1, <1>2, <1>5, <2>1
  <2>2. CASE u # t
    <3>1. held'[u] = held[u] /\ allocated'[u] = allocated[u]
      BY <1>1, <1>2, <1>5, <2>2
    <3> QED
      BY <3>1 DEF GraphInv, SpaceMatches
  <2> QED
    BY <2>1, <2>2
<1>9. \A u \in Ids : allocated'[u] => u = t \/ allocated[u]
  BY <1>1, <1>2
<1> QED
  BY <1>5, <1>7, <1>8, <1>9

LEMMA AllocLeafSafe ==
  ASSUME GraphInv, AllocLeaf
  PROVE  GraphInv'
<1>1. /\ pc = "leafs" /\ i <= graph.n_leafs /\ TakeSpace(i) /\ i' = i + 1
      /\ pc' = pc /\ j' = j /\ session' = session /\ graph' = graph
      /\ n_children' = n_children /\ n_views' = n_views
      /\ node_allocs' = node_allocs /\ leaf_allocs' = leaf_allocs
      /\ buffer_size' = buffer_size /\ address' = address /\ memory' = memory
  BY DEF AllocLeaf, Planning, planVars, runVars
<1>2. /\ Count(graph) \in Nat /\ graph.n_leafs \in Nat /\ graph.n_leafs <= Count(graph)
      /\ Count(graph) <= Most /\ Most \in Nat /\ i \in Nat
  BY WalkFacts
<1>3. i \in 1..graph.n_leafs
  <2>1. i \in 1..(graph.n_leafs + 1)
    BY <1>1 DEF GraphInv, Walk
  <2> QED
    BY <1>1, <1>2, <2>1
<1>4. i \in Tensors /\ i \in Ids
  BY <1>2, <1>3, WalkFacts
<1>5. ~IsView(graph, i)
  <2>1. IsView(graph, i) => i > graph.n_leafs
    BY <1>4, WalkFacts, GraphFacts
  <2> QED
    BY <1>1, <1>2, <2>1
<1>6. ~allocated[i]
  BY <1>1, <1>2, <1>4 DEF GraphInv, SpaceMatches, InPlanning
<1>7. /\ AllocInv' /\ allocated' \in [Ids -> BOOLEAN] /\ offset' \in [Ids -> Nat]
      /\ \A u \in Ids : allocated'[u] <=> held'[u].size > 0
      /\ \A u \in Ids : allocated'[u] => u = i \/ allocated[u]
  BY <1>1, <1>4, <1>6, TakeSpaceSafe
<1>8. Known' /\ PlanTyped'
  BY <1>1, StaticKept
<1>9. Counted' /\ Needed'
  BY <1>1 DEF Counted, Needed, Updating
<1>10. Walk'
  <2>1. i + 1 \in 1..(graph.n_leafs + 1)
    BY <1>2, <1>3
  <2> QED
    BY <1>1, <2>1 DEF Walk
<1>11. SpaceMatches'
  <2>1. ASSUME NEW u \in Ids, allocated'[u]
        PROVE  u \in Tensors /\ ~IsView(graph, u) /\ u < i + 1
    <3>1. CASE u = i
      BY <1>2, <1>4, <1>5, <3>1
    <3>2. CASE u # i
      <4>1. allocated[u]
        BY <1>7, <2>1, <3>2
      <4>2. u \in Tensors /\ ~IsView(graph, u) /\ u < i
        BY <1>1, <4>1 DEF GraphInv, SpaceMatches, InPlanning
      <4> QED
        BY <1>2, <4>2 DEF Tensors
    <3> QED
      BY <3>1, <3>2
  <2>2. \A u \in Ids : allocated'[u] => u \in Tensors' /\ ~IsView(graph', u) /\ u < i'
    BY <1>1, <2>1 DEF Tensors
  <2> QED
    BY <1>7, <2>2 DEF SpaceMatches
<1>12. GraphTypeOK'
  <2>1. i' \in 0..(Most + 1)
    BY <1>1, <1>2, <1>3
  <2>2. {n_children, n_views, offset, address}' \subseteq [Ids -> Nat]
    BY <1>1, <1>7, WalkFacts
  <2> QED
    BY <1>1, <1>7, <2>1, <2>2 DEF GraphInv, GraphTypeOK, AllocInv
<1> QED
  BY <1>7, <1>8, <1>9, <1>10, <1>11, <1>12 DEF GraphInv

\* At first everything is still to be read.
LEMMA CountAllSafe ==
  ASSUME GraphInv, CountAll
  PROVE  GraphInv'
<1>1. /\ pc = "leafs" /\ i > graph.n_leafs
      /\ n_children' = CountChildren /\ n_views' = CountViews /\ pc' = "node"
      /\ i' = i /\ j' = j /\ UNCHANGED allocVars
      /\ allocated' = allocated /\ offset' = offset
      /\ session' = session /\ graph' = graph
      /\ node_allocs' = node_allocs /\ leaf_allocs' = leaf_allocs
      /\ buffer_size' = buffer_size /\ address' = address /\ memory' = memory
  BY DEF CountAll, Planning, planVars, runVars
<1>2. /\ Count(graph) \in Nat /\ graph.n_leafs \in Nat /\ graph.n_leafs <= Count(graph)
      /\ Count(graph) <= Most /\ Most \in Nat /\ i \in Nat /\ IsGraph(graph)
  BY WalkFacts
<1>3. i = graph.n_leafs + 1
  <2>1. i \in 1..(graph.n_leafs + 1)
    BY <1>1 DEF GraphInv, Walk
  <2> QED
    BY <1>1, <1>2, <2>1
<1>4. /\ \A u \in Ids : n_children'[u] = Cardinality(Reads(u))
      /\ \A u \in Ids : n_views'[u] = Cardinality(Views(u))
      /\ n_children' \in [Ids -> Nat] /\ n_views' \in [Ids -> Nat]
  BY <1>1, <1>2, CountedFinite DEF CountChildren, CountViews
<1>5. \A u : Reads(u)' = Reads(u) /\ Views(u)' = Views(u)
  BY <1>1 DEF Reads, Views, Tensors
<1>6. ASSUME NEW u \in Ids PROVE Remaining(u)' = Reads(u)
  <2>1. ASSUME NEW r \in Reads(u) PROVE r[1] > i' \/ r[1] = i'
    <3>1. r[1] \in Tensors /\ r[1] > graph.n_leafs
      BY <1>2, ReadsFacts
    <3>2. r[1] \in Int
      BY <3>1 DEF Tensors
    <3> QED
      BY <1>1, <1>2, <1>3, <3>1, <3>2
  <2> QED
    BY <1>1, <1>5, <2>1 DEF Remaining
<1>7. \A v \in Ids : n_children'[v] > 0 \/ Reads(v) = {}
  <2> TAKE v \in Ids
  <2>1. n_children'[v] = Cardinality(Reads(v)) /\ n_children'[v] \in Nat
    BY <1>2, <1>4, CountedFinite
  <2>2. IsFiniteSet(Reads(v)) /\ (Cardinality(Reads(v)) = 0 <=> Reads(v) = {})
    BY <1>2, ReadsFacts, FS_EmptySet
  <2> QED
    BY <2>1, <2>2
<1>8. ASSUME NEW u \in Ids PROVE Alive(u)' = Views(u)
  <2>1. \A v \in Views(u) : v \in Ids
    BY WalkFacts DEF Views
  <2> QED
    BY <1>5, <1>7, <2>1 DEF Alive
<1>9. Counted'
  BY <1>4, <1>6, <1>8 DEF Counted
<1>10. Needed'
  BY <1>5, <1>7 DEF Needed
<1>11. AllocInv'
  BY <1>1, AllocKept DEF GraphInv
<1>12. Known' /\ PlanTyped'
  BY <1>1, StaticKept
<1>13. Walk'
  <2>1. i \in (graph.n_leafs + 1)..(Count(graph) + 1)
    BY <1>2, <1>3
  <2> QED
    BY <1>1, <2>1 DEF Walk
<1>14. SpaceMatches'
  <2>1. held' = held
    BY <1>1 DEF allocVars
  <2>2. \A u \in Ids : allocated[u] => u \in Tensors /\ ~IsView(graph, u) /\ u < i
    BY <1>1 DEF GraphInv, SpaceMatches, InPlanning
  <2>3. \A u \in Ids : allocated'[u] => u \in Tensors' /\ ~IsView(graph', u) /\ u < i'
    BY <1>1, <2>2 DEF Tensors
  <2>4. \A u \in Ids : allocated'[u] <=> held'[u].size > 0
    BY <1>1, <2>1 DEF GraphInv, SpaceMatches
  <2> QED
    BY <2>3, <2>4 DEF SpaceMatches
<1>15. GraphTypeOK'
  <2>1. {n_children, n_views, offset, address}' \subseteq [Ids -> Nat]
    BY <1>1, <1>4, WalkFacts
  <2> QED
    BY <1>1, <1>11, <2>1 DEF GraphInv, GraphTypeOK, AllocInv
<1> QED
  BY <1>9, <1>10, <1>11, <1>12, <1>13, <1>14, <1>15 DEF GraphInv
\* A node gets the space of a parent.
LEMMA AllocInplaceSafe ==
  ASSUME GraphInv, pc = "node", i \in Tensors, ~allocated[i], AllocInplace
  PROVE  /\ AllocInv' /\ allocated' \in [Ids -> BOOLEAN] /\ offset' \in [Ids -> Nat]
         /\ \A u \in Ids : allocated'[u] <=> held'[u].size > 0
         /\ \A u \in Ids : allocated'[u] => u = i \/ allocated[u]
<1>1. i \in Ids /\ held \in [Ids -> Block] /\ allocated \in [Ids -> BOOLEAN]
      /\ offset \in [Ids -> Nat]
  BY WalkFacts
<1>2. PICK l \in Candidates(i) :
        /\ offset' = [offset EXCEPT ![i] = offset[graph.src[i][l]]]
        /\ allocated' = [allocated EXCEPT ![graph.src[i][l]] = FALSE, ![i] = TRUE]
        /\ held' = [held EXCEPT ![i] = held[graph.src[i][l]], ![graph.src[i][l]] = Nothing]
        /\ free_blocks' = free_blocks /\ max_size' = max_size
  BY DEF AllocInplace
<1> DEFINE p == graph.src[i][l]
<1>3. l \in 1..Len(graph.src[i]) /\ allocated[p]
  BY DEF Candidates, Reusable
<1>4. p \in Ids /\ p # i
  <2>1. p \in 1..Count(graph) /\ p < i
    BY <1>3, WalkFacts, GraphFacts
  <2>2. i \in Nat /\ 1..Count(graph) \subseteq Ids
    BY WalkFacts
  <2>3. p \in Ids
    BY <2>1, <2>2
  <2> HIDE DEF p
  <2>4. p # i
    BY <2>1, <2>2
  <2> QED
    BY <2>3, <2>4
<1>5. /\ offset' = [offset EXCEPT ![i] = offset[p]]
      /\ allocated' = [allocated EXCEPT ![p] = FALSE, ![i] = TRUE]
      /\ held' = [held EXCEPT ![i] = held[p], ![p] = Nothing]
  BY <1>2
<1> HIDE DEF p
<1>6. held[i].size = 0 /\ held[p].size > 0
  <2>1. ~(held[i].size > 0) /\ held[p].size > 0
    BY <1>1, <1>3, <1>4 DEF GraphInv, SpaceMatches
  <2>2. held[i].size \in Nat
    BY <1>1, BlockFacts
  <2> QED
    BY <2>1, <2>2
<1>7. Owned(free_blocks, held')
  <2>1. Owned(free_blocks, held)
    BY DEF GraphInv, AllocInv
  <2>2. i # p
    BY <1>4
  <2> QED
    BY <1>1, <1>4, <1>5, <1>6, <2>1, <2>2, Passed
<1>8. held' \in [Ids -> Block]
  BY <1>1, <1>4, <1>5, NothingIsEmpty
<1>9. AllocInv'
  BY <1>2, <1>7, <1>8 DEF GraphInv, AllocInv, AllocTypeOK
<1>10. allocated' \in [Ids -> BOOLEAN] /\ offset' \in [Ids -> Nat]
  BY <1>1, <1>4, <1>5
<1>11. ASSUME NEW u \in Ids PROVE allocated'[u] <=> held'[u].size > 0
  <2>1. CASE u = i
    <3>1. held'[u] = held[p] /\ allocated'[u]
      BY <1>1, <1>4, <1>5, <2>1
    <3> QED
      BY <1>6, <3>1
  <2>2. CASE u = p
    <3>1. held'[u] = Nothing /\ ~allocated'[u]
      BY <1>1, <1>4, <1>5, <2>2
    <3>2. ~(Nothing.size > 0)
      BY NothingIsEmpty
    <3> QED
      BY <3>1, <3>2
  <2>3. CASE u # i /\ u # p
    <3>1. held'[u] = held[u] /\ allocated'[u] = allocated[u]
      BY <1>1, <1>4, <1>5, <2>3
    <3> QED
      BY <3>1 DEF GraphInv, SpaceMatches
  <2> QED
    BY <2>1, <2>2, <2>3
<1>12. \A u \in Ids : allocated'[u] => u = i \/ allocated[u]
  BY <1>1, <1>4, <1>5
<1> QED
  BY <1>9, <1>10, <1>11, <1>12

\* Whether or not tensor i takes space, no view does.
LEMMA NodeSpace ==
  ASSUME GraphInv, pc = "node", i \in Tensors, ~allocated[i],
         AllocView \/ AllocInplace \/ AllocSpace
  PROVE  /\ AllocInv' /\ allocated' \in [Ids -> BOOLEAN] /\ offset' \in [Ids -> Nat]
         /\ \A u \in Ids : allocated'[u] <=> held'[u].size > 0
         /\ \A u \in Ids : allocated'[u] => allocated[u] \/ (u = i /\ ~IsView(graph, i))
<1>1. CASE AllocView
  <2>1. UNCHANGED allocVars /\ allocated' = allocated /\ offset' = offset /\ held' = held
    BY <1>1 DEF AllocView, allocVars
  <2>2. AllocInv'
    BY <2>1, AllocKept DEF GraphInv
  <2>3. \A u \in Ids : allocated'[u] <=> held'[u].size > 0
    BY <2>1 DEF GraphInv, SpaceMatches
  <2>4. allocated' \in [Ids -> BOOLEAN] /\ offset' \in [Ids -> Nat]
    BY <2>1, WalkFacts
  <2> QED
    BY <2>1, <2>2, <2>3, <2>4
<1>2. CASE AllocInplace
  <2>1. ~IsView(graph, i)
    BY <1>2 DEF AllocInplace
  <2> QED
    BY <1>2, <2>1, AllocInplaceSafe
<1>3. CASE AllocSpace
  <2>1. ~IsView(graph, i) /\ TakeSpace(i)
    BY <1>3 DEF AllocSpace
  <2> QED
    BY <2>1, TakeSpaceSafe
<1> QED
  BY <1>1, <1>2, <1>3

LEMMA AllocNodeSafe ==
  ASSUME GraphInv, AllocNode
  PROVE  GraphInv'
<1>1. /\ pc = "node" /\ i <= Count(graph)
      /\ (AllocView \/ AllocInplace \/ AllocSpace)
      /\ pc' = "parents" /\ j' = 1 /\ i' = i
      /\ n_children' = n_children /\ n_views' = n_views
      /\ session' = session /\ graph' = graph
      /\ node_allocs' = node_allocs /\ leaf_allocs' = leaf_allocs
      /\ buffer_size' = buffer_size /\ address' = address /\ memory' = memory
  BY DEF AllocNode, Planning, planVars, runVars
<1>2. /\ Count(graph) \in Nat /\ graph.n_leafs \in Nat /\ graph.n_leafs <= Count(graph)
      /\ Count(graph) <= Most /\ Most \in Nat /\ i \in Nat /\ IsGraph(graph)
  BY WalkFacts
<1>3. i \in (graph.n_leafs + 1)..Count(graph)
  <2>1. i \in (graph.n_leafs + 1)..(Count(graph) + 1)
    BY <1>1 DEF GraphInv, Walk
  <2> QED
    BY <1>1, <1>2, <2>1
<1>4. i \in Tensors /\ i \in Ids
  BY <1>2, <1>3, WalkFacts
<1>5. ~allocated[i]
  BY <1>1, <1>2, <1>4 DEF GraphInv, SpaceMatches, InPlanning
<1>6. /\ AllocInv' /\ allocated' \in [Ids -> BOOLEAN] /\ offset' \in [Ids -> Nat]
      /\ \A u \in Ids : allocated'[u] <=> held'[u].size > 0
      /\ \A u \in Ids : allocated'[u] => allocated[u] \/ (u = i /\ ~IsView(graph, i))
  BY <1>1, <1>4, <1>5, NodeSpace
<1>7. \A u : Reads(u)' = Reads(u) /\ Views(u)' = Views(u)
  BY <1>1 DEF Reads, Views, Tensors
<1>8. ASSUME NEW u PROVE Remaining(u)' = Remaining(u) /\ Alive(u)' = Alive(u)
  <2>1. Alive(u)' = Alive(u)
    BY <1>1, <1>7 DEF Alive
  <2>2. \A r \in Reads(u) : r[2] >= 1
    <3> TAKE r \in Reads(u)
    <3>1. r[2] \in 1..Len(graph.src[r[1]])
      BY <1>2, ReadsFacts
    <3> QED
      BY <3>1
  <2>3. Remaining(u) = {r \in Reads(u) : r[1] > i \/ r[1] = i}
    BY <1>1 DEF Remaining
  <2>4. Remaining(u)' = {r \in Reads(u) : r[1] > i \/ r[1] = i}
    BY <1>1, <1>7, <2>2 DEF Remaining
  <2> QED
    BY <2>1, <2>3, <2>4
<1>9. Counted'
  BY <1>1, <1>8 DEF GraphInv, Counted, Updating
<1>10. Needed'
  <2>1. ASSUME NEW t \in Ids, allocated'[t], ~graph.output[t]
        PROVE  n_children[t] > 0 \/ n_views[t] > 0 \/ Reads(t) = {}
    <3>1. CASE allocated[t]
      BY <1>1, <2>1, <3>1 DEF GraphInv, Needed, Updating
    <3>2. CASE t = i
      <4>1. Remaining(i) = Reads(i)
        <5>1. \A r \in Reads(i) : r[1] > i
          <6> TAKE r \in Reads(i)
          <6>1. i < r[1] /\ r[1] \in Tensors
            BY <1>2, ReadsFacts
          <6> QED
            BY <1>2, <6>1 DEF Tensors
        <5> QED
          BY <5>1 DEF Remaining
      <4>2. n_children[i] = Cardinality(Reads(i)) /\ Cardinality(Reads(i)) \in Nat
        BY <1>1, <1>2, <1>4, <4>1, CountedFinite DEF GraphInv, Counted, Updating
      <4>3. Cardinality(Reads(i)) = 0 <=> Reads(i) = {}
        BY <1>2, ReadsFacts, FS_EmptySet
      <4> QED
        BY <3>2, <4>2, <4>3
    <3> QED
      BY <1>6, <2>1, <3>1, <3>2
  <2> QED
    BY <1>1, <1>7, <2>1 DEF Needed
<1>11. Known' /\ PlanTyped'
  BY <1>1, StaticKept
<1>12. Walk'
  <2>1. 1 \in 1..(Len(graph.src[i]) + 1)
    <3>1. graph.src[i] \in Seq(1..Count(graph))
      BY <1>2, <1>4, WalkFacts, GraphFacts
    <3>2. Len(graph.src[i]) \in Nat
      BY <3>1
    <3> QED
      BY <3>2
  <2> QED
    BY <1>1, <1>3, <2>1 DEF Walk
<1>13. SpaceMatches'
  <2>1. ASSUME NEW u \in Ids, allocated'[u]
        PROVE  u \in Tensors /\ ~IsView(graph, u) /\ (u < i \/ u = i)
    <3>1. CASE u = i /\ ~IsView(graph, i)
      BY <1>4, <3>1
    <3>2. CASE allocated[u]
      BY <1>1, <3>2 DEF GraphInv, SpaceMatches, InPlanning
    <3> QED
      BY <1>6, <2>1, <3>1, <3>2
  <2>2. \A u \in Ids : allocated'[u] =>
          u \in Tensors' /\ ~IsView(graph', u) /\ (u < i' \/ (u = i' /\ pc' = "parents"))
    BY <1>1, <2>1 DEF Tensors
  <2> QED
    BY <1>6, <2>2 DEF SpaceMatches
<1>14. GraphTypeOK'
  <2>1. {n_children, n_views, offset, address}' \subseteq [Ids -> Nat]
    BY <1>1, <1>6, WalkFacts
  <2> QED
    BY <1>1, <1>6, <2>1 DEF GraphInv, GraphTypeOK, AllocInv
<1> QED
  BY <1>6, <1>9, <1>10, <1>11, <1>12, <1>13, <1>14 DEF GraphInv

LEMMA NextNodeSafe ==
  ASSUME GraphInv, NextNode
  PROVE  GraphInv'
<1>1. /\ pc = "parents" /\ j > Len(graph.src[i])
      /\ i' = i + 1 /\ pc' = "node" /\ j' = j /\ UNCHANGED allocVars
      /\ n_children' = n_children /\ n_views' = n_views /\ allocated' = allocated
      /\ offset' = offset /\ session' = session /\ graph' = graph
      /\ node_allocs' = node_allocs /\ leaf_allocs' = leaf_allocs
      /\ buffer_size' = buffer_size /\ address' = address /\ memory' = memory
  BY DEF NextNode, Planning, planVars, runVars, hashVars
<1>2. /\ Count(graph) \in Nat /\ graph.n_leafs \in Nat /\ graph.n_leafs <= Count(graph)
      /\ Count(graph) <= Most /\ Most \in Nat /\ i \in Nat /\ j \in Nat /\ IsGraph(graph)
  BY WalkFacts
<1>3. i \in (graph.n_leafs + 1)..Count(graph)
  BY <1>1 DEF GraphInv, Walk
<1>4. \A u : Reads(u)' = Reads(u) /\ Views(u)' = Views(u)
  BY <1>1 DEF Reads, Views, Tensors
<1>5. ASSUME NEW u PROVE Remaining(u)' = Remaining(u) /\ Alive(u)' = Alive(u)
  <2>1. Alive(u)' = Alive(u)
    BY <1>1, <1>4 DEF Alive
  <2>2. ASSUME NEW r \in Reads(u)
        PROVE  /\ r[1] > i + 1 \/ r[1] = i + 1 <=> r[1] > i
               /\ ~(r[1] = i /\ r[2] >= j)
    <3>1. r[2] \in 1..Len(graph.src[r[1]]) /\ r[1] \in Tensors
      BY <1>2, ReadsFacts
    <3>2. r[1] \in Int
      BY <1>2, <3>1 DEF Tensors
    <3>3. r[1] = i => r[2] \in 1..Len(graph.src[i])
      BY <3>1
    <3>4. graph.src[i] \in Seq(1..Count(graph))
      <4>1. i \in 1..Count(graph)
        BY <1>2, <1>3
      <4> QED
        BY <1>2, <4>1, GraphFacts
    <3>5. Len(graph.src[i]) \in Nat
      BY <3>4
    <3>6. ~(r[1] = i /\ r[2] >= j)
      BY <1>1, <1>2, <3>3, <3>5
    <3>7. r[1] > i + 1 \/ r[1] = i + 1 <=> r[1] > i
      BY <1>2, <3>2
    <3> QED
      BY <3>6, <3>7
  <2>3. Remaining(u) = {r \in Reads(u) : r[1] > i}
    BY <1>1, <2>2 DEF Remaining
  <2>4. Remaining(u)' = {r \in Reads(u) : r[1] > i + 1 \/ r[1] = i + 1}
    BY <1>1, <1>4 DEF Remaining
  <2>5. Remaining(u)' = {r \in Reads(u) : r[1] > i}
    BY <2>2, <2>4
  <2> QED
    BY <2>1, <2>3, <2>5
<1>6. Counted'
  BY <1>1, <1>5 DEF GraphInv, Counted, Updating
<1>7. Needed'
  BY <1>1, <1>4 DEF GraphInv, Needed, Updating
<1>8. AllocInv'
  BY <1>1, AllocKept DEF GraphInv
<1>9. Known' /\ PlanTyped'
  BY <1>1, StaticKept
<1>10. Walk'
  <2>1. i + 1 \in (graph.n_leafs + 1)..(Count(graph) + 1)
    BY <1>2, <1>3
  <2> QED
    BY <1>1, <2>1 DEF Walk
<1>11. SpaceMatches'
  <2>1. held' = held
    BY <1>1 DEF allocVars
  <2>2. ASSUME NEW u \in Ids, allocated[u]
        PROVE  u \in Tensors /\ ~IsView(graph, u) /\ u < i + 1
    <3>1. u \in Tensors /\ ~IsView(graph, u) /\ (u < i \/ u = i)
      BY <1>1, <2>2 DEF GraphInv, SpaceMatches, InPlanning
    <3>2. u \in Int
      BY <1>2, <3>1 DEF Tensors
    <3> QED
      BY <1>2, <3>1, <3>2
  <2>3. \A u \in Ids : allocated'[u] => u \in Tensors' /\ ~IsView(graph', u) /\ u < i'
    BY <1>1, <2>2 DEF Tensors
  <2>4. \A u \in Ids : allocated'[u] <=> held'[u].size > 0
    BY <1>1, <2>1 DEF GraphInv, SpaceMatches
  <2> QED
    BY <2>3, <2>4 DEF SpaceMatches
<1>12. GraphTypeOK'
  <2>1. i' \in 0..(Most + 1)
    BY <1>1, <1>2, <1>3
  <2>2. {n_children, n_views, offset, address}' \subseteq [Ids -> Nat]
    BY <1>1, WalkFacts
  <2> QED
    BY <1>1, <1>8, <2>1, <2>2 DEF GraphInv, GraphTypeOK, AllocInv
<1> QED
  BY <1>6, <1>7, <1>8, <1>9, <1>10, <1>11, <1>12 DEF GraphInv
\* What was read for the last time is freed, unless it is an output.
LEMMA FreeNodeSafe ==
  ASSUME GraphInv, NEW t \in Ids, allocated[t], FreeNode(t)
  PROVE  /\ AllocInv' /\ allocated' \in [Ids -> BOOLEAN]
         /\ \A u \in Ids : allocated'[u] <=> held'[u].size > 0
         /\ \A u \in Ids : allocated'[u] => allocated[u]
         /\ allocated'[t] => graph.output[t]
<1>1. allocated \in [Ids -> BOOLEAN] /\ held \in [Ids -> Block]
  BY WalkFacts
<1>2. \A u \in Ids : allocated[u] <=> held[u].size > 0
  BY DEF GraphInv, SpaceMatches
<1>3. CASE graph.output[t]
  <2>1. UNCHANGED allocVars /\ allocated' = allocated /\ held' = held
    BY <1>3 DEF FreeNode, allocVars
  <2>2. AllocInv'
    BY <2>1, AllocKept DEF GraphInv
  <2> QED
    BY <1>1, <1>2, <1>3, <2>1, <2>2
<1>4. CASE ~graph.output[t]
  <2>1. FreeTensor(t) /\ allocated' = [allocated EXCEPT ![t] = FALSE]
    BY <1>4 DEF FreeNode
  <2>2. held' = [held EXCEPT ![t] = Nothing]
    BY <2>1 DEF FreeTensor
  <2>3. held[t].size > 0
    BY <1>2
  <2>4. AllocInv'
    BY <2>1, <2>3, FreeSafe DEF GraphInv
  <2>5. ~allocated'[t] /\ held'[t] = Nothing /\ ~(Nothing.size > 0)
    BY <1>1, <2>1, <2>2, NothingIsEmpty
  <2>6. \A u \in Ids : u # t => allocated'[u] = allocated[u] /\ held'[u] = held[u]
    BY <1>1, <2>1, <2>2
  <2>7. allocated' \in [Ids -> BOOLEAN]
    BY <1>1, <2>1
  <2>8. ASSUME NEW u \in Ids PROVE allocated'[u] <=> held'[u].size > 0
    BY <1>2, <2>5, <2>6
  <2> QED
    BY <2>4, <2>5, <2>6, <2>7, <2>8
<1> QED
  BY <1>3, <1>4

\* A view has no views of its own.
LEMMA ViewsOfViews ==
  ASSUME GraphInv, Updating, NEW p \in Tensors, IsView(graph, p)
  PROVE  n_views[p] = 0
<1>1. Views(p) = {}
  <2>1. ASSUME NEW v \in Views(p) PROVE FALSE
    <3>1. v \in 1..Count(graph) /\ graph.view_src[v] = p
      BY DEF Views, Tensors
    <3>2. p # 0
      BY DEF Tensors
    <3>3. IsView(graph, v)
      BY <3>1, <3>2 DEF IsView
    <3>4. ~IsView(graph, p)
      BY <3>1, <3>3, WalkFacts, ViewsShowRoots
    <3> QED
      BY <3>4
  <2> QED
    BY <2>1
<1>2. Alive(p) = {}
  BY <1>1 DEF Alive
<1>3. n_views[p] = Cardinality(Alive(p))
  BY WalkFacts DEF GraphInv, Counted
<1> QED
  BY <1>2, <1>3, FS_EmptySet

\* The parent that is counted down, and the places where it is still read
LEMMA ParentFacts ==
  ASSUME GraphInv, pc = "parents", j <= Len(graph.src[i])
  PROVE  LET p == graph.src[i][j]
         IN  /\ p \in Tensors /\ p \in Ids /\ <<i, j>> \in Reads(p) /\ Reads(p) # {}
             /\ <<i, j>> \in Remaining(p) /\ n_children[p] \in Nat /\ n_children[p] > 0
             /\ i \in Tensors /\ j \in 1..Len(graph.src[i])
<1> DEFINE p == graph.src[i][j]
<1>1. /\ Count(graph) \in Nat /\ graph.n_leafs \in Nat /\ graph.n_leafs <= Count(graph)
      /\ i \in Nat /\ j \in Nat /\ IsGraph(graph)
      /\ Tensors = 1..Count(graph) /\ Tensors \subseteq Ids
  BY WalkFacts
<1>2. i \in (graph.n_leafs + 1)..Count(graph) /\ j \in 1..(Len(graph.src[i]) + 1)
  BY DEF GraphInv, Walk
<1>3. i \in Tensors
  BY <1>1, <1>2
<1>4. graph.src[i] \in Seq(1..Count(graph))
  BY <1>1, <1>3, GraphFacts
<1>5. j \in 1..Len(graph.src[i])
  <2>1. Len(graph.src[i]) \in Nat
    BY <1>4
  <2> QED
    BY <1>1, <1>2, <2>1
<1>6. p \in Tensors /\ p \in Ids
  BY <1>1, <1>4, <1>5
<1>7. <<i, j>> \in Reads(p)
  BY <1>1, <1>3, <1>5, ReadsFacts
<1>8. <<i, j>> \in Remaining(p)
  <2>1. <<i, j>>[1] = i /\ <<i, j>>[2] = j /\ j >= j
    BY <1>1
  <2> QED
    BY <1>7, <2>1 DEF Remaining
<1>9. n_children[p] = Cardinality(Remaining(p)) /\ Cardinality(Remaining(p)) \in Nat
  BY <1>1, <1>6, CountedFinite DEF GraphInv, Counted, Updating
<1>10. Cardinality(Remaining(p)) # 0
  BY <1>1, <1>8, CountedFinite, FS_EmptySet
<1> QED
  BY <1>3, <1>5, <1>6, <1>7, <1>8, <1>9, <1>10

\* The counters stay exact when one place has been counted down.
LEMMA CountersUpdated ==
  ASSUME GraphInv, UpdateParent
  PROVE  LET p == graph.src[i][j]
         IN  /\ n_children' = [n_children EXCEPT ![p] = n_children[p] - 1]
             /\ n_children' \in [Ids -> Nat] /\ n_views' \in [Ids -> Nat]
             /\ \A u \in Ids : /\ n_children'[u] = Cardinality(Remaining(u)')
                               /\ n_views'[u] = Cardinality(Alive(u)')
<1> DEFINE p == graph.src[i][j]
           root == graph.view_src[p]
<1>1. /\ pc = "parents" /\ j <= Len(graph.src[i])
      /\ n_children' = [n_children EXCEPT ![p] = @ - 1]
      /\ IF LastReader(p) /\ IsView(graph, p)
         THEN n_views' = [n_views EXCEPT ![root] = @ - 1]
         ELSE n_views' = n_views
      /\ j' = j + 1 /\ pc' = pc /\ i' = i /\ graph' = graph
  BY DEF UpdateParent, Planning
<1>2. /\ p \in Tensors /\ p \in Ids /\ <<i, j>> \in Reads(p) /\ Reads(p) # {}
      /\ <<i, j>> \in Remaining(p) /\ n_children[p] \in Nat /\ n_children[p] > 0
      /\ i \in Tensors /\ j \in 1..Len(graph.src[i])
  BY <1>1, ParentFacts
<1>3. /\ IsGraph(graph) /\ n_children \in [Ids -> Nat] /\ n_views \in [Ids -> Nat]
      /\ i \in Nat /\ j \in Nat /\ Tensors \subseteq Ids /\ Tensors = 1..Count(graph)
      /\ Ids = 1..Most /\ Most \in Nat
  BY WalkFacts
<1>4. \A u \in Ids : n_children[u] = Cardinality(Remaining(u))
                     /\ n_views[u] = Cardinality(Alive(u))
  BY <1>1 DEF GraphInv, Counted, Updating
<1>5. \A u : Reads(u)' = Reads(u) /\ Views(u)' = Views(u)
  BY <1>1 DEF Reads, Views, Tensors
<1>6. \A u \in Ids : n_children'[u] = IF u = p THEN n_children[p] - 1 ELSE n_children[u]
  <2> HIDE DEF p
  <2> QED
    BY <1>1, <1>2, <1>3
<1>7. ASSUME NEW u PROVE Remaining(u)' = Remaining(u) \ {<<i, j>>}
  <2>1. ASSUME NEW r \in Reads(u)
        PROVE  (r[1] > i \/ (r[1] = i /\ r[2] >= j + 1))
                 <=> (r[1] > i \/ (r[1] = i /\ r[2] >= j)) /\ r # <<i, j>>
    <3>1. r = <<r[1], r[2]>> /\ r[2] \in 1..Len(graph.src[r[1]]) /\ r[1] \in Tensors
      BY <1>3, ReadsFacts
    <3>2. r[1] \in Int /\ r[2] \in Int
      BY <3>1 DEF Tensors
    <3>3. r = <<i, j>> <=> r[1] = i /\ r[2] = j
      BY <3>1
    <3> QED
      BY <1>3, <3>2, <3>3
  <2>2. Remaining(u)' = {r \in Reads(u) : r[1] > i \/ (r[1] = i /\ r[2] >= j + 1)}
    BY <1>1, <1>5 DEF Remaining
  <2>3. Remaining(u) = {r \in Reads(u) : r[1] > i \/ (r[1] = i /\ r[2] >= j)}
    BY <1>1 DEF Remaining
  <2>4. ASSUME NEW x PROVE x \in Remaining(u)' <=> x \in Remaining(u) \ {<<i, j>>}
    BY <2>1, <2>2, <2>3
  <2> QED
    BY <2>4
<1>8. ASSUME NEW u \in Ids PROVE n_children'[u] = Cardinality(Remaining(u)')
  <2>1. CASE u = p
    <3>1. /\ IsFiniteSet(Remaining(p)) /\ <<i, j>> \in Remaining(p)
      BY <1>2, <1>3, CountedFinite
    <3>2. Cardinality(Remaining(p) \ {<<i, j>>}) = Cardinality(Remaining(p)) - 1
      BY <3>1, FS_RemoveElement
    <3> QED
      BY <1>2, <1>4, <1>6, <1>7, <2>1, <3>2
  <2>2. CASE u # p
    <3>1. <<i, j>> \notin Remaining(u)
      <4>1. ASSUME <<i, j>> \in Reads(u) PROVE FALSE
        <5>1. graph.src[<<i, j>>[1]][<<i, j>>[2]] = u
          BY <1>3, <4>1, ReadsFacts
        <5> QED
          BY <2>2, <5>1
      <4> QED
        BY <4>1 DEF Remaining
    <3>2. Remaining(u)' = Remaining(u)
      BY <1>7, <3>1
    <3> QED
      BY <1>4, <1>6, <2>2, <3>2
  <2> QED
    BY <2>1, <2>2
<1> HIDE DEF p, root
<1>9. n_children' \in [Ids -> Nat]
  <2>1. n_children[p] - 1 \in Nat
    BY <1>2
  <2> QED
    BY <1>1, <1>2, <1>3, <2>1
<1>10. ASSUME NEW v \in Ids
       PROVE  (n_children'[v] > 0) <=> (n_children[v] > 0 /\ ~(v = p /\ n_children[p] = 1))
  <2>1. CASE v = p
    BY <1>2, <1>6, <2>1
  <2>2. CASE v # p
    BY <1>6, <2>2
  <2> QED
    BY <2>1, <2>2
<1>11. ASSUME NEW u \in Ids
       PROVE  Alive(u)' = IF n_children[p] = 1 THEN Alive(u) \ {p} ELSE Alive(u)
  <2>1. Alive(u)' = {v \in Views(u) : n_children'[v] > 0 \/ Reads(v) = {}}
    BY <1>5 DEF Alive
  <2>2. \A v \in Views(u) : v \in Ids
    BY <1>3 DEF Views
  <2>3. ASSUME NEW v PROVE v \in Alive(u)' <=> v \in Alive(u) /\ ~(v = p /\ n_children[p] = 1)
    BY <1>2, <1>10, <2>1, <2>2 DEF Alive
  <2> QED
    BY <2>3
<1>12. CASE LastReader(p) /\ IsView(graph, p)
  <2>1. n_views' = [n_views EXCEPT ![root] = @ - 1] /\ n_children[p] = 1
    BY <1>1, <1>12 DEF LastReader
  <2>2. root \in Ids /\ root = graph.view_src[p]
    BY <1>2, <1>3, <1>12, ViewsShowRoots DEF root
  <2>3. p \in Alive(root)
    BY <1>2, <2>2 DEF Alive, Views
  <2>4. \A u \in Ids : u # root => p \notin Alive(u)
    BY <2>2 DEF Alive, Views
  <2>5. IsFiniteSet(Alive(root)) /\ Cardinality(Alive(root)) \in Nat
    BY <1>3, CountedFinite
  <2>6. Cardinality(Alive(root) \ {p}) = Cardinality(Alive(root)) - 1
    BY <2>3, <2>5, FS_RemoveElement
  <2>7. Cardinality(Alive(root)) > 0
    BY <2>3, <2>5, FS_EmptySet
  <2>8. n_views[root] - 1 \in Nat /\ n_views[root] - 1 = Cardinality(Alive(root) \ {p})
    BY <1>4, <2>2, <2>5, <2>6, <2>7
  <2>9. n_views' \in [Ids -> Nat]
    BY <1>3, <2>1, <2>2, <2>8
  <2>10. ASSUME NEW u \in Ids PROVE n_views'[u] = Cardinality(Alive(u)')
    <3>1. CASE u = root
      <4>1. n_views'[root] = n_views[root] - 1
        BY <1>3, <2>1, <2>2
      <4> QED
        BY <1>11, <2>1, <2>8, <3>1, <4>1
    <3>2. CASE u # root
      <4>1. n_views'[u] = n_views[u]
        BY <1>3, <2>1, <2>2, <3>2
      <4>2. Alive(u)' = Alive(u)
        BY <1>11, <2>4, <3>2
      <4> QED
        BY <1>4, <4>1, <4>2
    <3> QED
      BY <3>1, <3>2
  <2> QED
    BY <1>1, <1>8, <1>9, <2>9, <2>10 DEF p
<1>13. CASE ~(LastReader(p) /\ IsView(graph, p))
  <2>1. n_views' = n_views
    BY <1>1, <1>13
  <2>2. ASSUME NEW u \in Ids PROVE Alive(u)' = Alive(u)
    <3>1. CASE n_children[p] # 1
      BY <1>11, <3>1
    <3>2. CASE n_children[p] = 1
      <4>1. p \notin Views(u)
        <5>1. CASE IsView(graph, p)
          <6>1. n_views[p] = 0
            BY <1>1, <1>2, <5>1, ViewsOfViews DEF Updating
          <6> QED
            BY <1>13, <3>2, <5>1, <6>1 DEF LastReader
        <5>2. CASE ~IsView(graph, p)
          BY <1>3, <5>2 DEF IsView, Views
        <5> QED
          BY <5>1, <5>2
      <4> QED
        BY <1>11, <4>1 DEF Alive
    <3> QED
      BY <3>1, <3>2
  <2> QED
    BY <1>1, <1>3, <1>4, <1>8, <1>9, <2>1, <2>2 DEF p
<1> QED
  BY <1>12, <1>13
\* A parent, or the root of a parent, that nobody needs any more is freed.
LEMMA UpdateParentSafe ==
  ASSUME GraphInv, UpdateParent
  PROVE  GraphInv'
<1> DEFINE p == graph.src[i][j]
           root == graph.view_src[p]
           Gone == n_views'[root] = 0 /\ n_children[root] = 0 /\ allocated[root]
<1>1. /\ pc = "parents" /\ j <= Len(graph.src[i])
      /\ j' = j + 1 /\ pc' = pc /\ i' = i /\ offset' = offset
      /\ session' = session /\ graph' = graph
      /\ node_allocs' = node_allocs /\ leaf_allocs' = leaf_allocs
      /\ buffer_size' = buffer_size /\ address' = address /\ memory' = memory
  BY DEF UpdateParent, Planning, planVars, runVars
<1>2. IF LastReader(p) /\ IsView(graph, p)
      THEN /\ n_views' = [n_views EXCEPT ![root] = @ - 1]
           /\ IF Gone THEN FreeNode(root) ELSE UNCHANGED <<allocVars, allocated>>
      ELSE /\ n_views' = n_views
           /\ IF LastReader(p) /\ allocated[p]
              THEN FreeNode(p) ELSE UNCHANGED <<allocVars, allocated>>
  BY DEF UpdateParent
<1>3. /\ p \in Tensors /\ p \in Ids /\ Reads(p) # {}
      /\ n_children[p] \in Nat /\ n_children[p] > 0
      /\ i \in Tensors /\ j \in 1..Len(graph.src[i])
  BY <1>1, ParentFacts
<1>4. /\ IsGraph(graph) /\ n_children \in [Ids -> Nat] /\ n_views \in [Ids -> Nat]
      /\ offset \in [Ids -> Nat] /\ address \in [Ids -> Nat]
      /\ allocated \in [Ids -> BOOLEAN]
      /\ i \in Nat /\ j \in Nat /\ Tensors \subseteq Ids /\ Tensors = 1..Count(graph)
      /\ Count(graph) \in 1..Most /\ Most \in Nat
  BY WalkFacts
<1>5. /\ n_children' = [n_children EXCEPT ![p] = n_children[p] - 1]
      /\ n_children' \in [Ids -> Nat] /\ n_views' \in [Ids -> Nat]
      /\ \A u \in Ids : /\ n_children'[u] = Cardinality(Remaining(u)')
                        /\ n_views'[u] = Cardinality(Alive(u)')
  BY CountersUpdated
<1>6. IsView(graph, p) => root \in Ids /\ root # p
  BY <1>3, <1>4, ViewsShowRoots
<1> DEFINE Free(t) == FreeNode(t) /\ allocated[t]
           Kept == UNCHANGED <<allocVars, allocated>>
<1>7. \/ LastReader(p) /\ IsView(graph, p) /\ Gone /\ Free(root)
      \/ LastReader(p) /\ IsView(graph, p) /\ ~Gone /\ Kept
      \/ ~IsView(graph, p) /\ LastReader(p) /\ allocated[p] /\ Free(p)
      \/ ~(LastReader(p) /\ IsView(graph, p)) /\ ~(LastReader(p) /\ allocated[p]) /\ Kept
      \/ IsView(graph, p) /\ ~LastReader(p) /\ Kept
  BY <1>2
<1> HIDE DEF p, root
<1>8. /\ AllocInv' /\ allocated' \in [Ids -> BOOLEAN]
      /\ \A u \in Ids : allocated'[u] <=> held'[u].size > 0
      /\ \A u \in Ids : allocated'[u] => allocated[u]
  <2>1. ASSUME Kept
        PROVE  /\ AllocInv' /\ allocated' \in [Ids -> BOOLEAN]
               /\ \A u \in Ids : allocated'[u] <=> held'[u].size > 0
               /\ \A u \in Ids : allocated'[u] => allocated[u]
    <3>1. UNCHANGED allocVars /\ allocated' = allocated /\ held' = held
      BY <2>1 DEF allocVars
    <3>2. AllocInv'
      BY <3>1, AllocKept DEF GraphInv
    <3>3. \A u \in Ids : allocated[u] <=> held[u].size > 0
      BY DEF GraphInv, SpaceMatches
    <3> QED
      BY <1>4, <3>1, <3>2, <3>3
  <2>2. CASE IsView(graph, p) /\ Free(root)
    BY <1>6, <2>2, FreeNodeSafe
  <2>3. CASE Free(p)
    BY <1>3, <2>3, FreeNodeSafe
  <2> QED
    BY <1>7, <2>1, <2>2, <2>3
<1>9. \A u : Reads(u)' = Reads(u)
  BY <1>1 DEF Reads, Tensors
<1>10. \A u \in Ids : n_children'[u] = IF u = p THEN n_children[p] - 1 ELSE n_children[u]
  BY <1>3, <1>4, <1>5
<1>11. Needed'
  <2>1. ASSUME NEW t \in Ids, allocated'[t], ~graph.output[t]
        PROVE  n_children'[t] > 0 \/ n_views'[t] > 0 \/ Reads(t) = {}
    <3>1. allocated[t] /\ (n_children[t] > 0 \/ n_views[t] > 0 \/ Reads(t) = {})
      BY <1>1, <1>8, <2>1 DEF GraphInv, Needed, Updating
    <3>2. ~IsView(graph, t)
      BY <1>1, <3>1 DEF GraphInv, SpaceMatches, InPlanning
    <3>3. n_children'[t] \in Nat /\ n_views'[t] \in Nat /\ n_children[t] \in Nat
          /\ n_views[t] \in Nat
      BY <1>4, <1>5
    <3>4. CASE LastReader(p) /\ IsView(graph, p)
      <4>1. t # p
        BY <3>2, <3>4
      <4>2. n_children'[t] = n_children[t]
        BY <1>10, <4>1
      <4>3. n_views' = [n_views EXCEPT ![root] = @ - 1]
        BY <1>2, <3>4 DEF p, root
      <4>4. CASE t = root
        <5>1. ~Gone
          <6>1. SUFFICES ASSUME Gone PROVE FALSE
            OBVIOUS
          <6>2. FreeNode(root) /\ allocated[root]
            BY <1>2, <3>4, <6>1 DEF p, root
          <6>3. allocated'[root] => graph.output[root]
            BY <1>6, <3>4, <6>2, FreeNodeSafe
          <6> QED
            BY <2>1, <4>4, <6>3
        <5>2. ~(n_views'[t] = 0 /\ n_children[t] = 0)
          BY <3>1, <4>4, <5>1
        <5> QED
          BY <3>3, <4>2, <5>2
      <4>5. CASE t # root
        <5>1. n_views'[t] = n_views[t]
          BY <1>4, <1>6, <3>4, <4>3, <4>5
        <5> QED
          BY <3>1, <4>2, <5>1
      <4> QED
        BY <4>4, <4>5
    <3>5. CASE ~(LastReader(p) /\ IsView(graph, p))
      <4>1. n_views' = n_views
        BY <1>2, <3>5 DEF p, root
      <4>2. CASE t # p
        BY <1>10, <3>1, <4>1, <4>2
      <4>3. CASE t = p
        <5>1. ~LastReader(p)
          <6>1. SUFFICES ASSUME LastReader(p) PROVE FALSE
            OBVIOUS
          <6>2. FreeNode(p) /\ allocated[p]
            BY <1>2, <3>1, <3>5, <4>3, <6>1 DEF p, root
          <6>3. allocated'[p] => graph.output[p]
            BY <1>3, <6>2, FreeNodeSafe
          <6> QED
            BY <2>1, <4>3, <6>3
        <5>2. n_children[p] # 1 \/ n_views[p] # 0
          BY <5>1 DEF LastReader
        <5>3. n_children'[p] = n_children[p] - 1
          BY <1>3, <1>10
        <5>4. CASE n_children[p] # 1
          <6>1. n_children[p] - 1 > 0
            BY <1>3, <5>4
          <6> QED
            BY <4>3, <5>3, <6>1
        <5>5. CASE n_views[p] # 0
          BY <3>3, <4>1, <4>3, <5>5
        <5> QED
          BY <5>2, <5>4, <5>5
      <4> QED
        BY <4>2, <4>3
    <3> QED
      BY <3>4, <3>5
  <2> QED
    BY <1>1, <1>9, <2>1 DEF Needed
<1>12. Counted'
  BY <1>5 DEF Counted
<1>13. Known' /\ PlanTyped'
  BY <1>1, StaticKept
<1>14. Walk'
  <2>1. j + 1 \in 1..(Len(graph.src[i]) + 1)
    <3>1. graph.src[i] \in Seq(1..Count(graph))
      BY <1>3, <1>4, GraphFacts
    <3>2. Len(graph.src[i]) \in Nat
      BY <3>1
    <3> QED
      BY <1>3, <3>2
  <2>2. i \in (graph.n_leafs + 1)..Count(graph)
    BY <1>1 DEF GraphInv, Walk
  <2> QED
    BY <1>1, <2>1, <2>2 DEF Walk
<1>15. SpaceMatches'
  <2>1. \A u \in Ids : allocated[u] =>
          u \in Tensors /\ ~IsView(graph, u) /\ (u < i \/ (u = i /\ pc = "parents"))
    BY <1>1 DEF GraphInv, SpaceMatches, InPlanning
  <2>2. \A u \in Ids : allocated'[u] =>
          u \in Tensors' /\ ~IsView(graph', u) /\ (u < i' \/ (u = i' /\ pc' = "parents"))
    BY <1>1, <1>8, <2>1 DEF Tensors
  <2> QED
    BY <1>8, <2>2 DEF SpaceMatches
<1>16. GraphTypeOK'
  <2>1. {n_children, n_views, offset, address}' \subseteq [Ids -> Nat]
    BY <1>1, <1>4, <1>5
  <2>2. j' \in Nat
    BY <1>1, <1>4
  <2> QED
    BY <1>1, <1>8, <2>1, <2>2 DEF GraphInv, GraphTypeOK, AllocInv
<1> QED
  BY <1>8, <1>11, <1>12, <1>13, <1>14, <1>15, <1>16 DEF GraphInv

-----------------------------------------------------------------------------
(* The theorems                                                            *)

\* GraphInv is an inductive invariant of planning and computing graphs.
THEOREM PlanInvariance == GraphSpec => []GraphInv
<1>1. GraphInit => GraphInv
  BY GraphInitially
<1>2. GraphInv /\ [GraphNext]_vars => GraphInv'
  <2> SUFFICES ASSUME GraphInv, [GraphNext]_vars PROVE GraphInv'
    OBVIOUS
  <2>1. CASE StartReserve
    BY <2>1, StartReserveSafe
  <2>2. CASE AllocLeaf
    BY <2>2, AllocLeafSafe
  <2>3. CASE CountAll
    BY <2>3, CountAllSafe
  <2>4. CASE AllocNode
    BY <2>4, AllocNodeSafe
  <2>5. CASE UpdateParent
    BY <2>5, UpdateParentSafe
  <2>6. CASE NextNode
    BY <2>6, NextNodeSafe
  <2>7. CASE KeepPlan
    BY <2>7, KeepPlanSafe
  <2>8. CASE InitTensors
    BY <2>8, InitTensorsSafe
  <2>9. CASE ComputeNode
    BY <2>9, ComputeNodeSafe
  <2>10. CASE NextGraph
    BY <2>10, NextGraphSafe
  <2>11. CASE UNCHANGED vars
    BY <2>11, StutterSafe
  <2> QED
    BY <2>1, <2>2, <2>3, <2>4, <2>5, <2>6, <2>7, <2>8, <2>9, <2>10, <2>11 DEF GraphNext
<1> QED
  BY <1>1, <1>2, PTL DEF GraphSpec

\* All variables keep their types, whatever graphs are planned: above all, no counter
\* of children or views is counted down below zero.
THEOREM GraphTypeCorrect == GraphSpec => []GraphTypeOK
<1>1. GraphInv => GraphTypeOK
  BY DEF GraphInv
<1> QED
  BY <1>1, PlanInvariance, PTL

\* While graphs are planned, what is free and what is held are exact: no two tensors
\* that are held at the same time share a byte, and no byte is lost.
THEOREM SpaceExact == GraphSpec => []SpaceIsExact
<1>1. GraphInv => SpaceIsExact
  BY ExactSpace DEF GraphInv
<1> QED
  BY <1>1, PlanInvariance, PTL

\* At the end of every plan only outputs, tensors nobody reads, and roots of views
\* nobody reads hold space.
THEOREM PlansLeaveNothing == GraphSpec => []NothingLeaks
<1>1. GraphInv => NothingLeaks
  <2> SUFFICES ASSUME GraphInv, pc = "node", i > Count(graph),
                      NEW t \in Tensors, held[t].size > 0, ~graph.output[t],
                      Reads(t) # {}
               PROVE  \E v \in Views(t) : Reads(v) = {}
    BY DEF NothingLeaks
  <2>1. /\ IsGraph(graph) /\ Tensors = 1..Count(graph) /\ Tensors \subseteq Ids
        /\ Count(graph) \in Nat /\ i \in Nat
    BY WalkFacts
  <2>2. ASSUME NEW u \in Ids PROVE n_children[u] = 0
    <3>1. Remaining(u) = {}
      <4>1. ASSUME NEW r \in Remaining(u) PROVE FALSE
        <5>1. r \in Reads(u) /\ (r[1] > i \/ r[1] = i)
          BY DEF Remaining
        <5>2. r[1] \in 1..Count(graph)
          BY <2>1, <5>1, ReadsFacts
        <5> QED
          BY <2>1, <5>1, <5>2
      <4> QED
        BY <4>1
    <3> QED
      BY <3>1, FS_EmptySet DEF GraphInv, Counted, Updating
  <2>3. allocated[t]
    BY <2>1 DEF GraphInv, SpaceMatches
  <2>4. n_children[t] > 0 \/ n_views[t] > 0 \/ Reads(t) = {}
    BY <2>1, <2>3 DEF GraphInv, Needed, Updating
  <2>5. n_views[t] > 0
    BY <2>1, <2>2, <2>4
  <2>6. n_views[t] = Cardinality(Alive(t))
    BY <2>1 DEF GraphInv, Counted, Updating
  <2>7. Alive(t) # {}
    BY <2>5, <2>6, FS_EmptySet
  <2>8. PICK v \in Alive(t) : TRUE
    BY <2>7
  <2>9. v \in Views(t) /\ v \in Ids /\ (n_children[v] > 0 \/ Reads(v) = {})
    BY <2>1, <2>8 DEF Alive, Views
  <2> QED
    BY <2>2, <2>9
<1> QED
  BY <1>1, PlanInvariance, PTL

-----------------------------------------------------------------------------
(* What is computed                                                        *)

\* Tensor u of graph g is needed when node t is computed or later: it is an output or
\* is read, by itself or through a view.
Awaited(g, u, t) ==
  \/ \E v \in 1..Count(g) : g.output[v] /\ Root(g, v) = u
  \/ \E r \in 1..Count(g) : r >= t /\ \E l \in 1..Len(g.src[r]) : Root(g, g.src[r][l]) = u

\* The tensors with space of their own
Solid(g) == {u \in 1..Count(g) : ~IsView(g, u)}

\* Tensor w is written when u has a value that is still needed.
Endangers(g, w, u) ==
  w # u /\ (u < w \/ (u <= g.n_leafs /\ w <= g.n_leafs)) /\ Awaited(g, u, w + 1)

\* Where tensor u of g is if the tensors are put at off
Place(g, off, u) == off[u]..(off[u] + g.size[u] - 1)

\* No address of tensor u is one of tensor w.
Disjoint(g, off, u, w) == \A a \in Place(g, off, u) : a \notin Place(g, off, w)

\* Computing g at off, no tensor overwrites one that is needed, and all lie below n.
PlanIsSafe(g, off) == \A u, w \in Solid(g) : Endangers(g, w, u) => Disjoint(g, off, u, w)
PlanFits(g, off, n) == \A u \in Solid(g) : off[u] + g.size[u] <= n

-----------------------------------------------------------------------------
(* While a plan is made                                                    *)

\* The tensors that the walk has put somewhere
Placed(u) == u \in Solid(graph) /\ (u < i \/ (u = i /\ pc = "parents"))

\* Those that the walk must not give up yet
Due(u) ==
  \/ pc = "leafs" \/ graph.output[u] \/ n_views[u] > 0
  \/ \E r \in Reads(u) : r[1] > i \/ (r[1] = i /\ pc = "node")

\* Tensor u of g holds the space at its offset.
HeldAt(h, off, g, u) == h[u].offset = off[u] /\ h[u].size = Aligned(g.size[u])

\* Whoever is due holds space, and space is held where the plan puts the tensor.
DueAreHeld ==
  InPlanning => \A u \in Solid(graph) :
    /\ Placed(u) /\ Due(u) => allocated[u]
    /\ allocated[u] => HeldAt(held, offset, graph, u)

\* No tensor was put over one that is needed after it is written, even if that one was
\* put first: while it is due it holds its space.
ApartSoFar ==
  InPlanning => \A u, w \in Solid(graph) :
    Placed(u) /\ Placed(w) /\ Endangers(graph, w, u) => Disjoint(graph, offset, u, w)

\* The buffer that the plan asks for has room for all of them.
BelowMax ==
  /\ max_size <= Limit
  /\ InPlanning => \A u \in Solid(graph) : Placed(u) => offset[u] + graph.size[u] <= max_size

-----------------------------------------------------------------------------
(* While a plan is kept, and used                                          *)

\* The kept plan would not be replaced for g: NeedsRealloc, of a graph to come
Serves(g) ==
  /\ Len(node_allocs) = NNodes(g) /\ Len(leaf_allocs) = g.n_leafs
  /\ \A k \in 1..NNodes(g) :
       /\ node_allocs[k].dst.size_max >= Room(g, g.n_leafs + k)
       /\ \A l \in 1..Len(g.src[g.n_leafs + k]) :
            KeptSize(k, l) >= Room(g, g.src[g.n_leafs + k][l])

\* Where the kept plan puts the tensors
Offsets ==
  [t \in Ids |-> IF t <= Len(leaf_allocs) THEN leaf_allocs[t].offset
                 ELSE node_allocs[t - Len(leaf_allocs)].dst.offset]

\* The kept plan is safe for each graph that it would serve, this one or a later one.
KeptIsSafe ==
  /\ buffer_size <= Limit
  /\ \A k \in 1..Len(session) : Serves(session[k]) =>
       /\ PlanIsSafe(session[k], Offsets)
       /\ PlanFits(session[k], Offsets, buffer_size)

\* The graphs that are still to come
ToCome ==
  /\ graph = session[1]
  /\ \A k \in 1..Len(session) : OutputsAreKept(session[k])
  /\ \A k, l \in 1..Len(session) :
       /\ NNodes(session[k]) = NNodes(session[l])
       /\ session[k].n_leafs = session[l].n_leafs
       => SameShape(session[k], session[l])

\* What was computed and is needed is still there.
Running ==
  pc = "run" =>
    /\ PlanIsSafe(graph, address) /\ PlanFits(graph, address, buffer_size)
    /\ \A u \in Solid(graph) : u < i /\ Awaited(graph, u, i) =>
         \A a \in Space(u) : memory[a] = u

\* ValuesAreIntact needs all of these: that the values are there now, that the places are
\* apart, that the plan for a later graph was, and so that it is while it is being made.
ValuesInv ==
  ToCome /\ DueAreHeld /\ ApartSoFar /\ BelowMax /\ KeptIsSafe /\ Running
-----------------------------------------------------------------------------

\* The tensors with space of their own are among the Ids and have a size.
LEMMA SolidFacts ==
  ASSUME NEW g, IsGraph(g), NEW u \in Solid(g)
  PROVE  /\ u \in Ids /\ u \in 1..Count(g) /\ u \in Nat /\ ~IsView(g, u)
         /\ g.size[u] \in Sizes /\ g.size[u] \in Nat \ {0}
         /\ g.output[u] \in BOOLEAN /\ Count(g) \in Nat /\ g.n_leafs \in Nat
         /\ g.n_leafs <= Count(g)
<1>1. Count(g) \in 1..Most /\ Most \in Nat /\ Ids = 1..Most /\ g.n_leafs \in 0..Count(g)
  BY GraphFacts, SessionsOK
<1>2. u \in 1..Count(g) /\ ~IsView(g, u)
  BY DEF Solid
<1>3. g.size[u] \in Sizes /\ g.output[u] \in BOOLEAN
  BY <1>2, GraphFacts
<1>4. u \in Nat /\ u \in Ids /\ Count(g) \in Nat /\ g.n_leafs \in Nat /\ g.n_leafs <= Count(g)
  BY <1>1, <1>2
<1>5. g.size[u] \in Nat \ {0}
  BY <1>3, AllocAssumption
<1> QED
  BY <1>2, <1>3, <1>4, <1>5

\* The root of a tensor has space of its own and does not come after it.
LEMMA RootFacts ==
  ASSUME NEW g, IsGraph(g), NEW t \in 1..Count(g)
  PROVE  /\ Root(g, t) \in Solid(g) /\ Root(g, t) <= t
         /\ Root(g, t) # t => IsView(g, t) /\ g.view_src[t] = Root(g, t)
<1>1. Count(g) \in Nat
  BY GraphFacts, SessionsOK
<1>2. CASE IsView(g, t)
  <2>1. /\ g.view_src[t] \in 1..Count(g) /\ g.view_src[t] < t
        /\ ~IsView(g, g.view_src[t])
    BY <1>2, ViewsShowRoots
  <2>2. Root(g, t) = g.view_src[t]
    BY <1>2 DEF Root
  <2> QED
    BY <1>1, <1>2, <2>1, <2>2 DEF Solid
<1>3. CASE ~IsView(g, t)
  BY <1>1, <1>3 DEF Root, Solid
<1> QED
  BY <1>2, <1>3

\* Two that hold space at their offsets are apart.
LEMMA HeldApart ==
  ASSUME NEW s, NEW h \in [Ids -> Block], Owned(s, h), NEW g, NEW off,
         NEW u \in Ids, NEW w \in Ids, u # w, g.size[u] \in Sizes, g.size[w] \in Sizes,
         HeldAt(h, off, g, u), HeldAt(h, off, g, w)
  PROVE  Disjoint(g, off, u, w)
<1>1. ASSUME NEW v \in Ids, g.size[v] \in Sizes, HeldAt(h, off, g, v)
      PROVE  Place(g, off, v) \subseteq Nat /\ Place(g, off, v) \subseteq Extent(h[v])
  <2>1. h[v] \in Block
    OBVIOUS
  <2>2. h[v].offset = off[v] /\ h[v].size = Aligned(g.size[v]) /\ off[v] \in Nat
    BY <1>1, <2>1, BlockFacts DEF HeldAt
  <2>3. g.size[v] <= h[v].size /\ h[v].size \in Nat /\ g.size[v] \in Nat
    BY <1>1, <2>1, <2>2, AlignedFacts, BlockFacts, AllocAssumption
  <2>4. End(h[v]) = off[v] + h[v].size
    BY <2>1, <2>2, BlockFacts
  <2>5. ASSUME NEW a \in Place(g, off, v) PROVE a \in Nat /\ a \in Extent(h[v])
    <3>1. a \in Int /\ off[v] <= a /\ a <= off[v] + g.size[v] - 1
      BY <2>2, <2>3 DEF Place
    <3>2. a \in Nat /\ a < off[v] + h[v].size
      BY <2>2, <2>3, <3>1
    <3> QED
      BY <2>1, <2>2, <2>4, <3>1, <3>2, BlockFacts
  <2> QED
    BY <2>5
<1>2. ASSUME NEW a \in Place(g, off, u), a \in Place(g, off, w) PROVE FALSE
  <2>1. a \in Nat /\ a \in Extent(h[u]) /\ a \in Extent(h[w])
    BY <1>1, <1>2
  <2> QED
    BY <2>1 DEF Owned
<1> QED
  BY <1>2 DEF Disjoint

\* Whoever is needed after node i must not be given up by it: a reader of its own or
\* of a view of it is still counted, and an output is flagged where it is kept.
LEMMA AwaitedIsDue ==
  ASSUME GraphInv, OutputsAreKept(graph), pc = "node", NEW u \in Solid(graph),
         Awaited(graph, u, i + 1)
  PROVE  graph.output[u] \/ n_views[u] > 0 \/ \E r \in Reads(u) : r[1] > i
<1>1. /\ IsGraph(graph) /\ i \in Nat /\ Tensors = 1..Count(graph) /\ Tensors \subseteq Ids
      /\ Count(graph) \in Nat
  BY WalkFacts
<1>2. u \in Tensors /\ u \in Ids /\ ~IsView(graph, u)
  BY <1>1, SolidFacts
<1>3. ASSUME NEW v \in Tensors, v # u, Root(graph, v) = u,
             Reads(v) = {} \/ \E r \in Reads(v) : r[1] > i
      PROVE  n_views[u] > 0
  <2>1. v \in Views(u) /\ v \in Ids
    BY <1>1, <1>3, RootFacts DEF Views
  <2>2. n_children[v] > 0 \/ Reads(v) = {}
    <3>1. CASE Reads(v) = {}
      BY <3>1
    <3>2. ASSUME NEW r \in Reads(v), r[1] > i PROVE n_children[v] > 0
      <4>1. r \in Remaining(v)
        BY <3>2 DEF Remaining
      <4>2. n_children[v] = Cardinality(Remaining(v))
        BY <2>1 DEF GraphInv, Counted, Updating
      <4>3. Cardinality(Remaining(v)) \in Nat /\ IsFiniteSet(Remaining(v))
        BY <1>1, CountedFinite
      <4>4. Cardinality(Remaining(v)) # 0
        BY <4>1, <4>3, FS_EmptySet
      <4> QED
        BY <4>2, <4>3, <4>4
    <3> QED
      BY <1>3, <3>1, <3>2
  <2>3. v \in Alive(u)
    BY <2>1, <2>2 DEF Alive
  <2>4. n_views[u] = Cardinality(Alive(u))
    BY <1>2 DEF GraphInv, Counted, Updating
  <2>5. Cardinality(Alive(u)) \in Nat /\ IsFiniteSet(Alive(u))
    BY <1>1, CountedFinite
  <2>6. Cardinality(Alive(u)) # 0
    BY <2>3, <2>5, FS_EmptySet
  <2> QED
    BY <2>4, <2>5, <2>6
<1>4. ASSUME NEW v \in Tensors, graph.output[v], Root(graph, v) = u
      PROVE  graph.output[u] \/ n_views[u] > 0
  <2>1. CASE v = u
    BY <1>4, <2>1
  <2>2. CASE v # u
    <3>1. IsView(graph, v)
      BY <1>1, <1>4, <2>2, RootFacts
    <3>2. \/ graph.output[u]
          \/ \A r \in Tensors : \A l \in 1..Len(graph.src[r]) : graph.src[r][l] # v
      BY <1>1, <1>4, <3>1 DEF OutputsAreKept
    <3>3. CASE \A r \in Tensors : \A l \in 1..Len(graph.src[r]) : graph.src[r][l] # v
      <4>1. Reads(v) = {}
        BY <1>1, <3>3, ReadsFacts
      <4> QED
        BY <1>3, <1>4, <2>2, <4>1
    <3> QED
      BY <3>2, <3>3
  <2> QED
    BY <2>1, <2>2
<1>5. ASSUME NEW r \in Tensors, r >= i + 1, NEW l \in 1..Len(graph.src[r]),
             Root(graph, graph.src[r][l]) = u
      PROVE  n_views[u] > 0 \/ \E q \in Reads(u) : q[1] > i
  <2> DEFINE v == graph.src[r][l]
  <2>1. v \in Tensors /\ r \in Nat
    <3>1. r \in 1..Count(graph)
      BY <1>1
    <3>2. graph.src[r][l] \in 1..Count(graph)
      BY <1>1, <3>1, GraphFacts
    <3> QED
      BY <1>1, <3>1, <3>2
  <2>2. <<r, l>> \in Reads(v) /\ <<r, l>>[1] > i
    <3>1. <<r, l>> \in Reads(v)
      BY <1>1, ReadsFacts
    <3>2. r > i
      BY <1>1, <1>5, <2>1
    <3> QED
      BY <3>1, <3>2
  <2> HIDE DEF v
  <2>3. CASE v = u
    BY <2>2, <2>3
  <2>4. CASE v # u
    BY <1>3, <1>5, <2>1, <2>2, <2>4 DEF v
  <2> QED
    BY <2>3, <2>4
<1> QED
  BY <1>1, <1>4, <1>5 DEF Awaited

-----------------------------------------------------------------------------
(* Frames                                                                  *)

\* Neither the plan nor the graphs to come change.
LEMMA PlanKept ==
  ASSUME ValuesInv, UNCHANGED <<session, graph, node_allocs, leaf_allocs, buffer_size>>
  PROVE  ToCome' /\ KeptIsSafe'
<1>1. Offsets' = Offsets
  BY DEF Offsets
<1>2. \A g : Serves(g)' = Serves(g)
  BY DEF Serves, KeptSize
<1>3. ToCome' /\ session' = session /\ buffer_size' = buffer_size
  BY DEF ValuesInv, ToCome
<1> QED
  BY <1>1, <1>2, <1>3 DEF ValuesInv, KeptIsSafe

\* What is put somewhere else changes nothing for two that stay where they are.
LEMMA StaysDisjoint ==
  ASSUME NEW g, NEW off, NEW new, NEW u, NEW w, new[u] = off[u], new[w] = off[w],
         Disjoint(g, off, u, w)
  PROVE  Disjoint(g, new, u, w)
BY DEF Disjoint, Place

\* Nothing is put anywhere.
LEMMA PlacesKept ==
  ASSUME ValuesInv, InPlanning, graph' = graph, offset' = offset, max_size' = max_size,
         \A u \in Solid(graph) : Placed(u)' => Placed(u)
  PROVE  ApartSoFar' /\ BelowMax'
<1>1. ApartSoFar'
  <2> SUFFICES ASSUME NEW u \in Solid(graph), NEW w \in Solid(graph), Placed(u)', Placed(w)',
                      Endangers(graph, w, u)
               PROVE  Disjoint(graph, offset, u, w)
    BY DEF ApartSoFar
  <2>1. Placed(u) /\ Placed(w)
    OBVIOUS
  <2> QED
    BY <2>1 DEF ValuesInv, ApartSoFar
<1>2. BelowMax'
  <2>1. max_size' <= Limit
    BY DEF ValuesInv, BelowMax
  <2>2. \A u \in Solid(graph) : Placed(u)' => offset[u] + graph.size[u] <= max_size
    BY DEF ValuesInv, BelowMax
  <2> QED
    BY <2>1, <2>2 DEF BelowMax
<1> QED
  BY <1>1, <1>2

\* Tensor t is put somewhere, apart from whatever is in danger of it.
LEMMA NewPlace ==
  ASSUME GraphInv, ValuesInv, InPlanning, AllocInv', graph' = graph, NEW t \in Tensors,
         \A u \in Solid(graph) : Placed(u)' => Placed(u) \/ u = t,
         \A u \in Solid(graph) : Placed(u) => u < t,
         \A u \in Solid(graph) : u # t => offset'[u] = offset[u],
         \A u \in Solid(graph) : allocated'[u] => HeldAt(held', offset', graph, u),
         t \in Solid(graph) => allocated'[t] /\ offset'[t] + graph.size[t] <= max_size',
         \A u \in Solid(graph) :
           Placed(u) /\ (Endangers(graph, t, u) \/ Endangers(graph, u, t)) => allocated'[u],
         max_size' \in Nat, offset \in [Ids -> Nat], max_size <= max_size', max_size' <= Limit
  PROVE  ApartSoFar' /\ BelowMax'
<1>1. IsGraph(graph) /\ t \in Nat /\ max_size \in Nat
  BY WalkFacts DEF GraphInv, GraphTypeOK, AllocTypeOK
<1>2. held' \in [Ids -> Block] /\ Owned(free_blocks', held')
  BY DEF AllocInv, AllocTypeOK
<1>3. ASSUME NEW u \in Solid(graph), NEW w \in Solid(graph), allocated'[u], allocated'[w], u # w
      PROVE  Disjoint(graph, offset', u, w)
  <2>1. HeldAt(held', offset', graph, u) /\ HeldAt(held', offset', graph, w)
    BY <1>3
  <2>2. u \in Ids /\ w \in Ids /\ graph.size[u] \in Sizes /\ graph.size[w] \in Sizes
    BY <1>1, SolidFacts
  <2> QED
    BY <1>2, <1>3, <2>1, <2>2, HeldApart
<1>4. ApartSoFar'
  <2> SUFFICES ASSUME NEW u \in Solid(graph), NEW w \in Solid(graph), Placed(u)', Placed(w)',
                      Endangers(graph, w, u)
               PROVE  Disjoint(graph, offset', u, w)
    BY DEF ApartSoFar
  <2>1. u # w
    BY DEF Endangers
  <2>2. CASE u = t
    <3>1. Placed(w)
      BY <2>1, <2>2
    <3>2. allocated'[u] /\ allocated'[w]
      BY <2>2, <3>1
    <3> QED
      BY <1>3, <2>1, <3>2
  <2>3. CASE w = t
    <3>1. Placed(u)
      BY <2>1, <2>3
    <3>2. allocated'[u] /\ allocated'[w]
      BY <2>3, <3>1
    <3> QED
      BY <1>3, <2>1, <3>2
  <2>4. CASE u # t /\ w # t
    <3>1. Placed(u) /\ Placed(w) /\ offset'[u] = offset[u] /\ offset'[w] = offset[w]
      BY <2>4
    <3>2. Disjoint(graph, offset, u, w)
      BY <3>1 DEF ValuesInv, ApartSoFar
    <3> QED
      BY <3>1, <3>2, StaysDisjoint
  <2> QED
    BY <2>2, <2>3, <2>4
<1>5. BelowMax'
  <2>1. ASSUME NEW u \in Solid(graph), Placed(u)'
        PROVE  offset'[u] + graph.size[u] <= max_size'
    <3>1. CASE u = t
      BY <3>1
    <3>2. CASE u # t
      <4>1. Placed(u) /\ offset'[u] = offset[u]
        BY <2>1, <3>2
      <4>2. offset[u] + graph.size[u] <= max_size
        BY <4>1 DEF ValuesInv, BelowMax
      <4>3. offset[u] \in Nat /\ graph.size[u] \in Nat
        BY <1>1, SolidFacts
      <4> QED
        BY <1>1, <4>1, <4>2, <4>3
    <3> QED
      BY <3>1, <3>2
  <2> QED
    BY <2>1 DEF BelowMax
<1> QED
  BY <1>4, <1>5

-----------------------------------------------------------------------------
(* The steps of planning                                                   *)

\* A new plan starts with no place taken.
LEMMA StartReserveValues ==
  ASSUME GraphInv, ValuesInv, StartReserve
  PROVE  ValuesInv'
<1>1. /\ ResetAllocator /\ allocated' = [t \in Ids |-> FALSE]
      /\ pc' = "leafs" /\ i' = 1 /\ session' = session /\ graph' = graph
      /\ node_allocs' = node_allocs /\ leaf_allocs' = leaf_allocs
      /\ buffer_size' = buffer_size
  BY DEF StartReserve, planVars
<1>2. ToCome' /\ KeptIsSafe'
  BY <1>1, PlanKept
<1>3. IsGraph(graph)
  BY WalkFacts
<1>4. \A u \in Solid(graph) : ~Placed(u)' /\ ~allocated'[u]
  <2> TAKE u \in Solid(graph)
  <2>1. u \in 1..Count(graph) /\ u \in Nat /\ u \in Ids
    BY <1>3, SolidFacts
  <2>2. ~(u < 1)
    BY <2>1
  <2> QED
    BY <1>1, <2>1, <2>2 DEF Placed
<1>5. DueAreHeld' /\ ApartSoFar'
  BY <1>1, <1>4 DEF DueAreHeld, ApartSoFar
<1>6. BelowMax'
  <2>1. max_size' = 0 /\ 0 <= Limit
    BY <1>1, AllocAssumption DEF ResetAllocator
  <2> QED
    BY <1>1, <1>4, <2>1 DEF BelowMax
<1>7. Running'
  BY <1>1 DEF Running
<1> QED
  BY <1>2, <1>5, <1>6, <1>7 DEF ValuesInv

\* A tensor that takes space lies in it.
LEMMA TakesPlace ==
  ASSUME GraphInv, max_size <= Limit, NEW t \in Tensors, ~allocated[t], TakeSpace(t)
  PROVE  /\ allocated'[t] /\ HeldAt(held', offset', graph, t)
         /\ \A u \in Ids : u # t => /\ allocated'[u] = allocated[u]
                                    /\ held'[u] = held[u] /\ offset'[u] = offset[u]
         /\ offset'[t] + graph.size[t] <= max_size'
         /\ max_size' \in Nat /\ max_size <= max_size' /\ max_size' <= Limit
<1>1. /\ t \in Ids /\ held \in [Ids -> Block] /\ allocated \in [Ids -> BOOLEAN]
      /\ offset \in [Ids -> Nat] /\ IsGraph(graph) /\ t \in 1..Count(graph)
  BY WalkFacts
<1> DEFINE n == Aligned(graph.size[t])
<1>2. graph.size[t] \in Sizes
  BY <1>1, GraphFacts
<1>3. n \in Nat /\ graph.size[t] <= n /\ graph.size[t] \in Nat
  BY <1>2, AlignedFacts, AllocAssumption
<1> HIDE DEF n
<1>4. PICK k \in Blocks :
        /\ free_blocks[k].offset + n < Limit
        /\ held' = [held EXCEPT ![t] = [offset |-> free_blocks[k].offset, size |-> n]]
        /\ max_size' = IF free_blocks[k].offset + n > max_size
                       THEN free_blocks[k].offset + n ELSE max_size
  BY DEF TakeSpace, AllocTensor, n
<1>5. /\ allocated' = [allocated EXCEPT ![t] = TRUE]
      /\ offset' = [offset EXCEPT ![t] = held'[t].offset]
  BY DEF TakeSpace
<1> DEFINE o == free_blocks[k].offset
<1>6. o \in Nat /\ max_size \in Nat /\ Limit \in Nat
  <2>1. free_blocks \in Seq(Block) /\ max_size \in Nat
    BY DEF GraphInv, AllocInv, AllocTypeOK
  <2>2. free_blocks[k] \in Block
    BY <2>1 DEF Blocks
  <2> QED
    BY <2>1, <2>2, BlockFacts, AllocAssumption
<1>7. held'[t] = [offset |-> o, size |-> n] /\ offset'[t] = o /\ allocated'[t]
  BY <1>1, <1>4, <1>5
<1>8. \A u \in Ids : u # t => /\ allocated'[u] = allocated[u]
                              /\ held'[u] = held[u] /\ offset'[u] = offset[u]
  BY <1>1, <1>4, <1>5
<1>9. o + n < Limit /\ max_size' = IF o + n > max_size THEN o + n ELSE max_size
  BY <1>4
<1> HIDE DEF o
<1>10. o + graph.size[t] <= o + n
  BY <1>3, <1>6
<1>11. /\ max_size' \in Nat /\ max_size <= max_size' /\ max_size' <= Limit
       /\ o + graph.size[t] <= max_size'
  <2>1. CASE o + n > max_size
    BY <1>3, <1>6, <1>9, <1>10, <2>1
  <2>2. CASE ~(o + n > max_size)
    BY <1>3, <1>6, <1>9, <1>10, <2>2
  <2> QED
    BY <2>1, <2>2
<1> QED
  BY <1>7, <1>8, <1>11 DEF HeldAt, n

\* A leaf is put apart from all leafs before it.
LEMMA AllocLeafValues ==
  ASSUME GraphInv, ValuesInv, AllocLeaf
  PROVE  ValuesInv'
<1>1. /\ pc = "leafs" /\ i <= graph.n_leafs /\ TakeSpace(i) /\ i' = i + 1
      /\ pc' = "leafs" /\ session' = session /\ graph' = graph
      /\ node_allocs' = node_allocs /\ leaf_allocs' = leaf_allocs
      /\ buffer_size' = buffer_size
  BY DEF AllocLeaf, Planning, planVars
<1>2. /\ IsGraph(graph) /\ i \in Nat /\ Count(graph) \in Nat /\ graph.n_leafs \in Nat
      /\ graph.n_leafs <= Count(graph) /\ Tensors = 1..Count(graph) /\ Tensors \subseteq Ids
      /\ offset \in [Ids -> Nat]
  BY WalkFacts
<1>3. i \in 1..(graph.n_leafs + 1)
  BY <1>1 DEF GraphInv, Walk
<1>4. i \in Tensors /\ i \in Ids
  BY <1>1, <1>2, <1>3
<1>5. ~allocated[i]
  BY <1>1, <1>2, <1>4 DEF GraphInv, SpaceMatches, InPlanning
<1>6. max_size <= Limit
  BY DEF ValuesInv, BelowMax
<1>7. /\ allocated'[i] /\ HeldAt(held', offset', graph, i)
      /\ \A u \in Ids : u # i => /\ allocated'[u] = allocated[u]
                                 /\ held'[u] = held[u] /\ offset'[u] = offset[u]
      /\ offset'[i] + graph.size[i] <= max_size'
      /\ max_size' \in Nat /\ max_size <= max_size' /\ max_size' <= Limit
  BY <1>1, <1>4, <1>5, <1>6, TakesPlace
<1>8. \A u \in Solid(graph) : u \in Ids /\ u \in Nat
  BY <1>2, SolidFacts
<1>9. \A u \in Solid(graph) : Placed(u) => u < i /\ u # i
  BY <1>1, <1>2, <1>8 DEF Placed
<1>10. \A u \in Solid(graph) : Placed(u)' => Placed(u) \/ u = i
  BY <1>1, <1>2, <1>8 DEF Placed
<1>11. \A u \in Solid(graph) : Placed(u) => allocated[u]
  BY <1>1 DEF ValuesInv, DueAreHeld, Due, InPlanning
<1>12. \A u \in Solid(graph) : allocated'[u] => HeldAt(held', offset', graph, u)
  <2> TAKE u \in Solid(graph)
  <2>1. CASE u = i
    BY <1>7, <2>1
  <2>2. CASE u # i
    <3>1. allocated[u] => HeldAt(held, offset, graph, u)
      BY <1>1 DEF ValuesInv, DueAreHeld, InPlanning
    <3> QED
      BY <1>7, <1>8, <2>2, <3>1 DEF HeldAt
  <2> QED
    BY <2>1, <2>2
<1>13. \A u \in Solid(graph) : Placed(u) => allocated'[u]
  BY <1>7, <1>8, <1>9, <1>11
<1>14. DueAreHeld'
  BY <1>1, <1>7, <1>10, <1>12, <1>13 DEF DueAreHeld
<1>15. AllocInv'
  BY AllocLeafSafe DEF GraphInv
<1>16. ApartSoFar' /\ BelowMax'
  <2>1. InPlanning
    BY <1>1 DEF InPlanning
  <2>2. \A u \in Solid(graph) : u # i => offset'[u] = offset[u]
    BY <1>7, <1>8
  <2> QED
    BY <1>1, <1>2, <1>4, <1>7, <1>9, <1>10, <1>12, <1>13, <1>15, <2>1, <2>2, NewPlace
<1>17. ToCome' /\ KeptIsSafe' /\ Running'
  BY <1>1, PlanKept DEF Running
<1> QED
  BY <1>14, <1>16, <1>17 DEF ValuesInv

\* All leafs have their places.
LEMMA CountAllValues ==
  ASSUME GraphInv, ValuesInv, CountAll
  PROVE  ValuesInv'
<1>1. /\ pc = "leafs" /\ pc' = "node" /\ i' = i /\ session' = session /\ graph' = graph
      /\ node_allocs' = node_allocs /\ leaf_allocs' = leaf_allocs
      /\ buffer_size' = buffer_size /\ allocated' = allocated /\ offset' = offset
      /\ held' = held /\ max_size' = max_size
  BY DEF CountAll, Planning, planVars, allocVars
<1>2. \A u \in Solid(graph) : Placed(u)' => Placed(u)
  BY <1>1 DEF Placed
<1>3. \A u \in Solid(graph) : Placed(u) => allocated[u]
  BY <1>1 DEF ValuesInv, DueAreHeld, Due, InPlanning
<1>4. \A u \in Solid(graph) : allocated[u] => HeldAt(held, offset, graph, u)
  BY <1>1 DEF ValuesInv, DueAreHeld, InPlanning
<1>5. DueAreHeld'
  BY <1>1, <1>2, <1>3, <1>4 DEF DueAreHeld
<1>6. ApartSoFar' /\ BelowMax'
  <2>1. InPlanning
    BY <1>1 DEF InPlanning
  <2> QED
    BY <1>1, <1>2, <2>1, PlacesKept
<1>7. ToCome' /\ KeptIsSafe' /\ Running'
  BY <1>1, PlanKept DEF Running
<1> QED
  BY <1>5, <1>6, <1>7 DEF ValuesInv

\* A parent that is overwritten is read by this node for the last time.
LEMMA TakesOver ==
  ASSUME GraphInv, ValuesInv, pc = "node", i \in Tensors, ~allocated[i], AllocInplace
  PROVE  \E p \in Solid(graph) :
           /\ p < i /\ allocated[p] /\ ~graph.output[p] /\ n_views[p] = 0
           /\ \A r \in Reads(p) : ~(r[1] > i)
           /\ ~allocated'[p] /\ allocated'[i] /\ HeldAt(held', offset', graph, i)
           /\ offset'[i] + graph.size[i] <= max_size /\ offset'[p] = offset[p]
           /\ \A u \in Ids : u # i /\ u # p =>
                /\ allocated'[u] = allocated[u]
                /\ held'[u] = held[u] /\ offset'[u] = offset[u]
<1>1. /\ i \in Ids /\ held \in [Ids -> Block] /\ allocated \in [Ids -> BOOLEAN]
      /\ offset \in [Ids -> Nat] /\ IsGraph(graph) /\ i \in Nat
      /\ Tensors = 1..Count(graph) /\ Tensors \subseteq Ids
  BY WalkFacts
<1>2. PICK l \in Candidates(i) :
        /\ offset' = [offset EXCEPT ![i] = offset[graph.src[i][l]]]
        /\ allocated' = [allocated EXCEPT ![graph.src[i][l]] = FALSE, ![i] = TRUE]
        /\ held' = [held EXCEPT ![i] = held[graph.src[i][l]], ![graph.src[i][l]] = Nothing]
  BY DEF AllocInplace
<1> DEFINE p == graph.src[i][l]
<1>3. /\ l \in 1..Len(graph.src[i]) /\ allocated[p] /\ ~graph.output[p]
      /\ graph.size[p] = graph.size[i] /\ n_children[p] = 1 /\ n_views[p] = 0
  BY DEF Candidates, Reusable
<1>4. p \in Tensors /\ p < i
  BY <1>1, <1>3, GraphFacts
<1>5. <<i, l>> \in Reads(p)
  BY <1>1, <1>3, ReadsFacts
<1>6. /\ offset' = [offset EXCEPT ![i] = offset[p]]
      /\ allocated' = [allocated EXCEPT ![p] = FALSE, ![i] = TRUE]
      /\ held' = [held EXCEPT ![i] = held[p], ![p] = Nothing]
  BY <1>2
<1> HIDE DEF p
<1>7. p \in Ids /\ p \in Nat /\ p # i
  BY <1>1, <1>4
<1>8. p \in Solid(graph)
  <2>1. ~IsView(graph, p)
    BY <1>3, <1>7 DEF GraphInv, SpaceMatches, InPlanning
  <2> QED
    BY <1>1, <1>4, <2>1 DEF Solid
<1>9. ASSUME NEW r \in Reads(p), r[1] > i PROVE FALSE
  <2>1. r \in Remaining(p) /\ <<i, l>> \in Remaining(p)
    BY <1>5, <1>9 DEF Remaining
  <2>2. n_children[p] = Cardinality(Remaining(p)) /\ IsFiniteSet(Remaining(p))
    BY <1>1, <1>7, CountedFinite DEF GraphInv, Counted, Updating
  <2>3. PICK x : Remaining(p) = {x}
    BY <1>3, <2>2, FS_Singleton
  <2>4. r = <<i, l>>
    BY <2>1, <2>3
  <2> QED
    BY <1>1, <1>9, <2>4
<1>10. HeldAt(held, offset, graph, p)
  BY <1>3, <1>8 DEF ValuesInv, DueAreHeld, InPlanning
<1>11. Placed(p)
  BY <1>4, <1>8 DEF Placed
<1>12. offset[p] + graph.size[p] <= max_size
  BY <1>8, <1>11 DEF ValuesInv, BelowMax, InPlanning
<1>13. allocated'[i] /\ ~allocated'[p] /\ held'[i] = held[p] /\ offset'[i] = offset[p]
       /\ offset'[p] = offset[p]
  BY <1>1, <1>6, <1>7
<1>14. HeldAt(held', offset', graph, i)
  BY <1>3, <1>10, <1>13 DEF HeldAt
<1>15. offset'[i] + graph.size[i] <= max_size
  BY <1>3, <1>12, <1>13
<1>16. \A u \in Ids : u # i /\ u # p =>
         /\ allocated'[u] = allocated[u]
         /\ held'[u] = held[u] /\ offset'[u] = offset[u]
  BY <1>1, <1>6, <1>7
<1> QED
  BY <1>3, <1>4, <1>8, <1>9, <1>13, <1>14, <1>15, <1>16

\* Node i gets a place, unless it is a view, and whoever is needed later keeps its own.
LEMMA NodePlaced ==
  ASSUME GraphInv, ValuesInv, pc = "node", i \in Tensors, ~allocated[i],
         AllocView \/ AllocInplace \/ AllocSpace
  PROVE  /\ i \in Solid(graph) =>
              /\ allocated'[i] /\ HeldAt(held', offset', graph, i)
              /\ offset'[i] + graph.size[i] <= max_size'
         /\ \A u \in Solid(graph) : u # i =>
              /\ offset'[u] = offset[u]
              /\ allocated'[u] => allocated[u] /\ held'[u] = held[u]
              /\ \/ graph.output[u] \/ n_views[u] > 0
                 \/ \E r \in Reads(u) : r[1] > i
                 => allocated'[u] = allocated[u]
         /\ max_size' \in Nat /\ max_size <= max_size' /\ max_size' <= Limit
<1>1. max_size \in Nat /\ max_size <= Limit
  BY DEF ValuesInv, BelowMax, GraphInv, GraphTypeOK, AllocTypeOK
<1>2. \A u \in Solid(graph) : u \in Ids
  BY WalkFacts, SolidFacts
<1>3. CASE AllocView
  <2>1. i \notin Solid(graph)
    BY <1>3 DEF AllocView, Solid
  <2>2. allocated' = allocated /\ offset' = offset /\ held' = held /\ max_size' = max_size
    BY <1>3 DEF AllocView, allocVars
  <2> QED
    BY <1>1, <2>1, <2>2
<1>4. CASE AllocSpace
  <2>1. TakeSpace(i)
    BY <1>4 DEF AllocSpace
  <2>2. /\ allocated'[i] /\ HeldAt(held', offset', graph, i)
        /\ \A u \in Ids : u # i => /\ allocated'[u] = allocated[u]
                                   /\ held'[u] = held[u] /\ offset'[u] = offset[u]
        /\ offset'[i] + graph.size[i] <= max_size'
        /\ max_size' \in Nat /\ max_size <= max_size' /\ max_size' <= Limit
    BY <1>1, <2>1, TakesPlace
  <2> QED
    BY <1>2, <2>2
<1>5. CASE AllocInplace
  <2>1. PICK p \in Solid(graph) :
           /\ p < i /\ allocated[p] /\ ~graph.output[p] /\ n_views[p] = 0
           /\ \A r \in Reads(p) : ~(r[1] > i)
           /\ ~allocated'[p] /\ allocated'[i] /\ HeldAt(held', offset', graph, i)
           /\ offset'[i] + graph.size[i] <= max_size /\ offset'[p] = offset[p]
           /\ \A u \in Ids : u # i /\ u # p =>
                /\ allocated'[u] = allocated[u]
                /\ held'[u] = held[u] /\ offset'[u] = offset[u]
    BY <1>5, TakesOver
  <2>2. max_size' = max_size
    BY <1>5 DEF AllocInplace
  <2>3. ASSUME NEW u \in Solid(graph), u # i
        PROVE  /\ offset'[u] = offset[u]
               /\ allocated'[u] => allocated[u] /\ held'[u] = held[u]
               /\ (\/ graph.output[u] \/ n_views[u] > 0
                   \/ \E r \in Reads(u) : r[1] > i)
                  => allocated'[u] = allocated[u]
    <3>1. CASE u = p
      BY <2>1, <3>1
    <3>2. CASE u # p
      BY <1>2, <2>1, <2>3, <3>2
    <3> QED
      BY <3>1, <3>2
  <2> QED
    BY <1>1, <2>1, <2>2, <2>3
<1> QED
  BY <1>3, <1>4, <1>5

\* A node is put apart from whatever is needed after it.
LEMMA AllocNodeValues ==
  ASSUME GraphInv, ValuesInv, AllocNode
  PROVE  ValuesInv'
<1>1. /\ pc = "node" /\ i <= Count(graph)
      /\ (AllocView \/ AllocInplace \/ AllocSpace)
      /\ pc' = "parents" /\ i' = i /\ n_children' = n_children /\ n_views' = n_views
      /\ session' = session /\ graph' = graph
      /\ node_allocs' = node_allocs /\ leaf_allocs' = leaf_allocs
      /\ buffer_size' = buffer_size
  BY DEF AllocNode, Planning, planVars
<1>2. /\ IsGraph(graph) /\ i \in Nat /\ Count(graph) \in Nat /\ graph.n_leafs \in Nat
      /\ Tensors = 1..Count(graph) /\ Tensors \subseteq Ids /\ offset \in [Ids -> Nat]
  BY WalkFacts
<1>3. i \in (graph.n_leafs + 1)..(Count(graph) + 1)
  BY <1>1 DEF GraphInv, Walk
<1>4. i \in Tensors /\ i \in Ids /\ graph.n_leafs < i
  BY <1>1, <1>2, <1>3
<1>5. ~allocated[i]
  BY <1>1, <1>2, <1>4 DEF GraphInv, SpaceMatches, InPlanning
<1>6. /\ i \in Solid(graph) =>
              /\ allocated'[i] /\ HeldAt(held', offset', graph, i)
              /\ offset'[i] + graph.size[i] <= max_size'
      /\ \A u \in Solid(graph) : u # i =>
           /\ offset'[u] = offset[u]
           /\ allocated'[u] => allocated[u] /\ held'[u] = held[u]
           /\ (\/ graph.output[u] \/ n_views[u] > 0
               \/ \E r \in Reads(u) : r[1] > i)
              => allocated'[u] = allocated[u]
      /\ max_size' \in Nat /\ max_size <= max_size' /\ max_size' <= Limit
  BY <1>1, <1>4, <1>5, NodePlaced
<1>7. \A u \in Solid(graph) : u \in Ids /\ u \in Nat
  BY <1>2, SolidFacts
<1>8. \A u \in Solid(graph) : Placed(u) => u < i /\ u # i
  BY <1>1, <1>2, <1>7 DEF Placed
<1>9. \A u \in Solid(graph) : Placed(u)' => Placed(u) \/ u = i
  BY <1>1 DEF Placed
<1>10. \A u : Reads(u)' = Reads(u)
  BY <1>1 DEF Reads, Tensors
<1>11. \A u \in Solid(graph) : allocated'[u] => HeldAt(held', offset', graph, u)
  <2> TAKE u \in Solid(graph)
  <2>1. CASE u = i
    BY <1>6, <2>1
  <2>2. CASE u # i
    <3>1. allocated[u] => HeldAt(held, offset, graph, u)
      BY <1>1 DEF ValuesInv, DueAreHeld, InPlanning
    <3> QED
      BY <1>6, <2>2, <3>1 DEF HeldAt
  <2> QED
    BY <2>1, <2>2
<1>12. ASSUME NEW u \in Solid(graph), Placed(u),
              graph.output[u] \/ n_views[u] > 0 \/ \E r \in Reads(u) : r[1] > i
       PROVE  allocated'[u]
  <2>1. Due(u)
    BY <1>12 DEF Due
  <2>2. allocated[u]
    BY <1>1, <1>12, <2>1 DEF ValuesInv, DueAreHeld, InPlanning
  <2> QED
    BY <1>6, <1>8, <1>12, <2>2
<1>13. DueAreHeld'
  <2>1. ASSUME NEW u \in Solid(graph), Placed(u)', Due(u)' PROVE allocated'[u]
    <3>1. CASE u = i
      BY <1>6, <3>1
    <3>2. CASE u # i
      <4>1. Placed(u)
        BY <1>9, <2>1, <3>2
      <4>2. graph.output[u] \/ n_views[u] > 0 \/ \E r \in Reads(u) : r[1] > i
        BY <1>1, <1>10, <2>1 DEF Due
      <4> QED
        BY <1>12, <4>1, <4>2
    <3> QED
      BY <3>1, <3>2
  <2> QED
    BY <1>1, <1>11, <2>1 DEF DueAreHeld
<1>14. ASSUME NEW u \in Solid(graph), Placed(u),
              Endangers(graph, i, u) \/ Endangers(graph, u, i)
       PROVE  allocated'[u]
  <2>1. u < i /\ u \in Nat
    BY <1>7, <1>8, <1>14
  <2>2. Awaited(graph, u, i + 1)
    BY <1>2, <1>4, <1>14, <2>1 DEF Endangers
  <2>3. OutputsAreKept(graph)
    <3>1. session # <<>> /\ session \in Seq({session[k] : k \in DOMAIN session})
      BY DEF GraphInv, Known
    <3>2. 1 \in 1..Len(session)
      BY <3>1
    <3> QED
      BY <3>2 DEF ValuesInv, ToCome
  <2> QED
    BY <1>1, <1>12, <1>14, <2>2, <2>3, AwaitedIsDue
<1>15. AllocInv'
  BY AllocNodeSafe DEF GraphInv
<1>16. ApartSoFar' /\ BelowMax'
  <2>1. InPlanning
    BY <1>1 DEF InPlanning
  <2>2. \A u \in Solid(graph) : u # i => offset'[u] = offset[u]
    BY <1>6
  <2>3. \A u \in Solid(graph) : Placed(u) => u < i
    BY <1>8
  <2> QED
    BY <1>1, <1>2, <1>4, <1>6, <1>9, <1>11, <1>14, <1>15, <2>1, <2>2, <2>3, NewPlace
<1>17. ToCome' /\ KeptIsSafe' /\ Running'
  BY <1>1, PlanKept DEF Running
<1> QED
  BY <1>13, <1>16, <1>17 DEF ValuesInv

\* Freeing a tensor concerns no other.
LEMMA NodeFreed ==
  ASSUME GraphInv, NEW t \in Ids, FreeNode(t)
  PROVE  /\ max_size' = max_size
         /\ \A u \in Ids : u # t => allocated'[u] = allocated[u] /\ held'[u] = held[u]
         /\ graph.output[t] => allocated'[t] = allocated[t] /\ held'[t] = held[t]
         /\ ~graph.output[t] => ~allocated'[t]
<1>1. allocated \in [Ids -> BOOLEAN] /\ held \in [Ids -> Block]
  BY WalkFacts
<1>2. CASE graph.output[t]
  BY <1>2 DEF FreeNode, allocVars
<1>3. CASE ~graph.output[t]
  <2>1. /\ allocated' = [allocated EXCEPT ![t] = FALSE] /\ max_size' = max_size
        /\ held' = [held EXCEPT ![t] = Nothing]
    BY <1>3 DEF FreeNode, FreeTensor
  <2> QED
    BY <1>1, <1>3, <2>1
<1> QED
  BY <1>2, <1>3

\* Only a tensor is freed that no later node reads or shows.
LEMMA FreedIsDone ==
  ASSUME GraphInv, UpdateParent
  PROVE  /\ max_size' = max_size
         /\ \A u \in Ids : n_views'[u] <= n_views[u]
         /\ \E t \in Ids :
              /\ \A u \in Ids : u # t => allocated'[u] = allocated[u] /\ held'[u] = held[u]
              /\ \/ allocated'[t] = allocated[t] /\ held'[t] = held[t]
                 \/ /\ ~allocated'[t] /\ ~graph.output[t] /\ n_views'[t] = 0
                    /\ \A r \in Reads(t) : ~(r[1] > i)
<1> DEFINE p == graph.src[i][j]
           root == graph.view_src[p]
           Gone == n_views'[root] = 0 /\ n_children[root] = 0 /\ allocated[root]
           Kept == UNCHANGED <<allocVars, allocated>>
<1>1. pc = "parents" /\ j <= Len(graph.src[i])
  BY DEF UpdateParent
<1>2. IF LastReader(p) /\ IsView(graph, p)
      THEN /\ n_views' = [n_views EXCEPT ![root] = @ - 1]
           /\ IF Gone THEN FreeNode(root) ELSE UNCHANGED <<allocVars, allocated>>
      ELSE /\ n_views' = n_views
           /\ IF LastReader(p) /\ allocated[p]
              THEN FreeNode(p) ELSE UNCHANGED <<allocVars, allocated>>
  BY DEF UpdateParent
<1>3. p \in Tensors /\ p \in Ids /\ <<i, j>> \in Remaining(p) /\ i \in Nat
  BY <1>1, ParentFacts, WalkFacts
<1>4. /\ n_views \in [Ids -> Nat] /\ allocated \in [Ids -> BOOLEAN] /\ IsGraph(graph)
      /\ Tensors = 1..Count(graph) /\ Tensors \subseteq Ids
  BY WalkFacts
<1>5. IsView(graph, p) => root \in Ids
  BY <1>3, <1>4, ViewsShowRoots
<1>6. \A u \in Ids : n_children[u] = Cardinality(Remaining(u)) /\ IsFiniteSet(Remaining(u))
  BY <1>1, <1>4, CountedFinite DEF GraphInv, Counted, Updating
<1>7. \/ LastReader(p) /\ IsView(graph, p) /\ Gone /\ FreeNode(root)
      \/ ~(LastReader(p) /\ IsView(graph, p)) /\ LastReader(p) /\ FreeNode(p)
      \/ Kept
  BY <1>2
<1>8. \A u \in Ids : n_views'[u] <= n_views[u]
  <2>1. CASE LastReader(p) /\ IsView(graph, p)
    <3>1. n_views' = [n_views EXCEPT ![root] = @ - 1] /\ root \in Ids
      BY <1>2, <1>5, <2>1
    <3> QED
      BY <1>4, <3>1
  <2>2. CASE ~(LastReader(p) /\ IsView(graph, p))
    BY <1>2, <1>4, <2>2
  <2> QED
    BY <2>1, <2>2
<1> HIDE DEF p, root
<1>9. CASE LastReader(p) /\ IsView(graph, p) /\ Gone /\ FreeNode(root)
  <2>1. root \in Ids
    BY <1>5, <1>9
  <2>2. ASSUME NEW r \in Reads(root), r[1] > i PROVE FALSE
    <3>1. r \in Remaining(root)
      BY <2>2 DEF Remaining
    <3>2. Cardinality(Remaining(root)) = 0 /\ IsFiniteSet(Remaining(root))
      BY <1>6, <1>9, <2>1
    <3> QED
      BY <3>1, <3>2, FS_EmptySet
  <2>3. /\ max_size' = max_size
        /\ \A u \in Ids : u # root => allocated'[u] = allocated[u] /\ held'[u] = held[u]
        /\ graph.output[root] => allocated'[root] = allocated[root] /\ held'[root] = held[root]
        /\ ~graph.output[root] => ~allocated'[root]
    BY <1>9, <2>1, NodeFreed
  <2> QED
    BY <1>8, <1>9, <2>1, <2>2, <2>3
<1>10. CASE ~(LastReader(p) /\ IsView(graph, p)) /\ LastReader(p) /\ FreeNode(p)
  <2>1. n_children[p] = 1 /\ n_views[p] = 0 /\ n_views' = n_views
    BY <1>2, <1>10 DEF LastReader, p, root
  <2>2. ASSUME NEW r \in Reads(p), r[1] > i PROVE FALSE
    <3>1. r \in Remaining(p)
      BY <2>2 DEF Remaining
    <3>2. PICK x : Remaining(p) = {x}
      BY <1>3, <1>6, <2>1, FS_Singleton
    <3>3. r = <<i, j>>
      BY <1>3, <3>1, <3>2
    <3> QED
      BY <1>3, <2>2, <3>3
  <2>3. /\ max_size' = max_size
        /\ \A u \in Ids : u # p => allocated'[u] = allocated[u] /\ held'[u] = held[u]
        /\ graph.output[p] => allocated'[p] = allocated[p] /\ held'[p] = held[p]
        /\ ~graph.output[p] => ~allocated'[p]
    BY <1>3, <1>10, NodeFreed
  <2> QED
    BY <1>3, <1>8, <2>1, <2>2, <2>3
<1>11. CASE Kept
  BY <1>3, <1>8, <1>11 DEF allocVars
<1> QED
  BY <1>7, <1>9, <1>10, <1>11

\* No tensor that is needed later is freed.
LEMMA UpdateParentValues ==
  ASSUME GraphInv, ValuesInv, UpdateParent
  PROVE  ValuesInv'
<1>1. /\ pc = "parents" /\ pc' = "parents" /\ i' = i /\ offset' = offset
      /\ session' = session /\ graph' = graph
      /\ node_allocs' = node_allocs /\ leaf_allocs' = leaf_allocs
      /\ buffer_size' = buffer_size
  BY DEF UpdateParent, Planning, planVars
<1>2. /\ max_size' = max_size
      /\ \A u \in Ids : n_views'[u] <= n_views[u]
  BY FreedIsDone
<1>3. PICK t \in Ids :
        /\ \A u \in Ids : u # t => allocated'[u] = allocated[u] /\ held'[u] = held[u]
        /\ \/ allocated'[t] = allocated[t] /\ held'[t] = held[t]
           \/ /\ ~allocated'[t] /\ ~graph.output[t] /\ n_views'[t] = 0
              /\ \A r \in Reads(t) : ~(r[1] > i)
  BY FreedIsDone
<1>4. \A u \in Solid(graph) : u \in Ids
  BY WalkFacts, SolidFacts
<1>5. n_views \in [Ids -> Nat] /\ n_views' \in [Ids -> Nat] /\ i \in Nat
  BY WalkFacts, CountersUpdated
<1>6. \A u : Reads(u)' = Reads(u)
  BY <1>1 DEF Reads, Tensors
<1>7. ASSUME NEW u \in Solid(graph), Placed(u)', Due(u)' PROVE allocated'[u]
  <2>1. graph.output[u] \/ n_views'[u] > 0 \/ \E r \in Reads(u) : r[1] > i
    BY <1>1, <1>6, <1>7 DEF Due
  <2>2. n_views'[u] > 0 => n_views[u] > 0
    BY <1>2, <1>4, <1>5
  <2>3. Placed(u) /\ Due(u)
    BY <1>1, <1>7, <2>1, <2>2 DEF Placed, Due
  <2>4. allocated[u]
    BY <1>1, <2>3 DEF ValuesInv, DueAreHeld, InPlanning
  <2>5. u = t => allocated'[t] = allocated[t]
    BY <1>3, <2>1
  <2> QED
    BY <1>3, <1>4, <2>4, <2>5
<1>8. ASSUME NEW u \in Solid(graph), allocated'[u] PROVE HeldAt(held', offset, graph, u)
  <2>1. allocated'[u] = allocated[u] /\ held'[u] = held[u]
    BY <1>3, <1>4, <1>8
  <2>2. HeldAt(held, offset, graph, u)
    BY <1>1, <1>8, <2>1 DEF ValuesInv, DueAreHeld, InPlanning
  <2> QED
    BY <2>1, <2>2 DEF HeldAt
<1>9. DueAreHeld'
  BY <1>1, <1>7, <1>8 DEF DueAreHeld
<1>10. ApartSoFar' /\ BelowMax'
  <2>1. InPlanning
    BY <1>1 DEF InPlanning
  <2>2. \A u \in Solid(graph) : Placed(u)' => Placed(u)
    BY <1>1 DEF Placed
  <2> QED
    BY <1>1, <1>2, <2>1, <2>2, PlacesKept
<1>11. ToCome' /\ KeptIsSafe' /\ Running'
  BY <1>1, PlanKept DEF Running
<1> QED
  BY <1>9, <1>10, <1>11 DEF ValuesInv

\* The walk goes on to the next node.
LEMMA NextNodeValues ==
  ASSUME GraphInv, ValuesInv, NextNode
  PROVE  ValuesInv'
<1>1. /\ pc = "parents" /\ pc' = "node" /\ i' = i + 1
      /\ n_views' = n_views /\ allocated' = allocated /\ offset' = offset
      /\ held' = held /\ max_size' = max_size
      /\ session' = session /\ graph' = graph
      /\ node_allocs' = node_allocs /\ leaf_allocs' = leaf_allocs
      /\ buffer_size' = buffer_size
  BY DEF NextNode, Planning, planVars, hashVars, allocVars
<1>2. i \in Nat /\ IsGraph(graph) /\ \A u \in Solid(graph) : u \in Nat
  BY WalkFacts, SolidFacts
<1>3. \A u \in Solid(graph) : Placed(u)' => Placed(u)
  BY <1>1, <1>2 DEF Placed
<1>4. \A u : Reads(u)' = Reads(u)
  BY <1>1 DEF Reads, Tensors
<1>5. ASSUME NEW u \in Solid(graph), Due(u)' PROVE Due(u)
  <2>1. CASE \E r \in Reads(u) : r[1] > i + 1 \/ r[1] = i + 1
    <3>1. PICK r \in Reads(u) : r[1] > i + 1 \/ r[1] = i + 1
      BY <2>1
    <3>2. r[1] \in Nat
      BY <1>2, ReadsFacts DEF Tensors
    <3> QED
      BY <1>2, <3>1, <3>2 DEF Due
  <2>2. CASE graph.output[u] \/ n_views[u] > 0
    BY <2>2 DEF Due
  <2> QED
    BY <1>1, <1>4, <1>5, <2>1, <2>2 DEF Due
<1>6. \A u \in Solid(graph) :
        /\ Placed(u) /\ Due(u) => allocated[u]
        /\ allocated[u] => HeldAt(held, offset, graph, u)
  BY <1>1 DEF ValuesInv, DueAreHeld, InPlanning
<1>7. DueAreHeld'
  BY <1>1, <1>3, <1>5, <1>6 DEF DueAreHeld
<1>8. ApartSoFar' /\ BelowMax'
  <2>1. InPlanning
    BY <1>1 DEF InPlanning
  <2> QED
    BY <1>1, <1>3, <2>1, PlacesKept
<1>9. ToCome' /\ KeptIsSafe' /\ Running'
  BY <1>1, PlanKept DEF Running
<1> QED
  BY <1>7, <1>8, <1>9 DEF ValuesInv

-----------------------------------------------------------------------------
(* Keeping and using the plan                                              *)

\* Graphs of the same shape need the same tensors at the same time.
LEMMA ShapeFacts ==
  ASSUME NEW g, NEW h, Count(g) = Count(h), SameShape(g, h)
  PROVE  /\ g.n_leafs = h.n_leafs /\ g.src = h.src /\ g.view_src = h.view_src
         /\ Solid(h) = Solid(g) /\ \A t : Root(h, t) = Root(g, t)
         /\ \A u, t : Awaited(h, u, t) <=> Awaited(g, u, t)
         /\ \A u, w : Endangers(h, w, u) <=> Endangers(g, w, u)
<1>1. /\ g.n_leafs = h.n_leafs /\ g.src = h.src /\ g.view_src = h.view_src
      /\ g.output = h.output
  BY DEF SameShape
<1>2. \A t : IsView(h, t) <=> IsView(g, t)
  BY <1>1 DEF IsView
<1>3. Solid(h) = Solid(g) /\ \A t : Root(h, t) = Root(g, t)
  BY <1>1, <1>2 DEF Solid, Root
<1>4. \A u, t : Awaited(h, u, t) <=> Awaited(g, u, t)
  BY <1>1, <1>3 DEF Awaited
<1>5. \A u, w : Endangers(h, w, u) <=> Endangers(g, w, u)
  BY <1>1, <1>4 DEF Endangers
<1> QED
  BY <1>1, <1>3, <1>4, <1>5

\* The plan of a graph is safe for one of the same shape that is no larger.
LEMMA SafeForSmaller ==
  ASSUME NEW g, IsGraph(g), NEW h, IsGraph(h), Count(g) = Count(h), SameShape(g, h),
         NEW off, NEW new, \A u \in Solid(g) : off[u] \in Nat /\ new[u] = off[u],
         \A u \in Solid(g) : h.size[u] <= g.size[u],
         NEW n \in Nat, NEW m \in Nat, n <= m, PlanIsSafe(g, off), PlanFits(g, off, n)
  PROVE  PlanIsSafe(h, new) /\ PlanFits(h, new, m)
<1>1. Solid(h) = Solid(g) /\ \A u, w : Endangers(h, w, u) <=> Endangers(g, w, u)
  BY ShapeFacts
<1>2. ASSUME NEW u \in Solid(g)
      PROVE  /\ off[u] \in Nat /\ h.size[u] \in Nat /\ g.size[u] \in Nat
             /\ h.size[u] <= g.size[u] /\ new[u] = off[u]
  <2>1. u \in Ids /\ g.size[u] \in Nat
    BY SolidFacts
  <2>2. h.size[u] \in Nat
    BY <1>1, SolidFacts
  <2> QED
    BY <2>1, <2>2
<1>3. \A u \in Solid(g) : Place(h, new, u) \subseteq Place(g, off, u)
  BY <1>2 DEF Place
<1>4. ASSUME NEW u \in Solid(g), NEW w \in Solid(g), Endangers(h, w, u)
      PROVE  Disjoint(h, new, u, w)
  <2>1. Disjoint(g, off, u, w)
    BY <1>1, <1>4 DEF PlanIsSafe
  <2> QED
    BY <1>3, <2>1 DEF Disjoint
<1>5. ASSUME NEW u \in Solid(g) PROVE new[u] + h.size[u] <= m
  <2>1. off[u] + g.size[u] <= n
    BY DEF PlanFits
  <2> QED
    BY <1>2, <2>1
<1> QED
  BY <1>1, <1>4, <1>5 DEF PlanIsSafe, PlanFits

\* A complete plan is safe, and fits in what it took at most.
LEMMA PlanComplete ==
  ASSUME GraphInv, ValuesInv, pc = "node", i > Count(graph)
  PROVE  PlanIsSafe(graph, offset) /\ PlanFits(graph, offset, max_size)
<1>1. ASSUME NEW u \in Solid(graph) PROVE Placed(u)
  <2>1. u \in 1..Count(graph) /\ i \in Nat /\ Count(graph) \in Nat
    BY WalkFacts, SolidFacts
  <2>2. u < i
    BY <2>1
  <2> QED
    BY <2>2 DEF Placed
<1>2. InPlanning
  BY DEF InPlanning
<1>3. PlanIsSafe(graph, offset)
  BY <1>1, <1>2 DEF ValuesInv, ApartSoFar, PlanIsSafe
<1>4. PlanFits(graph, offset, max_size)
  BY <1>1, <1>2 DEF ValuesInv, BelowMax, PlanFits
<1> QED
  BY <1>3, <1>4

\* What is kept of the plan
LEMMA KeptFacts ==
  ASSUME GraphInv, KeepPlan
  PROVE  /\ Len(leaf_allocs') = graph.n_leafs /\ Len(node_allocs') = NNodes(graph)
         /\ \A t \in Tensors : Offsets'[t] = offset[t]
         /\ \A k \in 1..NNodes(graph) :
              /\ node_allocs'[k].dst.size_max = Room(graph, Node(k))
              /\ \A l \in 1..Len(graph.src[Node(k)]) :
                   KeptSize(k, l)' = Room(graph, graph.src[Node(k)][l])
<1>1. /\ leaf_allocs' = [k \in 1..graph.n_leafs |-> Planned(k)]
      /\ node_allocs' = [k \in 1..NNodes(graph) |->
           [dst |-> Planned(Node(k)),
            src |-> [l \in 1..Len(graph.src[Node(k)]) |-> Planned(graph.src[Node(k)][l])]]]
  BY DEF KeepPlan
<1>2. /\ Count(graph) \in Nat /\ graph.n_leafs \in Nat /\ graph.n_leafs <= Count(graph)
      /\ IsGraph(graph) /\ Tensors = 1..Count(graph) /\ Tensors \subseteq Ids
  BY WalkFacts
<1>3. NNodes(graph) \in Nat /\ NNodes(graph) = Count(graph) - graph.n_leafs
  BY <1>2 DEF NNodes
<1>4. Len(leaf_allocs') = graph.n_leafs /\ Len(node_allocs') = NNodes(graph)
  BY <1>1, <1>2, <1>3
<1>5. ASSUME NEW t \in Tensors PROVE Offsets'[t] = offset[t]
  <2>1. t \in Ids /\ t \in Nat
    BY <1>2
  <2>2. Offsets'[t] = IF t <= graph.n_leafs THEN leaf_allocs'[t].offset
                      ELSE node_allocs'[t - graph.n_leafs].dst.offset
    BY <1>4, <2>1 DEF Offsets
  <2>3. CASE t <= graph.n_leafs
    <3>1. leaf_allocs'[t] = Planned(t)
      BY <1>1, <1>2, <2>1, <2>3
    <3> QED
      BY <2>2, <2>3, <3>1 DEF Planned
  <2>4. CASE ~(t <= graph.n_leafs)
    <3>1. t - graph.n_leafs \in 1..NNodes(graph) /\ Node(t - graph.n_leafs) = t
      BY <1>2, <1>3, <2>1, <2>4 DEF Node
    <3>2. node_allocs'[t - graph.n_leafs] =
            [dst |-> Planned(t),
             src |-> [l \in 1..Len(graph.src[t]) |-> Planned(graph.src[t][l])]]
      BY <1>1, <3>1
    <3> QED
      BY <2>2, <2>4, <3>2 DEF Planned
  <2> QED
    BY <2>3, <2>4
<1>6. ASSUME NEW k \in 1..NNodes(graph)
      PROVE  /\ node_allocs'[k].dst.size_max = Room(graph, Node(k))
             /\ \A l \in 1..Len(graph.src[Node(k)]) :
                  KeptSize(k, l)' = Room(graph, graph.src[Node(k)][l])
  <2> DEFINE s == [l \in 1..Len(graph.src[Node(k)]) |-> Planned(graph.src[Node(k)][l])]
  <2>1. node_allocs'[k] = [dst |-> Planned(Node(k)), src |-> s]
    BY <1>1
  <2>2. node_allocs'[k].dst.size_max = Room(graph, Node(k)) /\ node_allocs'[k].src = s
    BY <2>1 DEF Planned
  <2>3. Len(graph.src[Node(k)]) \in Nat
    <3>1. Node(k) \in 1..Count(graph)
      BY <1>2, <1>3 DEF Node
    <3>2. graph.src[Node(k)] \in Seq(1..Count(graph))
      BY <1>2, <3>1, GraphFacts
    <3> QED
      BY <3>2
  <2>4. Len(s) = Len(graph.src[Node(k)])
    BY <2>3
  <2>5. ASSUME NEW l \in 1..Len(graph.src[Node(k)])
        PROVE  KeptSize(k, l)' = Room(graph, graph.src[Node(k)][l])
    <3>1. s[l].size_max = Room(graph, graph.src[Node(k)][l])
      BY DEF Planned
    <3> HIDE DEF s
    <3>2. KeptSize(k, l)' = IF l <= Len(node_allocs'[k].src)
                            THEN node_allocs'[k].src[l].size_max ELSE 0
      BY DEF KeptSize
    <3>3. l <= Len(s)
      BY <2>3, <2>4
    <3> QED
      BY <2>2, <3>1, <3>2, <3>3
  <2> QED
    BY <2>2, <2>5
<1> QED
  BY <1>4, <1>5, <1>6

\* Whoever would use the new plan needs no more than it was made for.
LEMMA ServedIsNoLarger ==
  ASSUME GraphInv, KeepPlan, NEW h, IsGraph(h), SameShape(graph, h), Count(h) = Count(graph),
         Serves(h)', NEW u \in Solid(graph)
  PROVE  h.size[u] <= graph.size[u]
<1>1. /\ IsGraph(graph) /\ Tensors = 1..Count(graph)
      /\ Count(graph) \in Nat /\ graph.n_leafs \in Nat
  BY WalkFacts
<1>2. u \in Tensors /\ u \in Nat /\ ~IsView(graph, u) /\ graph.size[u] \in Nat
  BY <1>1, SolidFacts
<1>3. h.n_leafs = graph.n_leafs /\ h.src = graph.src /\ h.view_src = graph.view_src
  BY ShapeFacts
<1>4. /\ NNodes(h) = NNodes(graph) /\ ~IsView(h, u)
      /\ Room(h, u) = h.size[u] /\ Room(graph, u) = graph.size[u]
  BY <1>2, <1>3 DEF NNodes, IsView, Room
<1>5. \A k \in 1..NNodes(graph) :
        /\ node_allocs'[k].dst.size_max >= Room(h, graph.n_leafs + k)
        /\ \A l \in 1..Len(graph.src[graph.n_leafs + k]) :
             KeptSize(k, l)' >= Room(h, graph.src[graph.n_leafs + k][l])
  BY <1>3, <1>4 DEF Serves
<1>6. ASSUME NEW t \in Tensors, t > graph.n_leafs
      PROVE  /\ Room(graph, t) >= Room(h, t)
             /\ \A l \in 1..Len(graph.src[t]) :
                  Room(graph, graph.src[t][l]) >= Room(h, graph.src[t][l])
  <2>1. PICK k \in 1..NNodes(graph) : Node(k) = t
    <3>1. t - graph.n_leafs \in 1..NNodes(graph) /\ Node(t - graph.n_leafs) = t
      BY <1>1, <1>6 DEF NNodes, Node
    <3> QED
      BY <3>1
  <2>2. /\ node_allocs'[k].dst.size_max = Room(graph, t)
        /\ \A l \in 1..Len(graph.src[t]) : KeptSize(k, l)' = Room(graph, graph.src[t][l])
    BY <2>1, KeptFacts
  <2>3. graph.n_leafs + k = t
    BY <2>1 DEF Node
  <2> QED
    BY <1>5, <2>2, <2>3
<1>7. CASE u > graph.n_leafs
  BY <1>2, <1>4, <1>6, <1>7
<1>8. CASE ~(u > graph.n_leafs)
  <2>1. u \in 1..graph.n_leafs
    BY <1>1, <1>2, <1>8
  <2>2. \/ graph.size[u] = h.size[u]
        \/ \E r \in Tensors : \E l \in 1..Len(graph.src[r]) : graph.src[r][l] = u
    BY <1>1, <2>1 DEF SameShape
  <2>3. ASSUME NEW r \in Tensors, NEW l \in 1..Len(graph.src[r]), graph.src[r][l] = u
        PROVE  Room(graph, u) >= Room(h, u)
    <3>1. <<r, l>> \in Reads(u)
      BY <1>1, <2>3, ReadsFacts
    <3>2. r > graph.n_leafs
      BY <1>1, <3>1, ReadsFacts
    <3> QED
      BY <1>6, <2>3, <3>2
  <2>4. h.size[u] \in Nat
    <3>1. u \in Solid(h)
      BY ShapeFacts
    <3> QED
      BY <3>1, SolidFacts
  <2> QED
    BY <1>2, <1>4, <2>2, <2>3, <2>4
<1> QED
  BY <1>7, <1>8

\* The plan that is kept is safe for every graph to come that it serves.
LEMMA KeepPlanValues ==
  ASSUME GraphInv, ValuesInv, KeepPlan
  PROVE  ValuesInv'
<1>1. /\ pc = "node" /\ i > Count(graph) /\ pc' = "alloc"
      /\ session' = session /\ graph' = graph /\ max_size' = max_size
      /\ buffer_size' = IF max_size > buffer_size THEN max_size ELSE buffer_size
  BY DEF KeepPlan, allocVars
<1>2. /\ IsGraph(graph) /\ Tensors = 1..Count(graph) /\ Tensors \subseteq Ids
      /\ offset \in [Ids -> Nat]
  BY WalkFacts
<1>3. max_size \in Nat /\ buffer_size \in Nat /\ Limit \in Nat
  BY AllocAssumption DEF GraphInv, GraphTypeOK, AllocTypeOK
<1>4. max_size <= Limit /\ buffer_size <= Limit
  BY DEF ValuesInv, BelowMax, KeptIsSafe
<1>5. buffer_size' \in Nat /\ buffer_size' <= Limit /\ max_size <= buffer_size'
  BY <1>1, <1>3, <1>4
<1>6. PlanIsSafe(graph, offset) /\ PlanFits(graph, offset, max_size)
  BY <1>1, PlanComplete
<1>7. \A u \in Solid(graph) : offset[u] \in Nat /\ Offsets'[u] = offset[u]
  BY <1>2, KeptFacts, SolidFacts
<1>8. ASSUME NEW k \in 1..Len(session), Serves(session[k])'
      PROVE  PlanIsSafe(session[k], Offsets') /\ PlanFits(session[k], Offsets', buffer_size')
  <2>0. PICK h : h = session[k]
    OBVIOUS
  <2>1. IsGraph(h) /\ 1 \in 1..Len(session) /\ graph = session[1]
    <3>1. /\ session \in Seq({session[x] : x \in DOMAIN session}) /\ session # <<>>
          /\ \A x \in DOMAIN session : IsGraph(session[x])
      BY DEF GraphInv, Known
    <3> QED
      BY <2>0, <3>1 DEF ValuesInv, ToCome
  <2>2. Serves(h)'
    BY <1>1, <1>8, <2>0 DEF Serves, KeptSize
  <2>3. NNodes(h) = NNodes(graph) /\ h.n_leafs = graph.n_leafs
    BY <2>2, KeptFacts DEF Serves
  <2>4. SameShape(graph, h)
    BY <2>0, <2>1, <2>3 DEF ValuesInv, ToCome
  <2>5. Count(h) = Count(graph)
    <3>1. /\ Count(h) \in Nat /\ h.n_leafs \in Nat
          /\ Count(graph) \in Nat /\ graph.n_leafs \in Nat
      BY <1>2, <2>1, GraphFacts, SessionsOK
    <3> QED
      BY <2>3, <3>1 DEF NNodes
  <2>6. \A u \in Solid(graph) : h.size[u] <= graph.size[u]
    BY <2>1, <2>2, <2>4, <2>5, ServedIsNoLarger
  <2>7. PlanIsSafe(h, Offsets') /\ PlanFits(h, Offsets', buffer_size')
    BY <1>2, <1>3, <1>5, <1>6, <1>7, <2>1, <2>4, <2>5, <2>6, SafeForSmaller
  <2> QED
    BY <2>0, <2>7
<1>9. KeptIsSafe'
  BY <1>1, <1>5, <1>8 DEF KeptIsSafe
<1>10. ToCome'
  BY <1>1 DEF ValuesInv, ToCome
<1>11. DueAreHeld' /\ ApartSoFar' /\ BelowMax' /\ Running'
  BY <1>1, <1>4 DEF DueAreHeld, ApartSoFar, BelowMax, Running, InPlanning
<1> QED
  BY <1>9, <1>10, <1>11 DEF ValuesInv

\* What is needed from some node on is needed from an earlier one on.
LEMMA AwaitedBefore ==
  ASSUME NEW g, NEW u, NEW s \in Nat, NEW t \in Nat, s <= t, Count(g) \in Nat,
         Awaited(g, u, t)
  PROVE  Awaited(g, u, s)
BY DEF Awaited

\* The addresses are those of the plan.
LEMMA AddressFacts ==
  ASSUME GraphInv, ValuesInv, InitTensors
  PROVE  PlanIsSafe(graph, address') /\ PlanFits(graph, address', buffer_size)
<1>1. /\ ~NeedsRealloc
      /\ address' = [t \in Ids |->
           IF t \notin Tensors \/ IsView(graph, t) THEN 0
           ELSE IF t <= graph.n_leafs THEN leaf_allocs[t].offset
           ELSE node_allocs[t - graph.n_leafs].dst.offset]
  BY DEF InitTensors
<1>2. IsGraph(graph) /\ Tensors = 1..Count(graph) /\ Tensors \subseteq Ids
  BY WalkFacts
<1>3. Serves(graph)
  BY <1>1 DEF NeedsRealloc, Serves, Node
<1>4. PlanIsSafe(graph, Offsets) /\ PlanFits(graph, Offsets, buffer_size)
  <2>1. session \in Seq({session[k] : k \in DOMAIN session}) /\ session # <<>>
    BY DEF GraphInv, Known
  <2>2. 1 \in 1..Len(session) /\ graph = session[1]
    BY <2>1 DEF ValuesInv, ToCome
  <2> QED
    BY <1>3, <2>2 DEF ValuesInv, KeptIsSafe
<1>5. ASSUME NEW u \in Solid(graph) PROVE Offsets[u] \in Nat /\ address'[u] = Offsets[u]
  <2>1. u \in Tensors /\ u \in Ids /\ ~IsView(graph, u)
    BY <1>2, SolidFacts
  <2>2. Len(leaf_allocs) = graph.n_leafs
    BY <1>3 DEF Serves
  <2>3. address'[u] = Offsets[u]
    BY <1>1, <2>1, <2>2 DEF Offsets
  <2>4. GraphInv'
    BY InitTensorsSafe
  <2>5. address' \in [Ids -> Nat]
    BY <2>4 DEF GraphInv, GraphTypeOK
  <2> QED
    BY <2>1, <2>3, <2>5
<1>6. SameShape(graph, graph)
  BY DEF SameShape
<1>7. \A u \in Solid(graph) : graph.size[u] <= graph.size[u]
  BY <1>2, SolidFacts
<1>8. buffer_size \in Nat /\ buffer_size <= buffer_size
  BY DEF GraphInv, GraphTypeOK
<1> QED
  BY <1>2, <1>4, <1>5, <1>6, <1>7, <1>8, SafeForSmaller

\* A place in the buffer is in the memory.
LEMMA PlaceInMemory ==
  ASSUME GraphInv, buffer_size <= Limit, NEW off \in [Ids -> Nat],
         PlanFits(graph, off, buffer_size), NEW u \in Solid(graph),
         NEW a \in Place(graph, off, u)
  PROVE  a \in 0..(Limit - 1) /\ a < buffer_size
<1>1. /\ IsGraph(graph) /\ buffer_size \in Nat /\ Limit \in Nat
  BY WalkFacts, AllocAssumption DEF GraphInv, GraphTypeOK
<1>2. u \in Ids /\ graph.size[u] \in Nat
  BY <1>1, SolidFacts
<1>3. off[u] \in Nat /\ off[u] + graph.size[u] <= buffer_size
  BY <1>2 DEF PlanFits
<1>4. a \in Int /\ off[u] <= a /\ a <= off[u] + graph.size[u] - 1
  BY <1>2, <1>3 DEF Place
<1> QED
  BY <1>1, <1>2, <1>3, <1>4

\* The leafs that are read have their values: no other leaf was put over them.
LEMMA InitTensorsValues ==
  ASSUME GraphInv, ValuesInv, InitTensors
  PROVE  ValuesInv'
<1>1. /\ pc' = "run" /\ i' = graph.n_leafs + 1 /\ max_size' = max_size
      /\ session' = session /\ graph' = graph
      /\ node_allocs' = node_allocs /\ leaf_allocs' = leaf_allocs
      /\ buffer_size' = buffer_size
      /\ memory' = [a \in DOMAIN memory |->
           IF \E t \in 1..graph.n_leafs : address'[t] <= a /\ a < address'[t] + graph.size[t]
           THEN CHOOSE t \in 1..graph.n_leafs :
                  address'[t] <= a /\ a < address'[t] + graph.size[t]
           ELSE 0]
  BY DEF InitTensors, allocVars, planVars
<1>2. /\ IsGraph(graph) /\ Tensors = 1..Count(graph) /\ Tensors \subseteq Ids
      /\ Count(graph) \in Nat /\ graph.n_leafs \in Nat /\ graph.n_leafs <= Count(graph)
  BY WalkFacts
<1>3. PlanIsSafe(graph, address') /\ PlanFits(graph, address', buffer_size)
  BY AddressFacts
<1>4. address' \in [Ids -> Nat]
  <2>1. GraphInv'
    BY InitTensorsSafe
  <2> QED
    BY <2>1 DEF GraphInv, GraphTypeOK
<1>5. buffer_size <= Limit /\ DOMAIN memory = 0..(Limit - 1)
  BY DEF ValuesInv, KeptIsSafe, GraphInv, GraphTypeOK
<1>6. ASSUME NEW u \in Solid(graph), u < graph.n_leafs + 1,
             Awaited(graph, u, graph.n_leafs + 1), NEW a \in Place(graph, address', u)
      PROVE  memory'[a] = u
  <2> DEFINE Here(t) == address'[t] <= a /\ a < address'[t] + graph.size[t]
  <2>1. u \in 1..graph.n_leafs /\ u \in Ids /\ graph.size[u] \in Nat
    BY <1>2, <1>6, SolidFacts
  <2>2. a \in 0..(Limit - 1)
    BY <1>3, <1>4, <1>5, PlaceInMemory
  <2>3. Here(u)
    BY <1>4, <2>1 DEF Place
  <2>4. ASSUME NEW t \in 1..graph.n_leafs, Here(t) PROVE t = u
    <3>1. t \in Solid(graph)
      <4>1. t \in 1..Count(graph) /\ ~(t > graph.n_leafs)
        BY <1>2
      <4> QED
        BY <1>2, <4>1, GraphFacts DEF Solid
    <3>2. t \in Ids /\ graph.size[t] \in Nat /\ address'[t] \in Nat
      BY <1>2, <1>4, <3>1, SolidFacts
    <3>3. a \in Place(graph, address', t)
      BY <2>2, <2>4, <3>2 DEF Place
    <3>4. ~Disjoint(graph, address', u, t)
      BY <1>6, <3>3 DEF Disjoint
    <3>5. Awaited(graph, u, t + 1)
      <4>1. t + 1 \in Nat /\ graph.n_leafs + 1 \in Nat /\ t + 1 <= graph.n_leafs + 1
        BY <1>2
      <4> QED
        BY <1>2, <1>6, <4>1, AwaitedBefore
    <3>6. t # u => Endangers(graph, t, u)
      BY <2>1, <3>5 DEF Endangers
    <3> QED
      BY <1>3, <3>1, <3>4, <3>6 DEF PlanIsSafe
  <2>5. memory'[a] = IF \E t \in 1..graph.n_leafs : Here(t)
                     THEN CHOOSE t \in 1..graph.n_leafs : Here(t) ELSE 0
    BY <1>1, <1>5, <2>2
  <2> HIDE DEF Here
  <2> QED
    BY <2>1, <2>3, <2>4, <2>5
<1>7. Running'
  <2>1. \A u \in Solid(graph) : Space(u)' = Place(graph, address', u)
    BY <1>1 DEF Space, Place
  <2>2. \A u \in Solid(graph) :
          u < graph.n_leafs + 1 /\ Awaited(graph, u, graph.n_leafs + 1) =>
            \A a \in Space(u)' : memory'[a] = u
    BY <1>6, <2>1
  <2> QED
    BY <1>1, <1>3, <2>2 DEF Running
<1>8. ToCome' /\ KeptIsSafe'
  BY <1>1, PlanKept
<1>9. DueAreHeld' /\ ApartSoFar' /\ BelowMax'
  BY <1>1 DEF ValuesInv, DueAreHeld, ApartSoFar, BelowMax, InPlanning
<1> QED
  BY <1>7, <1>8, <1>9 DEF ValuesInv

\* A node overwrites nothing that is needed later.
LEMMA ComputeNodeValues ==
  ASSUME GraphInv, ValuesInv, ComputeNode
  PROVE  ValuesInv'
<1>1. /\ pc = "run" /\ i <= Count(graph) /\ pc' = "run" /\ i' = i + 1
      /\ max_size' = max_size /\ session' = session /\ graph' = graph
      /\ node_allocs' = node_allocs /\ leaf_allocs' = leaf_allocs
      /\ buffer_size' = buffer_size /\ address' = address
      /\ memory' = IF IsView(graph, i) THEN memory
                   ELSE [a \in DOMAIN memory |-> IF a \in Space(i) THEN i ELSE memory[a]]
  BY DEF ComputeNode, allocVars, planVars
<1>2. /\ IsGraph(graph) /\ Tensors = 1..Count(graph) /\ Tensors \subseteq Ids /\ i \in Nat
      /\ Count(graph) \in Nat /\ graph.n_leafs \in Nat /\ address \in [Ids -> Nat]
  BY WalkFacts
<1>3. i \in 1..Count(graph)
  <2>1. i \in (graph.n_leafs + 1)..(Count(graph) + 1)
    BY <1>1 DEF GraphInv, Walk
  <2> QED
    BY <1>1, <1>2, <2>1
<1>4. /\ PlanIsSafe(graph, address) /\ PlanFits(graph, address, buffer_size)
      /\ \A u \in Solid(graph) : u < i /\ Awaited(graph, u, i) =>
           \A a \in Space(u) : memory[a] = u
  BY <1>1 DEF ValuesInv, Running
<1>5. buffer_size <= Limit /\ DOMAIN memory = 0..(Limit - 1)
  BY DEF ValuesInv, KeptIsSafe, GraphInv, GraphTypeOK
<1>6. \A u \in Solid(graph) : Space(u) = Place(graph, address, u)
  BY DEF Space, Place
<1>7. ASSUME NEW u \in Solid(graph), u < i + 1, Awaited(graph, u, i + 1),
             NEW a \in Space(u)
      PROVE  memory'[a] = u
  <2>1. u \in Nat /\ ~IsView(graph, u)
    BY <1>2, SolidFacts
  <2>2. a \in DOMAIN memory
    BY <1>2, <1>4, <1>5, <1>6, <1>7, PlaceInMemory
  <2>3. CASE u = i
    BY <1>1, <1>7, <2>1, <2>2, <2>3
  <2>4. CASE u # i
    <3>1. u < i
      BY <1>2, <1>7, <2>1, <2>4
    <3>2. Awaited(graph, u, i)
      <4>1. i + 1 \in Nat /\ i <= i + 1
        BY <1>2
      <4> QED
        BY <1>2, <1>7, <4>1, AwaitedBefore
    <3>3. memory[a] = u
      BY <1>4, <1>7, <3>1, <3>2
    <3>4. CASE IsView(graph, i)
      BY <1>1, <3>3, <3>4
    <3>5. CASE ~IsView(graph, i)
      <4>1. i \in Solid(graph)
        BY <1>3, <3>5 DEF Solid
      <4>2. Endangers(graph, i, u)
        BY <1>7, <2>4, <3>1 DEF Endangers
      <4>3. Disjoint(graph, address, u, i)
        BY <1>4, <4>1, <4>2 DEF PlanIsSafe
      <4>4. a \notin Space(i)
        BY <1>6, <1>7, <4>1, <4>3 DEF Disjoint
      <4> QED
        BY <1>1, <2>2, <3>3, <3>5, <4>4
    <3> QED
      BY <3>4, <3>5
  <2> QED
    BY <2>3, <2>4
<1>8. Running'
  <2>1. \A u \in Solid(graph) : Space(u)' = Space(u)
    BY <1>1 DEF Space
  <2> QED
    BY <1>1, <1>4, <1>7, <2>1 DEF Running
<1>9. ToCome' /\ KeptIsSafe'
  BY <1>1, PlanKept
<1>10. DueAreHeld' /\ ApartSoFar' /\ BelowMax'
  BY <1>1 DEF ValuesInv, DueAreHeld, ApartSoFar, BelowMax, InPlanning
<1> QED
  BY <1>8, <1>9, <1>10 DEF ValuesInv

\* The plan that serves a graph to come still does.
LEMMA NextGraphValues ==
  ASSUME GraphInv, ValuesInv, NextGraph
  PROVE  ValuesInv'
<1>1. /\ pc' = "alloc" /\ Len(session) > 1
      /\ session' = Tail(session) /\ graph' = session[2]
      /\ max_size' = max_size /\ buffer_size' = buffer_size
      /\ node_allocs' = node_allocs /\ leaf_allocs' = leaf_allocs
  BY DEF NextGraph, allocVars, planVars
<1>2. session \in Seq({session[k] : k \in DOMAIN session}) /\ session # <<>>
  BY DEF GraphInv, Known
<1>3. /\ Len(session') = Len(session) - 1 /\ Len(session) \in Nat
      /\ \A k \in 1..Len(session') : session'[k] = session[k + 1]
  BY <1>1, <1>2
<1>4. ASSUME NEW k \in 1..Len(session')
      PROVE  k + 1 \in 1..Len(session) /\ session'[k] = session[k + 1]
  BY <1>3
<1>5. ToCome'
  <2>1. graph' = session'[1]
    BY <1>1, <1>3
  <2>2. \A k \in 1..Len(session') : OutputsAreKept(session'[k])
    BY <1>4 DEF ValuesInv, ToCome
  <2>3. ASSUME NEW k \in 1..Len(session'), NEW l \in 1..Len(session'),
               NNodes(session'[k]) = NNodes(session'[l]),
               session'[k].n_leafs = session'[l].n_leafs
        PROVE  SameShape(session'[k], session'[l])
    BY <1>4, <2>3 DEF ValuesInv, ToCome
  <2> QED
    BY <2>1, <2>2, <2>3 DEF ToCome
<1>6. KeptIsSafe'
  <2>1. Offsets' = Offsets
    BY <1>1 DEF Offsets
  <2>2. ASSUME NEW k \in 1..Len(session'), Serves(session[k + 1])
        PROVE  PlanIsSafe(session'[k], Offsets) /\ PlanFits(session'[k], Offsets, buffer_size)
    BY <1>4, <2>2 DEF ValuesInv, KeptIsSafe
  <2>3. ASSUME NEW k \in 1..Len(session'), Serves(session[k])' PROVE Serves(session[k + 1])
    <3>1. PICK g : g = session[k + 1]
      OBVIOUS
    <3>2. Serves(g)'
      BY <1>4, <2>3, <3>1 DEF Serves, KeptSize
    <3>3. Serves(g)
      BY <1>1, <3>2 DEF Serves, KeptSize
    <3> QED
      BY <3>1, <3>3
  <2>4. buffer_size' <= Limit
    BY <1>1 DEF ValuesInv, KeptIsSafe
  <2> QED
    BY <1>1, <2>1, <2>2, <2>3, <2>4 DEF KeptIsSafe
<1>7. DueAreHeld' /\ ApartSoFar' /\ BelowMax' /\ Running'
  BY <1>1 DEF ValuesInv, DueAreHeld, ApartSoFar, BelowMax, Running, InPlanning
<1> QED
  BY <1>5, <1>6, <1>7 DEF ValuesInv

\* Nothing happens.
LEMMA ValuesStutter ==
  ASSUME GraphInv, ValuesInv, UNCHANGED vars
  PROVE  ValuesInv'
<1>1. /\ pc' = pc /\ i' = i /\ session' = session /\ graph' = graph
      /\ n_views' = n_views /\ allocated' = allocated /\ offset' = offset
      /\ node_allocs' = node_allocs /\ leaf_allocs' = leaf_allocs
      /\ buffer_size' = buffer_size /\ address' = address /\ memory' = memory
      /\ held' = held /\ max_size' = max_size
  BY DEF vars, hashVars, planVars, runVars, allocVars
<1>2. ToCome' /\ KeptIsSafe'
  BY <1>1, PlanKept
<1>3. \A u : Reads(u)' = Reads(u)
  BY <1>1 DEF Reads, Tensors
<1>4. \A u : (Placed(u)' <=> Placed(u)) /\ (Due(u)' <=> Due(u))
  BY <1>1, <1>3 DEF Placed, Due
<1>5. DueAreHeld' /\ ApartSoFar' /\ BelowMax'
  BY <1>1, <1>4 DEF ValuesInv, DueAreHeld, ApartSoFar, BelowMax, InPlanning
<1>6. Running'
  <2>1. \A u : Space(u)' = Space(u)
    BY <1>1 DEF Space
  <2> QED
    BY <1>1, <2>1 DEF ValuesInv, Running
<1> QED
  BY <1>2, <1>5, <1>6 DEF ValuesInv

\* No plan is kept yet, and the sessions are such as the callers take care of.
LEMMA ValuesInitially ==
  ASSUME GraphInit, PlansServe
  PROVE  ValuesInv
<1>1. PICK s \in Sessions : session = s /\ graph = s[1]
  BY DEF GraphInit
<1>2. /\ pc = "alloc" /\ Init /\ node_allocs = <<>> /\ leaf_allocs = <<>>
      /\ buffer_size = 0
  BY DEF GraphInit
<1>3. ToCome
  BY <1>1 DEF PlansServe, ToCome
<1>4. KeptIsSafe
  <2>1. ASSUME NEW k \in 1..Len(session), Serves(session[k]) PROVE FALSE
    <3>1. NNodes(session[k]) = 0 /\ session[k].n_leafs = 0
      BY <1>2, <2>1 DEF Serves
    <3>2. IsGraph(session[k])
      <4>1. /\ session \in Seq({session[x] : x \in DOMAIN session})
            /\ \A x \in DOMAIN session : IsGraph(session[x])
        BY <1>1, SessionKnown
      <4> QED
        BY <4>1
    <3>3. Count(session[k]) \in 1..Most /\ Most \in Nat
      BY <3>2, GraphFacts, SessionsOK
    <3> QED
      BY <3>1, <3>3 DEF NNodes
  <2>2. buffer_size <= Limit
    BY <1>2, AllocAssumption
  <2> QED
    BY <2>1, <2>2 DEF KeptIsSafe
<1>5. DueAreHeld /\ ApartSoFar /\ Running
  BY <1>2 DEF DueAreHeld, ApartSoFar, Running, InPlanning
<1>6. BelowMax
  <2>1. max_size = 0 /\ 0 <= Limit
    BY <1>2, AllocAssumption DEF Init
  <2> QED
    BY <1>2, <2>1 DEF BelowMax, InPlanning
<1> QED
  BY <1>3, <1>4, <1>5, <1>6 DEF ValuesInv

\* What is needed is where the tensor's value was put.
LEMMA NeededIsIntact ==
  ASSUME GraphInv, ValuesInv, pc = "run", NEW t \in Tensors, t < i,
         Awaited(graph, Root(graph, t), i)
  PROVE  Intact(t)
<1> DEFINE u == Root(graph, t)
<1>1. /\ IsGraph(graph) /\ Tensors = 1..Count(graph) /\ i \in Nat
      /\ address \in [Ids -> Nat]
  BY WalkFacts
<1>2. u \in Solid(graph) /\ u <= t /\ t \in Nat
  BY <1>1, RootFacts
<1>3. u \in Nat /\ u < i
  BY <1>1, <1>2, SolidFacts
<1> HIDE DEF u
<1>4. Awaited(graph, u, i)
  BY DEF u
<1>5. PlanFits(graph, address, buffer_size) /\ \A a \in Space(u) : memory[a] = u
  BY <1>2, <1>3, <1>4 DEF ValuesInv, Running
<1>6. buffer_size <= Limit
  BY DEF ValuesInv, KeptIsSafe
<1>7. \A a \in Space(u) : a < buffer_size
  BY <1>1, <1>2, <1>5, <1>6, PlaceInMemory DEF Space, Place
<1> QED
  BY <1>5, <1>7 DEF Intact, u

\* ValuesInv is an invariant of planning and computing graphs, next to GraphInv.
THEOREM ValuesInvariance == ASSUME PlansServe PROVE GraphSpec => []ValuesInv
<1>1. GraphInit => ValuesInv
  BY ValuesInitially
<1>2. GraphInv /\ ValuesInv /\ [GraphNext]_vars => ValuesInv'
  <2> SUFFICES ASSUME GraphInv, ValuesInv, [GraphNext]_vars PROVE ValuesInv'
    OBVIOUS
  <2>1. CASE StartReserve
    BY <2>1, StartReserveValues
  <2>2. CASE AllocLeaf
    BY <2>2, AllocLeafValues
  <2>3. CASE CountAll
    BY <2>3, CountAllValues
  <2>4. CASE AllocNode
    BY <2>4, AllocNodeValues
  <2>5. CASE UpdateParent
    BY <2>5, UpdateParentValues
  <2>6. CASE NextNode
    BY <2>6, NextNodeValues
  <2>7. CASE KeepPlan
    BY <2>7, KeepPlanValues
  <2>8. CASE InitTensors
    BY <2>8, InitTensorsValues
  <2>9. CASE ComputeNode
    BY <2>9, ComputeNodeValues
  <2>10. CASE NextGraph
    BY <2>10, NextGraphValues
  <2>11. CASE UNCHANGED vars
    BY <2>11, ValuesStutter
  <2> QED
    BY <2>1, <2>2, <2>3, <2>4, <2>5, <2>6, <2>7, <2>8, <2>9, <2>10, <2>11 DEF GraphNext
<1> QED
  BY <1>1, <1>2, PlanInvariance, PTL DEF GraphSpec

\* Whatever a node reads when it is computed still has the value that was put there, and
\* so have the outputs after the last node, however the space was reused in between:
\* after the last reader, by views, by operations in place and by a plan that was made
\* for an earlier graph.
THEOREM ValuesStayIntact == ASSUME PlansServe PROVE GraphSpec => []ValuesAreIntact
<1>1. GraphInv /\ ValuesInv => ValuesAreIntact
  <2> SUFFICES ASSUME GraphInv, ValuesInv PROVE ValuesAreIntact
    OBVIOUS
  <2>1. /\ IsGraph(graph) /\ Tensors = 1..Count(graph) /\ i \in Nat /\ Count(graph) \in Nat
    BY WalkFacts
  <2>2. ASSUME pc = "run", i \in Tensors, NEW l \in 1..Len(graph.src[i])
        PROVE  Intact(graph.src[i][l])
    <3>1. graph.src[i][l] \in Tensors /\ graph.src[i][l] < i
      BY <2>1, <2>2, GraphFacts
    <3>2. Awaited(graph, Root(graph, graph.src[i][l]), i)
      BY <2>1, <2>2 DEF Awaited
    <3> QED
      BY <2>2, <3>1, <3>2, NeededIsIntact
  <2>3. ASSUME pc = "run", i > Count(graph), NEW t \in Tensors, graph.output[t]
        PROVE  Intact(t)
    <3>1. t < i
      BY <2>1, <2>3
    <3>2. Awaited(graph, Root(graph, t), i)
      BY <2>1, <2>3 DEF Awaited
    <3> QED
      BY <2>3, <3>1, <3>2, NeededIsIntact
  <2> QED
    BY <2>2, <2>3 DEF ValuesAreIntact
<1> QED
  BY <1>1, PlanInvariance, ValuesInvariance, PTL

=============================================================================
