------------------------ MODULE ComputeThreadsProofs -------------------------
(***************************************************************************)
(* Proofs about ComputeThreads, for every number of threads and all graphs: *)
(* ggml_barrier implements the abstract barrier however the threads call    *)
(* it, the threads are always in the same stage of the graph, also when a   *)
(* computation is aborted, so the shared work buffer is never written while *)
(* somebody reads it; and every element of every node is computed once      *)
(* before anybody is past the node, whoever took its chunks.                *)
(***************************************************************************)
EXTENDS ComputeThreads, FiniteSetTheorems, TLAPS

-----------------------------------------------------------------------------
(* How a result is divided                                                 *)

LEMMA TimesLess ==
  ASSUME NEW d \in Nat, NEW a \in Nat, NEW b \in Nat, a < b
  PROVE  d * a + d <= d * b
<1>1. PICK k \in Nat : b = a + 1 + k
  <2>1. (b - a) - 1 \in Nat /\ b = a + 1 + ((b - a) - 1)
    OBVIOUS
  <2> QED
    BY <2>1
<1>2. d * b = d * a + d + d * k
  BY <1>1
<1>3. d * k \in Nat /\ d * a \in Nat /\ d * b \in Nat
  OBVIOUS
<1> QED
  BY <1>2, <1>3

LEMMA Divided ==
  ASSUME NEW i \in Nat, NEW d \in Nat \ {0}
  PROVE  /\ i \div d \in Nat /\ (i % d) \in 0..(d - 1)
         /\ i = d * (i \div d) + (i % d)
OBVIOUS

\* The quotient is the only multiple that fits.
LEMMA Quotient ==
  ASSUME NEW i \in Nat, NEW d \in Nat \ {0}, NEW q \in Nat, NEW r \in 0..(d - 1),
         i = d * q + r
  PROVE  i \div d = q /\ (i % d) = r
<1> DEFINE p == i \div d
           s == i % d
<1>1. p \in Nat /\ s \in 0..(d - 1) /\ i = d * p + s
  BY Divided
<1> HIDE DEF p, s
<1>2. ~(p < q)
  <2> SUFFICES ASSUME p < q PROVE FALSE
    OBVIOUS
  <2>1. d * p + d <= d * q
    BY <1>1, TimesLess
  <2>2. d * p \in Nat /\ d * q \in Nat
    BY <1>1
  <2> QED
    BY <1>1, <2>1, <2>2
<1>3. ~(q < p)
  <2> SUFFICES ASSUME q < p PROVE FALSE
    OBVIOUS
  <2>1. d * q + d <= d * p
    BY <1>1, TimesLess
  <2>2. d * p \in Nat /\ d * q \in Nat
    BY <1>1
  <2> QED
    BY <1>1, <2>1, <2>2
<1>4. p = q
  BY <1>1, <1>2, <1>3
<1>5. d * q \in Nat
  OBVIOUS
<1>6. s = r
  BY <1>1, <1>4, <1>5
<1> QED
  BY <1>4, <1>6 DEF p, s

LEMMA CeilDivCovers ==
  ASSUME NEW nr \in Nat \ {0}, NEW parts \in Nat \ {0}
  PROVE  CeilDiv(nr, parts) \in Nat \ {0} /\ CeilDiv(nr, parts) * parts >= nr
<1> DEFINE d == CeilDiv(nr, parts)
           top == nr + parts - 1
           r == top % parts
<1>1. top \in Nat /\ top = nr + (parts - 1) /\ top >= nr /\ top >= parts
  OBVIOUS
<1>2. d \in Nat /\ r \in 0..(parts - 1) /\ top = parts * d + r
  <2> HIDE DEF top
  <2>1. d = top \div parts
    BY DEF CeilDiv, top
  <2> HIDE DEF d
  <2> QED
    BY <1>1, <2>1, Divided
<1> HIDE DEF d, top, r
<1>3. parts * d = d * parts /\ parts * d \in Nat
  BY <1>2
<1>4. d * parts >= nr
  BY <1>1, <1>2, <1>3
<1>5. d # 0
  BY <1>2, <1>4
<1> QED
  BY <1>2, <1>4, <1>5 DEF d

\* Every row is in one part, and in no other.
LEMMA SpansDivide ==
  ASSUME NEW nr \in Nat \ {0}, NEW parts \in Nat \ {0}, NEW i \in 0..(nr - 1)
  PROVE  \E k \in 0..(parts - 1) :
           /\ i \in Span(nr, parts, k)
           /\ \A j \in 0..(parts - 1) : i \in Span(nr, parts, j) => j = k
<1> DEFINE d == CeilDiv(nr, parts)
           q == i \div d
           r == i % d
<1>1. d \in Nat \ {0} /\ d * parts >= nr
  BY CeilDivCovers
<1> HIDE DEF d
<1>2. q \in Nat /\ r \in 0..(d - 1) /\ i = d * q + r
  <2>1. i \in Nat
    OBVIOUS
  <2> QED
    BY <1>1, <2>1, Divided
<1> HIDE DEF q, r
<1>3. q < parts
  <2> SUFFICES ASSUME parts <= q PROVE FALSE
    BY <1>2
  <2>1. d * parts <= d * q
    <3>1. CASE parts = q
      BY <1>1, <3>1
    <3>2. CASE parts < q
      <4>1. d * parts + d <= d * q
        BY <1>1, <1>2, <3>2, TimesLess
      <4>2. d * parts \in Nat /\ d * q \in Nat
        BY <1>1, <1>2
      <4> QED
        BY <1>1, <4>1, <4>2
    <3> QED
      BY <1>2, <3>1, <3>2
  <2>2. d * q \in Nat /\ d * parts \in Nat
    BY <1>1, <1>2
  <2> QED
    BY <1>1, <1>2, <2>1, <2>2
<1>4. i \in Span(nr, parts, q)
  <2>1. d * q \in Nat
    BY <1>1, <1>2
  <2>2. d * q <= i /\ i < d * q + d /\ i < nr
    BY <1>1, <1>2, <2>1
  <2>3. i <= Least(d * q + d, nr) - 1
    BY <1>1, <2>1, <2>2 DEF Least
  <2>4. i \in (d * q)..(Least(d * q + d, nr) - 1)
    BY <2>1, <2>2, <2>3
  <2> QED
    BY <2>4 DEF Span, d
<1>5. ASSUME NEW j \in 0..(parts - 1), i \in Span(nr, parts, j) PROVE j = q
  <2>1. d * j \in Nat
    BY <1>1
  <2>2. i \in (d * j)..(Least(d * j + d, nr) - 1)
    BY <1>5 DEF Span, d
  <2>3. d * j <= i /\ i < d * j + d
    BY <1>1, <2>1, <2>2 DEF Least
  <2>4. (i - d * j) \in 0..(d - 1) /\ i = d * j + (i - d * j)
    BY <1>1, <2>1, <2>3
  <2>5. i \div d = j
    BY <1>1, <2>4, Quotient
  <2> QED
    BY <2>5 DEF q
<1> QED
  BY <1>2, <1>3, <1>4, <1>5

NodeShape == [op : Ops, nr0 : Nat \ {0}, nr1 : Nat \ {0}]

LEMMA GridSizes ==
  ASSUME NEW n \in NodeShape
  PROVE  /\ Grid(n)[1] \in Nat \ {0} /\ Grid(n)[2] \in Nat \ {0}
         /\ NChunks(n) \in Nat \ {0}
         /\ n.op = "split" => Grid(n) = <<N, 1>> /\ NChunks(n) = N
<1> DEFINE size == IF n.nr0 = 1 \/ n.nr1 = 1 THEN VectorChunkSize ELSE ChunkSize
           f0 == CeilDiv(n.nr0, size)
           f1 == CeilDiv(n.nr1, size)
<1>1. n.nr0 \in Nat \ {0} /\ n.nr1 \in Nat \ {0} /\ size \in Nat \ {0}
  BY CallsAssumption DEF NodeShape
<1> HIDE DEF size
<1>2. f0 \in Nat \ {0} /\ f1 \in Nat \ {0}
  BY <1>1, CeilDivCovers
<1>3. Grid(n) \in {<<N, 1>>, <<f0, f1>>, <<1, N>>} /\ (n.op = "split" => Grid(n) = <<N, 1>>)
  <2>1. Grid(n) = IF n.op = "split" THEN <<N, 1>>
                  ELSE IF f0 * f1 >= 4 * N THEN <<f0, f1>>
                  ELSE IF n.nr0 > n.nr1 THEN <<N, 1>> ELSE <<1, N>>
    BY DEF Grid, size
  <2> QED
    BY <2>1
<1> HIDE DEF f0, f1
<1>4. Grid(n)[1] \in Nat \ {0} /\ Grid(n)[2] \in Nat \ {0}
  BY <1>2, <1>3, ThreadsAssumption
<1>5. \A a, b \in Nat \ {0} : a * b \in Nat \ {0}
  OBVIOUS
<1>6. n.op = "split" => NChunks(n) = N
  BY <1>3, ThreadsAssumption DEF NChunks
<1> QED
  BY <1>3, <1>4, <1>5, <1>6 DEF NChunks

\* Every element of a result is in one chunk, and in no other.
LEMMA ElementsDivide ==
  ASSUME NEW n \in NodeShape, NEW e \in Result(n)
  PROVE  \E c \in 0..(NChunks(n) - 1) :
           /\ e \in Elements(n, c)
           /\ \A b \in 0..(NChunks(n) - 1) : e \in Elements(n, b) => b = c
<1> DEFINE g == Grid(n)[1]
           h == Grid(n)[2]
<1>1. g \in Nat \ {0} /\ h \in Nat \ {0} /\ NChunks(n) = g * h /\ g * h \in Nat
  BY GridSizes DEF NChunks
<1>2. n.nr0 \in Nat \ {0} /\ n.nr1 \in Nat \ {0}
  BY DEF NodeShape
<1>3. PICK i \in 0..(n.nr0 - 1), j \in 0..(n.nr1 - 1) : e = <<i, j>>
  BY DEF Result
<1>4. \A c : Elements(n, c) = Span(n.nr0, g, c % g) \X Span(n.nr1, h, c \div g)
  BY DEF Elements
<1> HIDE DEF g, h
<1>5. PICK k \in 0..(g - 1) :
        /\ i \in Span(n.nr0, g, k)
        /\ \A l \in 0..(g - 1) : i \in Span(n.nr0, g, l) => l = k
  BY <1>1, <1>2, SpansDivide
<1>6. PICK m \in 0..(h - 1) :
        /\ j \in Span(n.nr1, h, m)
        /\ \A l \in 0..(h - 1) : j \in Span(n.nr1, h, l) => l = m
  BY <1>1, <1>2, SpansDivide
<1> DEFINE c == g * m + k
<1>7. g * m \in Nat /\ k \in Nat /\ c \in Nat /\ m \in Nat
  BY <1>1
<1>8. c \div g = m /\ (c % g) = k
  <2> HIDE DEF c
  <2>1. c = g * m + k
    BY DEF c
  <2> QED
    BY <1>1, <1>7, <2>1, Quotient
<1>9. c \in 0..(NChunks(n) - 1)
  <2>1. g * m + g <= g * h
    BY <1>1, <1>7, TimesLess
  <2> QED
    BY <1>1, <1>7, <2>1
<1> HIDE DEF c
<1>10. e \in Elements(n, c)
  BY <1>3, <1>4, <1>5, <1>6, <1>8
<1>11. ASSUME NEW b \in 0..(NChunks(n) - 1), e \in Elements(n, b) PROVE b = c
  <2>1. b \in Nat /\ b < g * h
    BY <1>1
  <2>2. /\ b \div g \in Nat /\ (b % g) \in 0..(g - 1)
        /\ b = g * (b \div g) + (b % g)
    BY <1>1, <2>1, Divided
  <2>3. b \div g < h
    <3> DEFINE q == b \div g
    <3>1. q \in Nat /\ b >= g * q /\ g * q \in Nat
      BY <1>1, <2>2
    <3> HIDE DEF q
    <3>2. ASSUME h <= q PROVE FALSE
      <4>1. g * h <= g * q
        <5>1. CASE h = q
          BY <1>1, <5>1
        <5>2. CASE h < q
          <6>1. g * h + g <= g * q
            BY <1>1, <3>1, <5>2, TimesLess
          <6> QED
            BY <1>1, <3>1, <6>1
        <5> QED
          BY <1>1, <3>1, <3>2, <5>1, <5>2
      <4> QED
        BY <1>1, <2>1, <3>1, <4>1
    <3>3. q < h
      BY <1>1, <3>1, <3>2
    <3> QED
      BY <3>3 DEF q
  <2>4. (b % g) = k /\ b \div g = m
    <3>1. i \in Span(n.nr0, g, b % g) /\ j \in Span(n.nr1, h, b \div g)
      BY <1>3, <1>4, <1>11
    <3>2. b \div g \in 0..(h - 1)
      BY <1>1, <2>2, <2>3
    <3> QED
      BY <1>5, <1>6, <2>2, <3>1, <3>2
  <2>5. b = g * m + k
    BY <2>2, <2>4
  <2> QED
    BY <2>5 DEF c
<1> QED
  BY <1>9, <1>10, <1>11

-----------------------------------------------------------------------------
(* The barrier                                                             *)

BarrierTypes ==
  /\ at \in [Threads -> {"out", "add", "last", "bump", "spin"}]
  /\ passed_old \in [Threads -> Nat] /\ rounds \in [Threads -> Nat]
  /\ n_barrier \in Nat /\ n_barrier_passed \in Nat

\* Those that have arrived in the round that is not over
Waiting == {t \in Threads : at[t] = "spin" /\ rounds[t] = n_barrier_passed}

OthersWait(t) == \A u \in Threads \ {t} : u \in Waiting

\* A thread inside has completed all rounds but the one it is in, and nobody is
\* more than one round behind: that thread waits, and has not noticed yet.
Counting ==
  \A t \in Threads :
    /\ rounds[t] = n_barrier_passed \/ (at[t] = "spin" /\ rounds[t] + 1 = n_barrier_passed)
    /\ at[t] # "out" => passed_old[t] = rounds[t]

\* Whoever came last finds all others waiting, so nobody else touches the counters.
LastIsAlone ==
  \A t \in Threads :
    /\ at[t] \in {"last", "bump"} => OthersWait(t)
    /\ at[t] = "last" => n_barrier = N
    /\ at[t] = "bump" => n_barrier = 0

NobodyLast == \A t \in Threads : at[t] \notin {"last", "bump"}

BarrierInv ==
  /\ BarrierTypes
  /\ N = 1 => n_barrier = 0 /\ \A t \in Threads : at[t] = "out"
  /\ N # 1 => Counting /\ LastIsAlone /\ (NobodyLast => n_barrier = Cardinality(Waiting))

\* How many threads may be waiting, and that all of them are when N - 1 others do
LEMMA WaitingCount ==
  ASSUME NEW S \in SUBSET Threads
  PROVE  /\ IsFiniteSet(S) /\ Cardinality(S) \in 0..N
         /\ \A t \in Threads : t \notin S =>
              /\ Cardinality(S \cup {t}) = Cardinality(S) + 1
              /\ Cardinality(S) = N - 1 => S = Threads \ {t}
<1>1. IsFiniteSet(Threads) /\ Cardinality(Threads) = N
  BY FS_Interval, ThreadsAssumption DEF Threads
<1>2. IsFiniteSet(S) /\ Cardinality(S) <= N
  BY <1>1, FS_Subset
<1>3. Cardinality(S) \in Nat
  BY <1>2, FS_CardinalityType
<1>4. ASSUME NEW t \in Threads, t \notin S
      PROVE  /\ Cardinality(S \cup {t}) = Cardinality(S) + 1
             /\ Cardinality(S) = N - 1 => S = Threads \ {t}
  <2>1. Cardinality(S \cup {t}) = Cardinality(S) + 1
    BY <1>2, <1>4, FS_AddElement
  <2>2. ASSUME Cardinality(S) = N - 1 PROVE S \cup {t} = Threads
    <3>1. S \cup {t} \in SUBSET Threads /\ Cardinality(S \cup {t}) = Cardinality(Threads)
      BY <2>1, <2>2, <1>1, <1>3, ThreadsAssumption
    <3> QED
      BY <3>1, <1>1, FS_Subset
  <2>3. S \cup {t} = Threads => S = Threads \ {t}
    BY <1>4
  <2> QED
    BY <2>1, <2>2, <2>3
<1> QED
  BY <1>2, <1>3, <1>4, ThreadsAssumption

LEMMA BarrierStarts == BarrierInit => BarrierInv
<1> SUFFICES ASSUME BarrierInit PROVE BarrierInv
  OBVIOUS
<1>1. Waiting = {}
  BY DEF BarrierInit, Waiting
<1>2. Cardinality(Waiting) = 0
  BY <1>1, FS_EmptySet
<1> QED
  BY <1>2 DEF BarrierInit, BarrierInv, BarrierTypes, Counting, LastIsAlone

LEMMA BarrierRenewed == NewBarrier => BarrierInv'
<1> SUFFICES ASSUME NewBarrier PROVE BarrierInv'
  OBVIOUS
<1>1. Waiting' = {}
  BY DEF NewBarrier, Waiting
<1>2. Cardinality(Waiting') = 0
  BY <1>1, FS_EmptySet
<1> QED
  BY <1>2 DEF NewBarrier, BarrierInv, BarrierTypes, Counting, LastIsAlone

LEMMA BarrierUnchanged == BarrierInv /\ UNCHANGED barrierVars => BarrierInv'
<1> SUFFICES ASSUME BarrierInv, UNCHANGED barrierVars PROVE BarrierInv'
  OBVIOUS
<1>1. Waiting' = Waiting
  BY DEF Waiting, barrierVars
<1> QED
  BY <1>1 DEF BarrierInv, BarrierTypes, Counting, LastIsAlone, OthersWait, NobodyLast,
    barrierVars

\* How a step of one thread moves the abstract barrier
LEMMA InsideMoves ==
  ASSUME NEW t \in Threads, NEW l, BarrierTypes, at' = [at EXCEPT ![t] = l]
  PROVE  Inside' = [Inside EXCEPT ![t] = (l \in {"last", "bump", "spin"})]
<1> DEFINE after == [Inside EXCEPT ![t] = (l \in {"last", "bump", "spin"})]
<1>1. ASSUME NEW u \in Threads PROVE Inside'[u] = after[u]
  <2>1. CASE u = t
    <3>1. at'[t] = l
      BY DEF BarrierTypes
    <3>2. Inside'[t] = (at'[t] \in {"last", "bump", "spin"})
      BY DEF Inside
    <3>3. after[t] = (l \in {"last", "bump", "spin"})
      BY DEF Inside
    <3> QED
      BY <2>1, <3>1, <3>2, <3>3
  <2>2. CASE u # t
    <3>1. at'[u] = at[u]
      BY <2>2 DEF BarrierTypes
    <3>2. Inside'[u] = (at'[u] \in {"last", "bump", "spin"})
      BY DEF Inside
    <3>3. after[u] = Inside[u] /\ Inside[u] = (at[u] \in {"last", "bump", "spin"})
      BY <2>2 DEF Inside
    <3> QED
      BY <3>1, <3>2, <3>3
  <2> QED
    BY <2>1, <2>2
<1>2. Inside' = [u \in Threads |-> Inside'[u]]
  BY DEF Inside
<1>3. DOMAIN after = Threads /\ after = [u \in DOMAIN after |-> after[u]]
  BY DEF Inside
<1> HIDE DEF after
<1>4. [u \in Threads |-> Inside'[u]] = [u \in Threads |-> after[u]]
  BY <1>1
<1>5. after = [u \in Threads |-> after[u]]
  BY <1>3
<1>6. Inside' = after
  BY <1>2, <1>4, <1>5
<1> QED
  BY <1>6 DEF after

LEMMA InsideIs == \A u \in Threads : Inside[u] <=> at[u] \in {"last", "bump", "spin"}
  BY DEF Inside

LEMMA InsideStays ==
  ASSUME NEW t \in Threads, NEW l, BarrierTypes, at' = [at EXCEPT ![t] = l],
         (at[t] \in {"last", "bump", "spin"}) <=> (l \in {"last", "bump", "spin"})
  PROVE  Inside' = Inside
<1>1. Inside' = [Inside EXCEPT ![t] = (l \in {"last", "bump", "spin"})]
  BY InsideMoves
<1>2. Inside[t] = (at[t] \in {"last", "bump", "spin"})
  BY DEF Inside
<1>3. Inside[t] = (l \in {"last", "bump", "spin"})
  BY <1>2
<1>4. [Inside EXCEPT ![t] = Inside[t]] = Inside
  BY DEF Inside
<1> QED
  BY <1>1, <1>3, <1>4

LEMMA AddStep ==
  ASSUME BarrierInv, NEW t \in Threads, Add(t)
  PROVE  BarrierInv' /\ Abstract!Arrive(t)
<1> USE ThreadsAssumption DEF Add, BarrierTypes
<1>1. N # 1 /\ BarrierTypes /\ Counting /\ LastIsAlone
      /\ (NobodyLast => n_barrier = Cardinality(Waiting))
  BY DEF BarrierInv
<1>2. NobodyLast
  BY <1>1 DEF NobodyLast, LastIsAlone, OthersWait, Waiting
<1>3. Waiting \in SUBSET Threads /\ t \notin Waiting
  BY DEF Waiting
<1>4. /\ Cardinality(Waiting) = n_barrier /\ n_barrier \in 0..N
      /\ Cardinality(Waiting \cup {t}) = n_barrier + 1
      /\ n_barrier = N - 1 => Waiting = Threads \ {t}
  BY <1>1, <1>2, <1>3, WaitingCount
<1>5. rounds[t] = n_barrier_passed
  BY <1>1 DEF Counting
<1>6. BarrierTypes' /\ Counting'
  <2>1. BarrierTypes'
    BY <1>1
  <2>2. Counting'
    BY <1>1, <1>5 DEF Counting
  <2> QED
    BY <2>1, <2>2
<1>9. ~Inside[t]
  BY <1>1, InsideIs
<1>7. CASE n_barrier = N - 1
  <2>1. at' = [at EXCEPT ![t] = "last"]
    BY <1>7
  <2>2. OthersWait(t)'
    BY <1>4, <1>7, <2>1, <1>1 DEF OthersWait, Waiting
  <2>3. LastIsAlone'
    BY <2>1, <2>2, <1>2, <1>1, <1>7 DEF LastIsAlone, NobodyLast
  <2>4. ~NobodyLast'
    BY <2>1, <1>1 DEF NobodyLast
  <2>5. BarrierInv'
    BY <1>1, <1>6, <2>1, <2>3, <2>4 DEF BarrierInv
  <2>6. Inside' = [Inside EXCEPT ![t] = TRUE]
    BY <1>1, <2>1, InsideMoves
  <2> QED
    BY <2>5, <2>6, <1>9 DEF Abstract!Arrive
<1>8. CASE n_barrier # N - 1
  <2>1. at' = [at EXCEPT ![t] = "spin"]
    BY <1>8
  <2>2. Waiting' = Waiting \cup {t}
    BY <2>1, <1>1, <1>5 DEF Waiting
  <2>3. n_barrier' = Cardinality(Waiting')
    BY <2>2, <1>4
  <2>4. LastIsAlone'
    BY <2>1, <1>1, <1>2 DEF LastIsAlone, NobodyLast
  <2>5. BarrierInv'
    BY <1>1, <1>6, <2>1, <2>3, <2>4 DEF BarrierInv
  <2>6. Inside' = [Inside EXCEPT ![t] = TRUE]
    BY <1>1, <2>1, InsideMoves
  <2> QED
    BY <2>5, <2>6, <1>9 DEF Abstract!Arrive
<1> QED
  BY <1>7, <1>8

LEMMA LoadStep ==
  ASSUME BarrierInv, NEW t \in Threads, LoadPassed(t)
  PROVE  BarrierInv' /\ UNCHANGED Abstract!bvars
<1> USE DEF LoadPassed, BarrierTypes
<1>1. N # 1 /\ BarrierTypes /\ Counting /\ LastIsAlone
      /\ (NobodyLast => n_barrier = Cardinality(Waiting))
  BY DEF BarrierInv
<1>2. Waiting' = Waiting
  BY <1>1 DEF Waiting
<1>3. BarrierTypes' /\ Counting'
  <2>1. BarrierTypes'
    BY <1>1
  <2>2. Counting'
    BY <1>1 DEF Counting
  <2> QED
    BY <2>1, <2>2
<1>4. LastIsAlone' /\ (NobodyLast' => NobodyLast)
  BY <1>1, <1>2 DEF LastIsAlone, NobodyLast, OthersWait
<1>5. BarrierInv'
  BY <1>1, <1>2, <1>3, <1>4 DEF BarrierInv
<1>6. Inside' = Inside
  BY <1>1, InsideStays
<1> QED
  BY <1>5, <1>6 DEF Abstract!bvars

LEMMA ResetStep ==
  ASSUME BarrierInv, NEW t \in Threads, ResetCount(t)
  PROVE  BarrierInv' /\ UNCHANGED Abstract!bvars
<1> USE DEF ResetCount, BarrierTypes
<1>1. N # 1 /\ BarrierTypes /\ Counting /\ LastIsAlone
  BY DEF BarrierInv
<1>2. OthersWait(t)
  BY <1>1 DEF LastIsAlone
<1>3. BarrierTypes' /\ Counting'
  <2>1. BarrierTypes'
    BY <1>1
  <2>2. Counting'
    BY <1>1 DEF Counting
  <2> QED
    BY <2>1, <2>2
<1>4. LastIsAlone' /\ ~NobodyLast'
  BY <1>1, <1>2 DEF LastIsAlone, NobodyLast, OthersWait, Waiting
<1>5. BarrierInv'
  BY <1>1, <1>3, <1>4 DEF BarrierInv
<1>6. Inside' = Inside
  BY <1>1, InsideStays
<1> QED
  BY <1>5, <1>6 DEF Abstract!bvars

LEMMA ReleaseStep ==
  ASSUME BarrierInv, NEW t \in Threads, Release(t)
  PROVE  BarrierInv' /\ Abstract!Leave(t)
<1> USE DEF Release, Out, BarrierTypes
<1>1. N # 1 /\ BarrierTypes /\ Counting /\ LastIsAlone
  BY DEF BarrierInv
<1>2. OthersWait(t) /\ n_barrier = 0 /\ rounds[t] = n_barrier_passed
  BY <1>1 DEF LastIsAlone, Counting
<1>3. BarrierTypes' /\ Counting'
  <2>1. BarrierTypes'
    BY <1>1
  <2>2. Counting'
    BY <1>1, <1>2 DEF Counting, OthersWait, Waiting
  <2> QED
    BY <2>1, <2>2
<1>4. Waiting' = {}
  BY <1>1, <1>2 DEF Waiting, OthersWait
<1>5. Cardinality(Waiting') = 0
  BY <1>4, FS_EmptySet
<1>6. LastIsAlone'
  BY <1>1, <1>2 DEF LastIsAlone, OthersWait, Waiting
<1>7. BarrierInv'
  BY <1>1, <1>2, <1>3, <1>5, <1>6 DEF BarrierInv
<1>8. \A u \in Threads : rounds[u] = rounds[t] /\ Inside[u]
  BY <1>1, <1>2, InsideIs DEF OthersWait, Waiting
<1>9. Inside' = [Inside EXCEPT ![t] = FALSE]
  <2>1. Inside' = [Inside EXCEPT ![t] = ("out" \in {"last", "bump", "spin"})]
    BY <1>1, InsideMoves
  <2>2. ("out" \in {"last", "bump", "spin"}) = FALSE
    OBVIOUS
  <2> QED
    BY <2>1, <2>2
<1> QED
  BY <1>7, <1>8, <1>9 DEF Abstract!Leave, Abstract!Reached

LEMMA SpinEndsStep ==
  ASSUME BarrierInv, NEW t \in Threads, SpinEnds(t)
  PROVE  BarrierInv' /\ Abstract!Leave(t)
<1> USE DEF SpinEnds, Out, BarrierTypes
<1>1. N # 1 /\ BarrierTypes /\ Counting /\ LastIsAlone
      /\ (NobodyLast => n_barrier = Cardinality(Waiting))
  BY DEF BarrierInv
<1>2. rounds[t] + 1 = n_barrier_passed
  BY <1>1 DEF Counting
<1>3. Waiting' = Waiting /\ t \notin Waiting
  BY <1>1, <1>2 DEF Waiting
<1>4. BarrierTypes' /\ Counting'
  <2>1. BarrierTypes'
    BY <1>1
  <2>2. Counting'
    BY <1>1, <1>2 DEF Counting
  <2> QED
    BY <2>1, <2>2
<1>5. LastIsAlone' /\ (NobodyLast' => NobodyLast)
  BY <1>1, <1>3 DEF LastIsAlone, NobodyLast, OthersWait
<1>6. BarrierInv'
  BY <1>1, <1>3, <1>4, <1>5 DEF BarrierInv
<1>7. \A u \in Threads :
        rounds[u] > rounds[t] \/ (rounds[u] = rounds[t] /\ Inside[u])
  BY <1>1, <1>2, InsideIs DEF Counting
<1>8. Inside' = [Inside EXCEPT ![t] = FALSE]
  <2>1. Inside' = [Inside EXCEPT ![t] = ("out" \in {"last", "bump", "spin"})]
    BY <1>1, InsideMoves
  <2>2. ("out" \in {"last", "bump", "spin"}) = FALSE
    OBVIOUS
  <2> QED
    BY <2>1, <2>2
<1> QED
  BY <1>6, <1>7, <1>8, InsideIs DEF Abstract!Leave, Abstract!Reached

LEMMA PassAloneStep ==
  ASSUME BarrierInv, NEW t \in Threads, PassAlone(t)
  PROVE  BarrierInv' /\ Abstract!Pass(t)
<1> USE DEF PassAlone, BarrierTypes
<1>1. BarrierTypes /\ \A u \in Threads : at[u] = "out"
  BY DEF BarrierInv
<1>3. Threads \ {t} = {}
  BY ThreadsAssumption DEF Threads
<1>4. BarrierInv'
  BY <1>1 DEF BarrierInv
<1>5. ~Inside[t] /\ Inside' = Inside
  BY <1>1, InsideIs DEF Inside
<1> QED
  BY <1>3, <1>4, <1>5 DEF Abstract!Pass

\* A step of one thread inside of the barrier, or out of it
LEMMA BarrierMoves ==
  ASSUME BarrierInv, NEW t \in Threads, BarrierWork(t) \/ BarrierExit(t)
  PROVE  BarrierInv' /\ [Abstract!Next]_Abstract!bvars
<1>1. CASE LoadPassed(t)
  BY <1>1, LoadStep
<1>2. CASE Add(t)
  BY <1>2, AddStep DEF Abstract!Next
<1>3. CASE ResetCount(t)
  BY <1>3, ResetStep
<1>4. CASE SpinAgain(t)
  <2>1. BarrierInv'
    BY <1>4, BarrierUnchanged DEF SpinAgain
  <2>2. UNCHANGED Abstract!bvars
    BY <1>4 DEF SpinAgain, barrierVars, Abstract!bvars, Inside
  <2> QED
    BY <2>1, <2>2
<1>5. CASE PassAlone(t)
  BY <1>5, PassAloneStep DEF Abstract!Next
<1>6. CASE Release(t)
  BY <1>6, ReleaseStep DEF Abstract!Next
<1>7. CASE SpinEnds(t)
  BY <1>7, SpinEndsStep DEF Abstract!Next
<1> QED
  BY <1>1, <1>2, <1>3, <1>4, <1>5, <1>6, <1>7 DEF BarrierWork, BarrierExit

LEMMA AbstractStarts == BarrierInit => Abstract!Init
<1> SUFFICES ASSUME BarrierInit PROVE Abstract!Init
  OBVIOUS
<1>1. \A t \in Threads : (at[t] \in {"last", "bump", "spin"}) = FALSE
  BY DEF BarrierInit
<1>2. Inside = [t \in Threads |-> FALSE]
  BY <1>1 DEF Inside
<1> QED
  BY <1>2 DEF BarrierInit, Abstract!Init

\* The counters are made anew while nobody is inside.
LEMMA AbstractRenews ==
  ASSUME NewBarrier, \A t \in Threads : at[t] = "out"
  PROVE  Abstract!Renew
<1>1. \A t \in Threads : (at[t] \in {"last", "bump", "spin"}) = FALSE
  OBVIOUS
<1>2. Inside = [t \in Threads |-> FALSE]
  BY <1>1 DEF Inside
<1>3. \A t \in Threads : (at'[t] \in {"last", "bump", "spin"}) = FALSE
  BY DEF NewBarrier
<1>4. Inside' = [t \in Threads |-> FALSE]
  BY <1>3 DEF Inside
<1>5. \A t \in Threads : ~Inside[t]
  BY <1>2
<1> QED
  BY <1>2, <1>4, <1>5 DEF NewBarrier, Abstract!Renew

-----------------------------------------------------------------------------
(* The compute threads                                                     *)

Typing ==
  /\ call \in Calls
  /\ pc \in [Threads -> Labels]
  /\ node \in [Threads -> Nat \ {0}] /\ chunk \in [Threads -> Nat]
  /\ current_chunk \in Nat
  /\ ec \in {"success", "aborted"}

\* Where a thread is, and what it works on there
Places ==
  /\ pc[0] = "idle" => \A t \in Threads : pc[t] = "idle"
  /\ \A t \in Threads :
       /\ at[t] # "out" => pc[t] \in {"inner", "outer"}
       /\ pc[t] \in {"inner", "chunk", "fetch"} =>
            node[t] <= Len(graph) /\ NodeOf(t).op = "mul_mat"
       /\ pc[t] \in {"callback", "outer", "check"} => node[t] <= Len(graph)

Inductive == Typing /\ Places /\ BarrierInv

\* What a thread works at between two rounds of the barrier: the first or the second
\* part of a node
Stage(t) ==
  IF \/ pc[t] \in {"chunk", "fetch"}
     \/ pc[t] \in {"callback", "outer"} /\ NodeOf(t).op = "mul_mat"
  THEN <<node[t], 2>>
  ELSE IF pc[t] = "check" \/ (pc[t] = "done" /\ node[t] <= Len(graph))
  THEN <<node[t] + 1, 1>>
  ELSE <<node[t], 1>>

StageAfter(s) ==
  IF s[2] = 1 /\ graph[s[1]].op = "mul_mat" THEN <<s[1], 2>> ELSE <<s[1] + 1, 1>>

\* Equally many rounds mean the same stage, one more means the next.
InStep ==
  pc[0] # "idle" =>
    \A t, u \in Threads :
      /\ rounds[t] = rounds[u] => Stage(t) = Stage(u)
      /\ rounds[t] = rounds[u] + 1 => Stage(t) = StageAfter(Stage(u))

\* Whoever has passed the conversion of a node has done its part of it.
Converting ==
  pc[0] # "idle" =>
    /\ converted \in [1..Len(graph) -> SUBSET Threads]
    /\ \A u \in Threads, n \in 1..Len(graph) :
         /\ graph[n].op = "mul_mat"
         /\ n < node[u] \/ (n = node[u] /\ pc[u] \in Labels \ {"idle", "create", "node"})
         => u \in converted[n]

LEMMA ZeroIsThread == 0 \in Threads
  BY ThreadsAssumption DEF Threads

LEMMA NodesOfGraph ==
  ASSUME call \in Calls
  PROVE  /\ Len(graph) \in Nat /\ \A n \in 1..Len(graph) : graph[n] \in NodeShape
<1>1. graph \in Seq(NodeShape)
  BY CallsAssumption DEF graph, NodeShape
<1> HIDE DEF NodeShape
<1> QED
  BY <1>1

LEMMA GraphNodes ==
  ASSUME call \in Calls
  PROVE  Len(graph) \in Nat /\ \A n \in 1..Len(graph) : graph[n].op \in Ops
BY NodesOfGraph DEF NodeShape

LEMMA Starts == Init => Inductive /\ InStep /\ Converting
<1> SUFFICES ASSUME Init PROVE Inductive /\ InStep /\ Converting
  OBVIOUS
<1>1. BarrierInv
  BY BarrierStarts DEF Init
<1>2. Typing
  BY DEF Init, Typing, Labels
<1>3. Places
  BY DEF Init, Places, BarrierInit
<1>4. InStep /\ Converting
  BY ZeroIsThread DEF Init, InStep, Converting
<1> QED
  BY <1>1, <1>2, <1>3, <1>4 DEF Inductive

-----------------------------------------------------------------------------
(* The steps                                                               *)

\* Where threads are, for the steps that leave the barrier alone
LEMMA WorkOutside ==
  ASSUME Inductive, UNCHANGED barrierVars, Typing', Places'
  PROVE  Inductive' /\ UNCHANGED Abstract!bvars
<1>1. BarrierInv'
  BY BarrierUnchanged DEF Inductive
<1>2. UNCHANGED Abstract!bvars
  BY DEF barrierVars, Abstract!bvars, Inside
<1> QED
  BY <1>1, <1>2 DEF Inductive

LEMMA StartStep ==
  ASSUME Inductive, NEW c \in Calls, Start(c)
  PROVE  Inductive' /\ Abstract!Renew
<1> USE DEF Inductive, Start
<1>1. Typing' /\ Places'
  <2>1. Typing'
    BY ZeroIsThread DEF Typing, Labels, Goto
  <2>2. Places'
    BY ZeroIsThread DEF Typing, Places, Goto, NewBarrier
  <2> QED
    BY <2>1, <2>2
<1>2. BarrierInv'
  BY BarrierRenewed
<1>3. \A t \in Threads : at[t] = "out"
  BY DEF Places
<1>4. Abstract!Renew
  BY <1>3, AbstractRenews
<1> QED
  BY <1>1, <1>2, <1>4

LEMMA MainStep ==
  ASSUME Inductive, Main
  PROVE  Inductive' /\ UNCHANGED Abstract!bvars
<1> USE ZeroIsThread DEF Inductive, Typing, Places, Labels, Goto, graph, NodeOf, barrierVars
<1>1. CASE MainWorks
  BY <1>1, WorkOutside DEF MainWorks
<1>2. CASE Return
  BY <1>2, WorkOutside DEF Return, Joined
<1>3. ASSUME NEW j \in Threads, Create(j)
      PROVE  Inductive' /\ UNCHANGED Abstract!bvars
  BY <1>3, WorkOutside DEF Create
<1> QED
  BY <1>1, <1>2, <1>3 DEF Main

LEMMA WorkStep ==
  ASSUME Inductive, NEW t \in Threads, Work(t)
  PROVE  Inductive' /\ [Abstract!Next]_Abstract!bvars
<1> USE ZeroIsThread DEF Inductive, Typing, Places, Labels, Goto, graph, NodeOf, barrierVars,
      AfterNode
<1>1. CASE SplitNode(t)
  BY <1>1, WorkOutside DEF SplitNode
<1>2. CASE Convert(t)
  <2>1. Typing'
    BY <1>2, ThreadsAssumption DEF Convert
  <2>2. Places'
    BY <1>2 DEF Convert
  <2> QED
    BY <1>2, <2>1, <2>2, WorkOutside DEF Convert
<1>3. CASE DoChunk(t)
  <2>1. Typing'
    BY <1>3 DEF DoChunk
  <2>2. Places'
    BY <1>3 DEF DoChunk
  <2> QED
    BY <1>3, <2>1, <2>2, WorkOutside DEF DoChunk
<1>4. CASE Fetch(t)
  BY <1>4, WorkOutside DEF Fetch
<1>5. CASE NoChunkLeft(t)
  BY <1>5, WorkOutside DEF NoChunkLeft
<1>6. CASE Callback(t)
  BY <1>6, WorkOutside DEF Callback
<1>7. CASE CheckStatus(t)
  <2>1. Typing'
    <3>1. node[t] \in Nat \ {0} /\ node[t] + 1 \in Nat \ {0}
      OBVIOUS
    <3>2. node' \in [Threads -> Nat \ {0}]
      BY <1>7, <3>1 DEF CheckStatus
    <3>3. pc' \in [Threads -> Labels]
      BY <1>7 DEF CheckStatus
    <3> QED
      BY <1>7, <3>2, <3>3 DEF CheckStatus
  <2>2. Places'
    BY <1>7 DEF CheckStatus
  <2> QED
    BY <1>7, <2>1, <2>2, WorkOutside DEF CheckStatus
<1>8. CASE EndOfGraph(t)
  BY <1>8, WorkOutside DEF EndOfGraph
<1>9. CASE WaitAtBarrier(t)
  <2>1. BarrierInv' /\ [Abstract!Next]_Abstract!bvars
    BY <1>9, BarrierMoves DEF WaitAtBarrier
  <2>2. Typing' /\ Places'
    BY <1>9 DEF WaitAtBarrier, workVars, BarrierWork, LoadPassed, Add, ResetCount, SpinAgain,
      BarrierInv, BarrierTypes
  <2> QED
    BY <2>1, <2>2
<1>10. CASE LeaveBarrier(t)
  <2>1. BarrierInv' /\ [Abstract!Next]_Abstract!bvars
    BY <1>10, BarrierMoves DEF LeaveBarrier
  <2>2. Typing'
    BY <1>10 DEF LeaveBarrier, Threads
  <2>3. Places'
    BY <1>10 DEF LeaveBarrier, BarrierExit, PassAlone, Release, SpinEnds, Out,
      BarrierInv, BarrierTypes
  <2> QED
    BY <2>1, <2>2, <2>3
<1> QED
  BY <1>1, <1>2, <1>3, <1>4, <1>5, <1>6, <1>7, <1>8, <1>9, <1>10 DEF Work

LEMMA InductiveStep ==
  Inductive /\ [Next]_vars => Inductive' /\ [Abstract!Next]_Abstract!bvars
<1> SUFFICES ASSUME Inductive, [Next]_vars
             PROVE  Inductive' /\ [Abstract!Next]_Abstract!bvars
  OBVIOUS
<1>1. ASSUME NEW c \in Calls, Start(c)
      PROVE  Inductive' /\ [Abstract!Next]_Abstract!bvars
  BY <1>1, StartStep DEF Abstract!Next
<1>2. CASE Main
  BY <1>2, MainStep
<1>3. ASSUME NEW t \in Threads, Work(t)
      PROVE  Inductive' /\ [Abstract!Next]_Abstract!bvars
  BY <1>3, WorkStep
<1>4. CASE UNCHANGED vars
  <2>1. Typing' /\ Places'
    BY <1>4 DEF vars, workVars, barrierVars, Inductive, Typing, Places, graph, NodeOf
  <2> QED
    BY <1>4, <2>1, WorkOutside DEF vars
<1> QED
  BY <1>1, <1>2, <1>3, <1>4 DEF Next

\* Threads that are not waiting have completed equally many rounds, and nobody is
\* more than one round ahead of anybody.
LEMMA RoundsApart ==
  ASSUME BarrierInv, NEW t \in Threads, NEW u \in Threads
  PROVE  /\ at[t] # "spin" /\ at[u] # "spin" => rounds[t] = rounds[u]
         /\ rounds[t] <= rounds[u] + 1
         /\ rounds[t] = rounds[u] + 1 => at[u] = "spin" /\ rounds[t] = n_barrier_passed
         /\ rounds[t] \in Nat /\ rounds[u] \in Nat
<1>1. CASE N = 1
  <2>1. t = u
    BY <1>1 DEF Threads
  <2> QED
    BY <2>1 DEF BarrierInv, BarrierTypes
<1>2. CASE N # 1
  BY <1>2 DEF BarrierInv, BarrierTypes, Counting
<1> QED
  BY <1>1, <1>2

\* Who leaves the barrier is ahead of nobody.
LEMMA LeaveNotAhead ==
  ASSUME BarrierInv, NEW t \in Threads, BarrierExit(t), NEW u \in Threads
  PROVE  rounds[t] <= rounds[u]
<1>1. CASE PassAlone(t)
  BY <1>1 DEF PassAlone, Threads, BarrierInv, BarrierTypes
<1>2. CASE Release(t)
  BY <1>2 DEF Release, BarrierInv, BarrierTypes, Counting, LastIsAlone, OthersWait, Waiting
<1>3. CASE SpinEnds(t)
  BY <1>3 DEF SpinEnds, BarrierInv, BarrierTypes, Counting
<1> QED
  BY <1>1, <1>2, <1>3 DEF BarrierExit

\* A step that leaves rounds and stages alone keeps the threads in step.
LEMMA StepKept ==
  ASSUME InStep, pc[0] # "idle", UNCHANGED <<rounds, call>>,
         \A u \in Threads : Stage(u)' = Stage(u)
  PROVE  InStep'
<1>1. \A u \in Threads : StageAfter(Stage(u))' = StageAfter(Stage(u))
  <2> SUFFICES ASSUME NEW u \in Threads PROVE StageAfter(Stage(u))' = StageAfter(Stage(u))
    OBVIOUS
  <2>1. Stage(u)' = Stage(u) /\ graph' = graph
    BY DEF graph
  <2> QED
    BY <2>1 DEF StageAfter
<1> QED
  BY <1>1 DEF InStep

\* When a thread leaves the barrier it enters the stage after the one it was in, where
\* all that left before it already are.
LEMMA LeaveKeepsStep ==
  ASSUME Inductive, Inductive', InStep, NEW t \in Threads, LeaveBarrier(t)
  PROVE  InStep'
<1> SUFFICES ASSUME NEW a \in Threads, NEW b \in Threads
             PROVE  /\ (rounds[a] = rounds[b] => Stage(a) = Stage(b))'
                    /\ (rounds[a] = rounds[b] + 1 => Stage(a) = StageAfter(Stage(b)))'
  BY DEF InStep
<1>1. pc[0] # "idle" /\ pc[t] \in {"inner", "outer"} /\ UNCHANGED <<call, node>>
      /\ pc' = [pc EXCEPT ![t] = IF pc[t] = "inner" THEN "chunk" ELSE "check"]
      /\ pc \in [Threads -> Labels] /\ node \in [Threads -> Nat \ {0}]
  BY DEF LeaveBarrier, Goto, Inductive, Typing, Places
<1>2. rounds' = [rounds EXCEPT ![t] = @ + 1] /\ rounds \in [Threads -> Nat]
  BY DEF LeaveBarrier, BarrierExit, PassAlone, Release, SpinEnds, Out, Inductive, BarrierInv,
    BarrierTypes
<1>3. \A u \in Threads \ {t} : Stage(u)' = Stage(u) /\ rounds'[u] = rounds[u]
  BY <1>1, <1>2 DEF Stage, NodeOf, graph
<1>4. node[t] <= Len(graph) /\ (pc[t] = "inner" => NodeOf(t).op = "mul_mat")
  BY <1>1 DEF Inductive, Places
<1>5. Stage(t)' = StageAfter(Stage(t)) /\ rounds'[t] = rounds[t] + 1
  <2>1. CASE pc[t] = "inner"
    BY <1>1, <1>4, <2>1, <1>2 DEF Stage, StageAfter, NodeOf, graph
  <2>2. CASE pc[t] = "outer"
    BY <1>1, <1>4, <2>2, <1>2 DEF Stage, StageAfter, NodeOf, graph
  <2> QED
    BY <1>1, <2>1, <2>2
<1>6. \A u \in Threads : rounds[u] <= rounds[t] + 1 /\ rounds[t] <= rounds[u]
  BY RoundsApart, LeaveNotAhead DEF Inductive, LeaveBarrier
<1>7. ASSUME NEW u \in Threads \ {t}
      PROVE  /\ rounds'[u] = rounds'[t] => Stage(u)' = Stage(t)'
             /\ rounds'[u] # rounds'[t] + 1
             /\ rounds'[t] = rounds'[u] + 1 => Stage(t)' = StageAfter(Stage(u))
  <2>1. /\ rounds[t] = rounds[u] => Stage(t) = Stage(u)
        /\ rounds[u] = rounds[t] + 1 => Stage(u) = StageAfter(Stage(t))
    BY <1>1 DEF InStep
  <2> QED
    BY <2>1, <1>2, <1>3, <1>5, <1>6
<1>8. \A u \in Threads \ {t} : StageAfter(Stage(u))' = StageAfter(Stage(u))
  BY <1>1, <1>3 DEF StageAfter, graph
<1>9. CASE a = t /\ b = t
  BY <1>9, <1>2
<1>10. CASE a = t /\ b # t
  BY <1>10, <1>7, <1>8
<1>11. CASE a # t /\ b = t
  BY <1>11, <1>7
<1>12. CASE a # t /\ b # t
  BY <1>12, <1>3, <1>8, <1>1 DEF InStep
<1> QED
  BY <1>9, <1>10, <1>11, <1>12

\* Only leaving the barrier takes a thread to another stage.
LEMMA StageStays ==
  ASSUME Inductive, NEW t \in Threads, Work(t), ~LeaveBarrier(t)
  PROVE  \A u \in Threads : Stage(u)' = Stage(u)
<1> USE DEF Goto, AfterNode, NodeOf, graph, Labels, Typing, Inductive
<1>1. CASE SplitNode(t)
  BY <1>1 DEF SplitNode, Stage
<1>2. CASE Convert(t)
  BY <1>2 DEF Convert, Stage
<1>3. CASE DoChunk(t)
  BY <1>3 DEF DoChunk, Stage, Places
<1>4. CASE Fetch(t)
  BY <1>4 DEF Fetch, Stage
<1>5. CASE NoChunkLeft(t)
  BY <1>5 DEF NoChunkLeft, Stage, Places
<1>6. CASE Callback(t)
  BY <1>6 DEF Callback, Stage
<1>7. CASE WaitAtBarrier(t)
  BY <1>7 DEF WaitAtBarrier, Stage, workVars
<1>8. CASE CheckStatus(t)
  <2>1. Stage(t) = <<node[t] + 1, 1>> /\ node[t] <= Len(call.graph)
    BY <1>8 DEF CheckStatus, Stage, Places
  <2>2. Stage(t)' = Stage(t)
    BY <1>8, <2>1 DEF CheckStatus, Stage
  <2>3. \A u \in Threads \ {t} : Stage(u)' = Stage(u)
    BY <1>8 DEF CheckStatus, Stage
  <2> QED
    BY <2>2, <2>3
<1>9. CASE EndOfGraph(t)
  BY <1>9 DEF EndOfGraph, Stage
<1> QED
  BY <1>1, <1>2, <1>3, <1>4, <1>5, <1>6, <1>7, <1>8, <1>9 DEF Work

LEMMA WorkKeepsStep ==
  ASSUME Inductive, Inductive', InStep, NEW t \in Threads, Work(t)
  PROVE  InStep'
<1>1. pc[0] # "idle" \/ InStep'
  BY DEF Goto, Inductive, Typing, Places, Work, SplitNode, Convert, DoChunk, Fetch, NoChunkLeft,
    Callback, WaitAtBarrier, LeaveBarrier, CheckStatus, EndOfGraph
<1>2. CASE LeaveBarrier(t)
  BY <1>2, LeaveKeepsStep
<1>3. CASE ~LeaveBarrier(t)
  <2>1. \A u \in Threads : Stage(u)' = Stage(u)
    BY <1>3, StageStays
  <2>2. UNCHANGED <<rounds, call>>
    BY <1>3 DEF Work, SplitNode, Convert, DoChunk, Fetch, NoChunkLeft, Callback, WaitAtBarrier,
      CheckStatus, EndOfGraph, BarrierWork, LoadPassed, Add, ResetCount, SpinAgain, barrierVars,
      workVars
  <2> QED
    BY <1>1, <2>1, <2>2, StepKept
<1> QED
  BY <1>2, <1>3

LEMMA StartStages ==
  ASSUME Inductive, NEW c \in Calls, Start(c)
  PROVE  \A u \in Threads : rounds'[u] = 0 /\ Stage(u)' = <<1, 1>>
<1> USE ZeroIsThread DEF Goto, Inductive, Typing, Labels
<1>1. \A u \in Threads \ {0} : pc'[u] = "idle"
  BY DEF Start, Places
<1>2. pc'[0] = "create" /\ \A u \in Threads : rounds'[u] = 0 /\ node'[u] = 1
  BY DEF Start, NewBarrier
<1>3. \A u \in Threads : pc'[u] \in {"idle", "create"}
  BY <1>1, <1>2
<1> QED
  BY <1>2, <1>3 DEF Stage

LEMMA MainStages ==
  ASSUME Inductive, MainWorks \/ \E j \in Threads : Create(j)
  PROVE  \A u \in Threads : Stage(u)' = Stage(u)
BY DEF MainWorks, Create, Stage, NodeOf, graph, Goto, Inductive, Typing, Labels

\* Starting and ending a computation
LEMMA CallKeepsStep ==
  ASSUME Inductive, InStep, Main \/ \E c \in Calls : Start(c)
  PROVE  InStep'
<1> USE ZeroIsThread DEF Goto, Inductive, Typing, Labels
<1>1. ASSUME NEW c \in Calls, Start(c) PROVE InStep'
  BY <1>1, StartStages DEF InStep
<1>2. CASE MainWorks
  BY <1>2, MainStages, StepKept DEF MainWorks, barrierVars
<1>3. CASE Return
  BY <1>3 DEF Return, InStep
<1>4. ASSUME NEW j \in Threads, Create(j) PROVE InStep'
  BY <1>4, MainStages, StepKept DEF Create, barrierVars
<1> QED
  BY <1>1, <1>2, <1>3, <1>4 DEF Main

\* A step of one thread that stays in the graph keeps what the others have converted.
LEMMA ConvertingKept ==
  ASSUME Inductive, Converting, NEW t \in Threads, Work(t)
  PROVE  Converting'
<1> USE DEF Goto, AfterNode, NodeOf, graph, Labels, Typing, Inductive, Converting
<1>1. call' = call /\ (pc[0] # "idle" \/ Converting')
  BY DEF Places, Work, SplitNode, Convert, DoChunk, Fetch, NoChunkLeft, Callback,
    WaitAtBarrier, LeaveBarrier, CheckStatus, EndOfGraph, workVars
<1> USE <1>1
<1>2. CASE SplitNode(t)
  BY <1>2 DEF SplitNode
<1>3. CASE Convert(t)
  <2>1. CASE pc[0] # "idle"
    <3>1. node[t] \in 1..Len(graph)
      BY <1>3, GraphNodes DEF Convert
    <3>2. /\ converted' = [converted EXCEPT ![node[t]] = @ \cup {t}]
          /\ converted \in [1..Len(graph) -> SUBSET Threads]
      BY <1>3, <2>1 DEF Convert
    <3>3. converted' \in [1..Len(graph) -> SUBSET Threads]
      BY <3>1, <3>2
    <3>4. /\ \A n \in 1..Len(graph) : converted[n] \subseteq converted'[n]
          /\ t \in converted'[node[t]]
      BY <3>1, <3>2
    <3>5. node' = node /\ \A u \in Threads \ {t} : pc'[u] = pc[u]
      BY <1>3 DEF Convert
    <3> QED
      BY <2>1, <3>3, <3>4, <3>5
  <2> QED
    BY <2>1
<1>4. CASE DoChunk(t)
  BY <1>4 DEF DoChunk
<1>5. CASE Fetch(t)
  BY <1>5 DEF Fetch
<1>6. CASE NoChunkLeft(t)
  BY <1>6 DEF NoChunkLeft
<1>7. CASE Callback(t)
  BY <1>7 DEF Callback
<1>8. CASE WaitAtBarrier(t)
  BY <1>8 DEF WaitAtBarrier, workVars
<1>9. CASE LeaveBarrier(t)
  BY <1>9 DEF LeaveBarrier
<1>10. CASE CheckStatus(t)
  <2>1. \A n \in 1..Len(graph) : n < node'[t] => n < node[t] \/ n = node[t]
    BY <1>10, GraphNodes DEF CheckStatus
  <2>2. \A u \in Threads \ {t} : pc'[u] = pc[u] /\ node'[u] = node[u]
    BY <1>10 DEF CheckStatus
  <2> QED
    BY <1>10, <2>1, <2>2 DEF CheckStatus
<1>11. CASE EndOfGraph(t)
  <2>1. \A n \in 1..Len(graph) : n < node[t]
    BY <1>11, GraphNodes DEF EndOfGraph
  <2> QED
    BY <1>11, <2>1 DEF EndOfGraph
<1> QED
  BY <1>2, <1>3, <1>4, <1>5, <1>6, <1>7, <1>8, <1>9, <1>10, <1>11 DEF Work

LEMMA CallKeepsConverting ==
  ASSUME Inductive, Converting, Main \/ \E c \in Calls : Start(c)
  PROVE  Converting'
<1> USE ZeroIsThread DEF Goto, graph, Labels, Typing, Inductive, Converting
<1>1. ASSUME NEW c \in Calls, Start(c) PROVE Converting'
  <2>1. \A u \in Threads : node'[u] = 1 /\ pc'[u] \in {"idle", "create"}
    BY <1>1 DEF Start, Places
  <2>2. converted' \in [1..Len(call'.graph) -> SUBSET Threads]
    BY <1>1 DEF Start
  <2>3. \A n \in 1..Len(call'.graph) : ~(n < 1)
    OBVIOUS
  <2> QED
    BY <2>1, <2>2, <2>3
<1>2. CASE MainWorks
  BY <1>2 DEF MainWorks
<1>3. CASE Return
  BY <1>3 DEF Return
<1>4. ASSUME NEW j \in Threads, Create(j) PROVE Converting'
  BY <1>4 DEF Create
<1> QED
  BY <1>1, <1>2, <1>3, <1>4 DEF Main

\* Whoever is at the chunks of a node has everybody at that node.
LEMMA Together ==
  ASSUME Inductive, InStep, NEW t \in Threads, pc[t] \in {"chunk", "fetch"}
  PROVE  /\ node[t] \in 1..Len(graph) /\ graph[node[t]].op = "mul_mat"
         /\ Stage(t) = <<node[t], 2>>
         /\ \A u \in Threads :
              /\ node[u] = node[t] /\ Stage(u)[1] = node[t]
              /\ pc[u] \in {"inner", "chunk", "fetch", "callback", "outer"}
<1>1. /\ pc[0] # "idle" /\ at[t] = "out"
      /\ node[t] \in 1..Len(graph) /\ graph[node[t]].op = "mul_mat"
      /\ Stage(t) = <<node[t], 2>>
  BY GraphNodes DEF Inductive, Typing, Places, NodeOf, Stage
<1>2. ASSUME NEW u \in Threads
      PROVE  /\ node[u] = node[t] /\ Stage(u)[1] = node[t]
             /\ pc[u] \in {"inner", "chunk", "fetch", "callback", "outer"}
  <2>1. node[u] \in Nat \ {0} /\ pc[u] \in Labels
    BY DEF Inductive, Typing
  <2>2. CASE at[u] # "spin"
    <3>1. rounds[t] = rounds[u]
      BY <1>1, <2>2, RoundsApart DEF Inductive
    <3>2. Stage(u) = <<node[t], 2>>
      BY <1>1, <3>1 DEF InStep
    <3> QED
      BY <3>2, <2>1 DEF Stage
  <2>3. CASE at[u] = "spin"
    <3>1. pc[u] \in {"inner", "outer"}
      BY <2>3 DEF Inductive, Places
    <3>2. rounds[t] = rounds[u] \/ rounds[t] = rounds[u] + 1
      BY <1>1, RoundsApart DEF Inductive
    <3>3. Stage(u) = <<node[u], 1>> \/ Stage(u) = <<node[u], 2>>
      BY <3>1 DEF Stage
    <3>4. CASE rounds[t] = rounds[u]
      BY <1>1, <3>1, <3>3, <3>4 DEF InStep
    <3>5. CASE rounds[t] = rounds[u] + 1
      <4>1. StageAfter(Stage(u)) = <<node[t], 2>>
        BY <1>1, <3>5 DEF InStep
      <4> QED
        BY <4>1, <3>1, <3>3, <2>1, <1>1 DEF StageAfter
    <3> QED
      BY <3>2, <3>4, <3>5
  <2> QED
    BY <2>2, <2>3
<1> QED
  BY <1>1, <1>2

\* While a thread multiplies, nobody is at the beginning of a node.
LEMMA StableFollows ==
  ASSUME Inductive, InStep, Converting PROVE WorkBufferIsStable
<1> SUFFICES ASSUME NEW t \in Threads, pc[t] \in {"chunk", "fetch"}
             PROVE  /\ converted[node[t]] = Threads
                    /\ \A u \in Threads : pc[u] # "node"
  BY DEF WorkBufferIsStable
<1>1. /\ node[t] \in 1..Len(graph) /\ graph[node[t]].op = "mul_mat"
      /\ \A u \in Threads :
           /\ node[u] = node[t]
           /\ pc[u] \in {"inner", "chunk", "fetch", "callback", "outer"}
  BY Together
<1>2. pc[0] # "idle"
  BY DEF Inductive, Places
<1>3. \A u \in Threads : u \in converted[node[t]]
  BY <1>1, <1>2 DEF Converting, Labels
<1>4. converted[node[t]] \subseteq Threads
  BY <1>1, <1>2 DEF Converting
<1> QED
  BY <1>1, <1>3, <1>4

LEMMA AllKept ==
  Inductive /\ InStep /\ Converting /\ [Next]_vars => Inductive' /\ InStep' /\ Converting'
<1> SUFFICES ASSUME Inductive, InStep, Converting, [Next]_vars
             PROVE  Inductive' /\ InStep' /\ Converting'
  OBVIOUS
<1>1. Inductive'
  BY InductiveStep
<1>2. CASE Main \/ \E c \in Calls : Start(c)
  BY <1>1, <1>2, CallKeepsStep, CallKeepsConverting
<1>3. ASSUME NEW t \in Threads, Work(t) PROVE InStep' /\ Converting'
  BY <1>1, <1>3, WorkKeepsStep, ConvertingKept
<1>4. CASE UNCHANGED vars
  <2>1. \A u \in Threads : Stage(u)' = Stage(u)
    BY <1>4 DEF vars, workVars, Stage, NodeOf, graph
  <2>2. InStep'
    BY <1>4, <2>1 DEF InStep, StageAfter, vars, workVars, barrierVars, graph
  <2>3. Converting'
    BY <1>4 DEF Converting, vars, workVars, graph
  <2> QED
    BY <1>1, <2>2, <2>3
<1>5. InStep' /\ Converting'
  <2>1. CASE Next
    BY <1>2, <1>3, <2>1 DEF Next
  <2> QED
    BY <1>4, <2>1
<1> QED
  BY <1>1, <1>5

-----------------------------------------------------------------------------
(* How the chunks of a node are shared out                                 *)

\* Chunk c of node n will be computed by t and by nobody else: it is the one with the
\* thread's own number and t has not come to it, or t has taken it.
Holds(t, c, n) ==
  \/ c = t /\ (node[t] < n \/ (node[t] = n /\ pc[t] \in {"idle", "create", "node", "inner"}))
  \/ node[t] = n /\ pc[t] = "chunk" /\ chunk[t] = c

\* Somebody is past node n; somebody is in its second part.
Passed(n) == \E t \in Threads : Stage(t)[1] > n
Multiplied(n) == \E t \in Threads : Stage(t) = <<n, 2>>

\* Chunk c of node n is nobody's yet: the counter has not reached it, or does not count
\* for this node yet.
Untaken(c, n) == c >= N /\ ~Passed(n) /\ (Multiplied(n) => c >= current_chunk)

\* The chunks of node n that are not computed, and what has been computed then
Open(n) ==
  {c \in 0..(NChunks(graph[n]) - 1) : Untaken(c, n) \/ \E t \in Threads : Holds(t, c, n)}
Counts(n, open) ==
  [e \in Result(graph[n]) |-> IF \E c \in open : e \in Elements(graph[n], c) THEN 0 ELSE 1]

\* The counter is set before anybody takes from it, hands out every chunk once, and who
\* stops taking has seen it at the end.
Taking ==
  /\ \A t \in Threads :
       pc[t] = "chunk" => chunk[t] = t \/ (chunk[t] >= N /\ chunk[t] < current_chunk)
  /\ \A t, u \in Threads : pc[t] = "chunk" /\ pc[u] = "chunk" /\ chunk[t] = chunk[u] => t = u

CounterSet ==
  \A n \in 1..Len(graph) :
    /\ Multiplied(n) /\ ~Passed(n) => current_chunk >= N
    /\ pc[0] = "inner" /\ node[0] = n /\ ~Multiplied(n) => current_chunk = N

AllHandedOut ==
  \A t \in Threads, n \in 1..Len(graph) :
    /\ pc[t] = "fetch" /\ node[t] = n => NChunks(graph[n]) > N
    /\ /\ pc[t] \in {"callback", "outer"} /\ node[t] = n /\ graph[n].op = "mul_mat"
       /\ ~Passed(n) /\ NChunks(graph[n]) > N
       => current_chunk >= NChunks(graph[n])

Counted == computed = [n \in 1..Len(graph) |-> Counts(n, Open(n))]
NoneLeft == \A n \in 1..Len(graph) : Passed(n) => Open(n) = {}
EndsEarly == \A t \in Threads : pc[t] = "done" /\ node[t] <= Len(graph) => ec = "aborted"

TakenRight == Taking /\ CounterSet /\ AllHandedOut /\ EndsEarly

Sharing == pc[0] # "idle" => Counted /\ NoneLeft /\ TakenRight

\* Whoever begins with a node is past all second parts.
LEMMA AtNode ==
  ASSUME Inductive, InStep, NEW t \in Threads, pc[t] = "node", NEW m \in Nat, Multiplied(m)
  PROVE  Passed(m) /\ m # node[t]
<1>1. PICK u \in Threads : Stage(u) = <<m, 2>>
  BY DEF Multiplied
<1>2. pc[0] # "idle" /\ at[t] = "out" /\ Stage(t) = <<node[t], 1>> /\ node[t] \in Nat
  BY DEF Inductive, Places, Typing, Stage
<1>3. rounds[t] # rounds[u]
  BY <1>1, <1>2 DEF InStep
<1>4. rounds[t] = rounds[u] + 1
  <2>2. rounds[u] # rounds[t] + 1
    BY <1>2, RoundsApart DEF Inductive
  <2>3. rounds[t] <= rounds[u] + 1 /\ rounds[u] <= rounds[t] + 1
        /\ rounds[t] \in Nat /\ rounds[u] \in Nat
    BY RoundsApart DEF Inductive
  <2> QED
    BY <1>3, <2>2, <2>3
<1>5. Stage(t) = StageAfter(<<m, 2>>)
  BY <1>1, <1>2, <1>4 DEF InStep
<1>6. Stage(t) = <<m + 1, 1>>
  BY <1>5 DEF StageAfter
<1> QED
  BY <1>2, <1>6 DEF Passed

\* Nobody leaves the barrier unless all have come to it.
LEMMA LeaveTogether ==
  ASSUME Inductive, InStep, NEW t \in Threads, LeaveBarrier(t), NEW u \in Threads
  PROVE  \/ Stage(u) = StageAfter(Stage(t))
         \/ Stage(u) = Stage(t) /\ pc[u] = pc[t] /\ node[u] = node[t]
<1>1. pc[0] # "idle" /\ pc[t] \in {"inner", "outer"} /\ BarrierInv
  BY DEF LeaveBarrier, Inductive, Places
<1>2. rounds[t] <= rounds[u] /\ rounds[u] <= rounds[t] + 1
      /\ rounds[t] \in Nat /\ rounds[u] \in Nat
  BY RoundsApart, LeaveNotAhead DEF Inductive, LeaveBarrier
<1>3. CASE rounds[u] = rounds[t] + 1
  BY <1>1, <1>3 DEF InStep
<1>4. CASE rounds[u] = rounds[t]
  <2>1. u = t \/ at[u] = "spin"
    <3>1. CASE PassAlone(t)
      BY <3>1 DEF PassAlone, Threads
    <3>2. CASE Release(t)
      BY <1>1, <3>2 DEF Release, BarrierInv, LastIsAlone, OthersWait, Waiting
    <3>3. CASE SpinEnds(t)
      BY <1>1, <1>4, <3>3 DEF SpinEnds, BarrierInv, BarrierTypes, Counting
    <3> QED
      BY <3>1, <3>2, <3>3 DEF LeaveBarrier, BarrierExit
  <2>2. pc[u] \in {"inner", "outer"}
    BY <1>1, <2>1 DEF Inductive, Places
  <2>3. Stage(u) = Stage(t)
    BY <1>1, <1>4 DEF InStep
  <2>4. /\ pc[t] = "inner" => graph[node[t]].op = "mul_mat"
        /\ pc[u] = "inner" => graph[node[u]].op = "mul_mat"
    BY DEF Inductive, Places, NodeOf
  <2> QED
    BY <1>1, <2>2, <2>3, <2>4 DEF Stage, NodeOf
<1> QED
  BY <1>2, <1>3, <1>4

\* As long as nobody changes its stage, a chunk changes hands with the counter only.
LEMMA StagesKept ==
  ASSUME \A u \in Threads : Stage(u)' = Stage(u)
  PROVE  \A n \in Nat : (Passed(n)' <=> Passed(n)) /\ (Multiplied(n)' <=> Multiplied(n))
BY DEF Passed, Multiplied

LEMMA OpenKept ==
  ASSUME call' = call, current_chunk' = current_chunk, NEW n \in 1..Len(graph),
         Passed(n)' <=> Passed(n), Multiplied(n)' <=> Multiplied(n),
         \A u \in Threads, c \in 0..(NChunks(graph[n]) - 1) : Holds(u, c, n)' <=> Holds(u, c, n)
  PROVE  Open(n)' = Open(n)
BY DEF Open, Untaken, graph

\* A step that computes nothing leaves every chunk as it is.
LEMMA NothingComputed ==
  ASSUME Counted, UNCHANGED <<call, computed>>,
         \A n \in 1..Len(graph) : Open(n)' = Open(n)
  PROVE  Counted'
<1>1. \A n, open : Counts(n, open)' = Counts(n, open)
  BY DEF Counts, graph
<1> QED
  BY <1>1 DEF Counted, graph

\* One more chunk is computed.
LEMMA CountsOneMore ==
  ASSUME NEW n, graph[n] \in NodeShape, NEW open \in SUBSET (0..(NChunks(graph[n]) - 1)),
         NEW k \in open
  PROVE  Counts(n, open \ {k}) =
           [x \in DOMAIN Counts(n, open) |->
              IF x \in Elements(graph[n], k) THEN Counts(n, open)[x] + 1 ELSE Counts(n, open)[x]]
<1>1. ASSUME NEW x \in Result(graph[n])
      PROVE  Counts(n, open \ {k})[x] =
               IF x \in Elements(graph[n], k) THEN Counts(n, open)[x] + 1 ELSE Counts(n, open)[x]
  <2>1. PICK c \in 0..(NChunks(graph[n]) - 1) :
          /\ x \in Elements(graph[n], c)
          /\ \A b \in 0..(NChunks(graph[n]) - 1) : x \in Elements(graph[n], b) => b = c
    BY ElementsDivide
  <2>2. \A s \in SUBSET (0..(NChunks(graph[n]) - 1)) : Counts(n, s)[x] = IF c \in s THEN 0 ELSE 1
    BY <2>1 DEF Counts
  <2>3. x \in Elements(graph[n], k) <=> c = k
    BY <2>1
  <2> QED
    BY <2>2, <2>3
<1> QED
  BY <1>1 DEF Counts

\* A step that computes a chunk closes it.
LEMMA ChunkComputed ==
  ASSUME Inductive, Counted, NEW t \in Threads, NEW k, Compute(t, k), call' = call,
         node[t] \in 1..Len(graph), k \in Open(node[t]),
         \A n \in 1..Len(graph) : Open(n)' = IF n = node[t] THEN Open(n) \ {k} ELSE Open(n)
  PROVE  Counted'
<1> DEFINE m == node[t]
<1>1. computed' = [computed EXCEPT ![m] =
                     [x \in DOMAIN @ |-> IF x \in Elements(graph[m], k) THEN @[x] + 1 ELSE @[x]]]
  BY DEF Compute, NodeOf
<1>2. \A n, open : Counts(n, open)' = Counts(n, open)
  BY DEF Counts, graph
<1>3. computed = [n \in 1..Len(graph) |-> Counts(n, Open(n))]
  BY DEF Counted
<1>4. Open(m) \in SUBSET (0..(NChunks(graph[m]) - 1)) /\ graph[m] \in NodeShape
  BY NodesOfGraph DEF Open, Inductive, Typing
<1>5. m \in 1..Len(graph) /\ k \in Open(m)
  OBVIOUS
<1> HIDE DEF m
<1>6. Counts(m, Open(m) \ {k}) =
        [x \in DOMAIN Counts(m, Open(m)) |->
           IF x \in Elements(graph[m], k) THEN Counts(m, Open(m))[x] + 1 ELSE Counts(m, Open(m))[x]]
  BY <1>4, <1>5, CountsOneMore
<1>7. computed' = [n \in 1..Len(graph) |-> IF n = m THEN Counts(m, Open(m) \ {k}) ELSE Counts(n, Open(n))]
  BY <1>1, <1>3, <1>5, <1>6
<1>8. \A n \in 1..Len(graph) :
        Counts(n, Open(n))' = IF n = m THEN Counts(m, Open(m) \ {k}) ELSE Counts(n, Open(n))
  BY <1>2 DEF m
<1> QED
  BY <1>7, <1>8 DEF Counted, graph

LEMMA OneClosed ==
  ASSUME call' = call, current_chunk' = current_chunk, NEW n \in 1..Len(graph),
         NEW t \in Threads, NEW k,
         Passed(n)' <=> Passed(n), Multiplied(n)' <=> Multiplied(n),
         \A u \in Threads, c \in 0..(NChunks(graph[n]) - 1) :
           Holds(u, c, n)' <=> Holds(u, c, n) /\ ~(n = node[t] /\ c = k),
         n = node[t] => ~Untaken(k, n)
  PROVE  Open(n)' = IF n = node[t] THEN Open(n) \ {k} ELSE Open(n)
<1>1. \A c \in 0..(NChunks(graph[n]) - 1) : Untaken(c, n)' <=> Untaken(c, n)
  BY DEF Untaken
<1>2. Open(n)' = {c \in 0..(NChunks(graph[n]) - 1) :
                    Untaken(c, n)' \/ \E u \in Threads : Holds(u, c, n)'}
  BY DEF Open, graph
<1> QED
  BY <1>1, <1>2 DEF Open

\* What a step leaves unless it leaves the barrier
LEMMA NoneLeftKept ==
  ASSUME NoneLeft, call' = call, \A u \in Threads : Stage(u)' = Stage(u),
         \A n \in 1..Len(graph) : Open(n)' \subseteq Open(n)
  PROVE  NoneLeft'
<1>1. \A n \in 1..Len(graph) : Passed(n)' <=> Passed(n)
  BY StagesKept
<1> QED
  BY <1>1 DEF NoneLeft, graph

LEMMA SplitShares ==
  ASSUME Inductive, Counted, NoneLeft, TakenRight, NEW t \in Threads, SplitNode(t),
         \A u \in Threads : Stage(u)' = Stage(u)
  PROVE  Counted' /\ NoneLeft' /\ TakenRight'
<1>1. /\ pc[t] = "node" /\ node[t] \in 1..Len(graph) /\ graph[node[t]].op = "split"
      /\ UNCHANGED <<call, node, chunk, current_chunk, ec>>
      /\ pc' = [pc EXCEPT ![t] = AfterNode(t)] /\ AfterNode(t) \in {"callback", "outer"}
      /\ pc \in [Threads -> Labels] /\ Compute(t, t) /\ call \in Calls
      /\ node \in [Threads -> Nat \ {0}]
  BY GraphNodes DEF SplitNode, NodeOf, Goto, AfterNode, Inductive, Typing
<1>2. \A n \in 1..Len(graph) : (Passed(n)' <=> Passed(n)) /\ (Multiplied(n)' <=> Multiplied(n))
  BY StagesKept
<1>3. \A u \in Threads : pc[u] = "chunk" => node[u] # node[t]
  BY <1>1 DEF Inductive, Places, NodeOf
<1>4. ASSUME NEW n \in 1..Len(graph)
      PROVE  Open(n)' = IF n = node[t] THEN Open(n) \ {t} ELSE Open(n)
  <2>1. ASSUME NEW u \in Threads, NEW c \in 0..(NChunks(graph[n]) - 1)
        PROVE  Holds(u, c, n)' <=> Holds(u, c, n) /\ ~(n = node[t] /\ c = t)
    BY <1>1, <1>3 DEF Holds, Labels
  <2>2. ~Untaken(t, n)
    BY ThreadsAssumption DEF Untaken, Threads
  <2> QED
    BY <1>1, <1>2, <2>1, <2>2, OneClosed
<1>5. t \in Open(node[t])
  <2>1. NChunks(graph[node[t]]) = N /\ t \in 0..(N - 1)
    BY <1>1, NodesOfGraph, GridSizes DEF Threads
  <2> QED
    BY <1>1, <2>1 DEF Open, Holds
<1>6. Counted'
  BY <1>1, <1>4, <1>5, ChunkComputed
<1>7. NoneLeft'
  BY <1>1, <1>4, NoneLeftKept
<1>8. TakenRight'
  <2>1. Taking' /\ CounterSet' /\ EndsEarly'
    BY <1>1, <1>2 DEF TakenRight, Taking, CounterSet, EndsEarly, graph, Labels
  <2>2. AllHandedOut'
    BY <1>1, <1>2 DEF TakenRight, AllHandedOut, graph, Labels
  <2> QED
    BY <2>1, <2>2 DEF TakenRight
<1> QED
  BY <1>6, <1>7, <1>8

LEMMA ConvertShares ==
  ASSUME Inductive, InStep, Converting, Counted, NoneLeft, TakenRight,
         NEW t \in Threads, Convert(t), \A u \in Threads : Stage(u)' = Stage(u)
  PROVE  Counted' /\ NoneLeft' /\ TakenRight'
<1>1. /\ pc[t] = "node" /\ UNCHANGED <<call, node, chunk, ec, computed>>
      /\ current_chunk' = IF t = 0 THEN N ELSE current_chunk
      /\ pc' = [pc EXCEPT ![t] = "inner"]
      /\ pc \in [Threads -> Labels] /\ call \in Calls /\ N \in Nat
  BY ThreadsAssumption DEF Convert, Goto, Inductive, Typing
<1>2. \A n \in 1..Len(graph) : (Passed(n)' <=> Passed(n)) /\ (Multiplied(n)' <=> Multiplied(n))
  BY StagesKept
<1>3. \A u \in Threads : pc[u] # "chunk"
  BY <1>1, StableFollows DEF WorkBufferIsStable
<1>4. \A n \in 1..Len(graph) : Multiplied(n) => Passed(n)
  <2> SUFFICES ASSUME NEW n \in 1..Len(graph), Multiplied(n) PROVE Passed(n)
    OBVIOUS
  <2> QED
    BY <1>1, AtNode
<1>5. ASSUME NEW n \in 1..Len(graph) PROVE Open(n)' = Open(n)
  <2>1. \A c : Untaken(c, n)' <=> Untaken(c, n)
    BY <1>2, <1>4 DEF Untaken
  <2>2. \A u \in Threads, c \in 0..(NChunks(graph[n]) - 1) : Holds(u, c, n)' <=> Holds(u, c, n)
    BY <1>1 DEF Holds, Labels
  <2>3. graph' = graph
    BY <1>1 DEF graph
  <2>4. Open(n)' = {c \in 0..(NChunks(graph[n]) - 1) :
                      Untaken(c, n)' \/ \E u \in Threads : Holds(u, c, n)'}
    BY <2>3 DEF Open
  <2> QED
    BY <2>1, <2>2, <2>4 DEF Open
<1>6. Counted' /\ NoneLeft'
  BY <1>1, <1>5, NothingComputed, NoneLeftKept
<1>7. TakenRight'
  <2>1. Taking' /\ EndsEarly'
    BY <1>1, <1>3 DEF TakenRight, Taking, EndsEarly, graph, Labels
  <2>2. CounterSet'
    BY <1>1, <1>2, <1>4 DEF TakenRight, CounterSet, graph, Labels
  <2>3. AllHandedOut'
    <3>1. \A u \in Threads, n \in 1..Len(graph) :
            pc[u] \in {"callback", "outer"} /\ node[u] = n /\ graph[n].op = "mul_mat"
            => Multiplied(n)
      BY DEF Multiplied, Stage, NodeOf
    <3> QED
      BY <1>1, <1>2, <1>4, <3>1 DEF TakenRight, AllHandedOut, graph, Labels
  <2> QED
    BY <2>1, <2>2, <2>3 DEF TakenRight
<1> QED
  BY <1>6, <1>7

LEMMA ChunkShares ==
  ASSUME Inductive, InStep, Counted, NoneLeft, TakenRight,
         NEW t \in Threads, DoChunk(t), \A u \in Threads : Stage(u)' = Stage(u)
  PROVE  Counted' /\ NoneLeft' /\ TakenRight'
<1>1. /\ pc[t] = "chunk" /\ UNCHANGED <<call, node, chunk, current_chunk, ec>>
      /\ chunk[t] < NChunks(NodeOf(t)) /\ Compute(t, chunk[t])
      /\ pc' = [pc EXCEPT ![t] = IF N >= NChunks(NodeOf(t)) THEN AfterNode(t) ELSE "fetch"]
      /\ AfterNode(t) \in {"callback", "outer"}
      /\ pc \in [Threads -> Labels] /\ call \in Calls /\ N \in Nat
      /\ chunk \in [Threads -> Nat] /\ current_chunk \in Nat
  BY ThreadsAssumption DEF DoChunk, Goto, AfterNode, Inductive, Typing
<1>2. \A n \in 1..Len(graph) : (Passed(n)' <=> Passed(n)) /\ (Multiplied(n)' <=> Multiplied(n))
  BY StagesKept
<1>3. /\ node[t] \in 1..Len(graph) /\ graph[node[t]].op = "mul_mat"
      /\ Stage(t) = <<node[t], 2>>
      /\ \A u \in Threads :
           /\ node[u] = node[t]
           /\ pc[u] \in {"inner", "chunk", "fetch", "callback", "outer"}
  BY <1>1, Together
<1>4. Multiplied(node[t])
  BY <1>3 DEF Multiplied
<1>5. chunk[t] = t \/ (chunk[t] >= N /\ chunk[t] < current_chunk)
  BY <1>1 DEF TakenRight, Taking
<1>6. NChunks(graph[node[t]]) \in Nat
  BY <1>1, <1>3, NodesOfGraph, GridSizes
<1>7. ASSUME NEW n \in 1..Len(graph)
      PROVE  Open(n)' = IF n = node[t] THEN Open(n) \ {chunk[t]} ELSE Open(n)
  <2>1. ASSUME NEW u \in Threads, NEW c \in 0..(NChunks(graph[n]) - 1)
        PROVE  Holds(u, c, n)' <=> Holds(u, c, n) /\ ~(n = node[t] /\ c = chunk[t])
    <3>1. CASE u = t
      BY <1>1, <1>3, <1>5, <3>1 DEF Holds, Labels, Threads
    <3>2. CASE u # t
      <4>1. pc'[u] = pc[u] /\ node[u] = node[t] /\ node[u] \in Nat
        BY <1>1, <1>3, <3>2
      <4>2. ~(u = chunk[t])
        BY <1>1, <1>5, <3>2 DEF Threads
      <4>3. pc[u] = "chunk" => chunk[u] # chunk[t]
        BY <1>1, <3>2 DEF TakenRight, Taking
      <4>4. n = node[t] => ~Holds(u, chunk[t], n)
        BY <4>1, <4>2, <4>3 DEF Holds
      <4>5. Holds(u, c, n)' <=> Holds(u, c, n)
        BY <1>1, <4>1 DEF Holds
      <4> QED
        BY <4>4, <4>5
    <3> QED
      BY <3>1, <3>2
  <2>2. n = node[t] => ~Untaken(chunk[t], n)
    BY <1>1, <1>4, <1>5 DEF Untaken, Threads
  <2> QED
    BY <1>1, <1>2, <2>1, <2>2, OneClosed
<1>8. chunk[t] \in Open(node[t])
  BY <1>1, <1>3, <1>6 DEF Open, Holds, NodeOf
<1>9. Counted'
  BY <1>1, <1>3, <1>7, <1>8, ChunkComputed
<1>10. NoneLeft'
  BY <1>1, <1>7, NoneLeftKept
<1>11. TakenRight'
  <2>1. Taking' /\ CounterSet' /\ EndsEarly'
    BY <1>1, <1>2 DEF TakenRight, Taking, CounterSet, EndsEarly, graph, Labels
  <2>2. AllHandedOut'
    BY <1>1, <1>2, <1>3, <1>6 DEF TakenRight, AllHandedOut, graph, NodeOf, Labels
  <2> QED
    BY <2>1, <2>2 DEF TakenRight
<1> QED
  BY <1>9, <1>10, <1>11

LEMMA FetchShares ==
  ASSUME Inductive, InStep, Counted, NoneLeft, TakenRight,
         NEW t \in Threads, Fetch(t), \A u \in Threads : Stage(u)' = Stage(u)
  PROVE  Counted' /\ NoneLeft' /\ TakenRight'
<1>1. /\ pc[t] = "fetch" /\ UNCHANGED <<call, node, ec, computed>>
      /\ chunk' = [chunk EXCEPT ![t] = current_chunk]
      /\ current_chunk' = current_chunk + 1
      /\ pc' = [pc EXCEPT ![t] = "chunk"]
      /\ pc \in [Threads -> Labels] /\ call \in Calls /\ N \in Nat
      /\ chunk \in [Threads -> Nat] /\ current_chunk \in Nat
  BY ThreadsAssumption DEF Fetch, Goto, Inductive, Typing
<1>2. \A n \in 1..Len(graph) : (Passed(n)' <=> Passed(n)) /\ (Multiplied(n)' <=> Multiplied(n))
  BY StagesKept
<1>3. /\ node[t] \in 1..Len(graph) /\ graph[node[t]].op = "mul_mat"
      /\ Stage(t) = <<node[t], 2>>
      /\ \A u \in Threads :
           /\ node[u] = node[t] /\ Stage(u)[1] = node[t]
           /\ pc[u] \in {"inner", "chunk", "fetch", "callback", "outer"}
  BY <1>1, Together
<1>4. Multiplied(node[t]) /\ ~Passed(node[t]) /\ current_chunk >= N
  <2>1. Multiplied(node[t]) /\ ~Passed(node[t])
    BY <1>3 DEF Multiplied, Passed
  <2> QED
    BY <1>3, <2>1 DEF TakenRight, CounterSet
<1>5. \A n \in 1..Len(graph) : n # node[t] => ~Multiplied(n)
  BY <1>3 DEF Multiplied
<1>6. ASSUME NEW n \in 1..Len(graph) PROVE Open(n)' = Open(n)
  <2>1. ASSUME NEW c \in 0..(NChunks(graph[n]) - 1)
        PROVE  (Untaken(c, n)' \/ \E u \in Threads : Holds(u, c, n)')
                 <=> (Untaken(c, n) \/ \E u \in Threads : Holds(u, c, n))
    <3>1. Untaken(c, n) <=> Untaken(c, n)' \/ (n = node[t] /\ c = current_chunk)
      BY <1>1, <1>2, <1>4, <1>5 DEF Untaken
    <3>2. ASSUME NEW u \in Threads
          PROVE  Holds(u, c, n)' <=> Holds(u, c, n) \/ (u = t /\ n = node[t] /\ c = current_chunk)
      BY <1>1, <1>3 DEF Holds, Labels
    <3> QED
      BY <3>1, <3>2
  <2>2. graph' = graph
    BY <1>1 DEF graph
  <2>3. Open(n)' = {c \in 0..(NChunks(graph[n]) - 1) :
                      Untaken(c, n)' \/ \E u \in Threads : Holds(u, c, n)'}
    BY <2>2 DEF Open
  <2> QED
    BY <2>1, <2>3 DEF Open
<1>7. Counted' /\ NoneLeft'
  BY <1>1, <1>6, NothingComputed, NoneLeftKept
<1>8. TakenRight'
  <2>1. Taking'
    <3>1. \A u \in Threads : pc[u] = "chunk" => chunk[u] # current_chunk
      BY <1>1, <1>4 DEF TakenRight, Taking, Threads
    <3> QED
      BY <1>1, <1>4, <3>1 DEF TakenRight, Taking
  <2>2. CounterSet'
    BY <1>1, <1>2, <1>3, <1>4, ZeroIsThread DEF TakenRight, CounterSet, graph
  <2>3. AllHandedOut'
    <3>1. \A n \in 1..Len(graph) : NChunks(graph[n]) \in Nat
      BY <1>1, NodesOfGraph, GridSizes
    <3> QED
      BY <1>1, <1>2, <1>4, <3>1 DEF TakenRight, AllHandedOut, graph
  <2>4. EndsEarly'
    BY <1>1 DEF TakenRight, EndsEarly, graph
  <2> QED
    BY <2>1, <2>2, <2>3, <2>4 DEF TakenRight
<1> QED
  BY <1>7, <1>8

\* The steps that neither compute anything nor take a chunk
LEMMA OthersShare ==
  ASSUME Inductive, Counted, NoneLeft, TakenRight, \A u \in Threads : Stage(u)' = Stage(u),
         \/ \E t \in Threads : \/ NoChunkLeft(t) \/ Callback(t) \/ WaitAtBarrier(t)
                               \/ CheckStatus(t) \/ EndOfGraph(t)
         \/ MainWorks \/ \E j \in Threads : Create(j)
  PROVE  Counted' /\ NoneLeft' /\ TakenRight'
<1> USE ZeroIsThread
<1>1. /\ UNCHANGED <<call, current_chunk, computed, chunk>> /\ pc \in [Threads -> Labels]
      /\ call \in Calls /\ current_chunk \in Nat /\ chunk \in [Threads -> Nat]
      /\ node \in [Threads -> Nat \ {0}] /\ N \in Nat
  BY ThreadsAssumption DEF NoChunkLeft, Callback, WaitAtBarrier, CheckStatus, EndOfGraph,
    MainWorks, Create, workVars, Inductive, Typing
<1>2. \A n \in 1..Len(graph) : (Passed(n)' <=> Passed(n)) /\ (Multiplied(n)' <=> Multiplied(n))
  BY StagesKept
<1>3. \A n \in 1..Len(graph) : NChunks(graph[n]) \in Nat
  BY <1>1, NodesOfGraph, GridSizes
<1>4. ASSUME NEW n \in 1..Len(graph) PROVE Open(n)' = Open(n)
  <2>1. ASSUME NEW u \in Threads, NEW c \in 0..(NChunks(graph[n]) - 1)
        PROVE  Holds(u, c, n)' <=> Holds(u, c, n)
    <3> USE <1>1, <1>3 DEF Goto, AfterNode, graph, NodeOf, Labels, Holds
    <3>1. ASSUME NEW t \in Threads, NoChunkLeft(t) PROVE Holds(u, c, n)' <=> Holds(u, c, n)
      BY <3>1 DEF NoChunkLeft
    <3>2. ASSUME NEW t \in Threads, Callback(t) PROVE Holds(u, c, n)' <=> Holds(u, c, n)
      BY <3>2 DEF Callback
    <3>3. ASSUME NEW t \in Threads, WaitAtBarrier(t) PROVE Holds(u, c, n)' <=> Holds(u, c, n)
      BY <3>3 DEF WaitAtBarrier, workVars
    <3>4. ASSUME NEW t \in Threads, CheckStatus(t) PROVE Holds(u, c, n)' <=> Holds(u, c, n)
      BY <3>4 DEF CheckStatus
    <3>5. ASSUME NEW t \in Threads, EndOfGraph(t) PROVE Holds(u, c, n)' <=> Holds(u, c, n)
      BY <3>5 DEF EndOfGraph
    <3>6. ASSUME NEW j \in Threads, Create(j) PROVE Holds(u, c, n)' <=> Holds(u, c, n)
      BY <3>6 DEF Create
    <3>7. CASE MainWorks
      BY <3>7 DEF MainWorks
    <3> QED
      BY <3>1, <3>2, <3>3, <3>4, <3>5, <3>6, <3>7
  <2> QED
    BY <1>1, <1>2, <2>1, OpenKept
<1>5. Counted' /\ NoneLeft'
  BY <1>1, <1>4, NothingComputed, NoneLeftKept
<1>6. TakenRight'
  <2> USE <1>1 DEF Goto, AfterNode, graph, NodeOf, Labels
  <2>1. /\ \A u \in Threads : pc'[u] = "chunk" => pc[u] = "chunk"
        /\ pc'[0] = "inner" => pc[0] = "inner" /\ node'[0] = node[0]
    BY DEF NoChunkLeft, Callback, WaitAtBarrier, CheckStatus, EndOfGraph, MainWorks, Create,
      workVars
  <2>2. Taking' /\ CounterSet'
    BY <1>2, <2>1 DEF TakenRight, Taking, CounterSet
  <2>3. ASSUME NEW u \in Threads, NEW n \in 1..Len(graph),
               pc'[u] \in {"callback", "outer"}, node'[u] = n, graph[n].op = "mul_mat",
               ~Passed(n), NChunks(graph[n]) > N
        PROVE  current_chunk >= NChunks(graph[n])
    <3>1. CASE pc[u] \in {"callback", "outer"} /\ node[u] = n
      BY <2>3, <3>1 DEF TakenRight, AllHandedOut
    <3>2. CASE NoChunkLeft(u)
      <4>1. chunk[u] >= NChunks(graph[n]) /\ pc[u] = "chunk"
        BY <2>3, <3>2 DEF NoChunkLeft
      <4>2. chunk[u] = u \/ chunk[u] < current_chunk
        BY <4>1 DEF TakenRight, Taking
      <4> QED
        BY <2>3, <4>1, <4>2, <1>3 DEF Threads
    <3> QED
      BY <2>3, <3>1, <3>2 DEF NoChunkLeft, Callback, WaitAtBarrier, CheckStatus, EndOfGraph,
        MainWorks, Create, workVars
  <2>4. AllHandedOut'
    <3>1. \A u \in Threads : pc'[u] = "fetch" => pc[u] = "fetch" /\ node'[u] = node[u]
      BY DEF NoChunkLeft, Callback, WaitAtBarrier, CheckStatus, EndOfGraph, MainWorks, Create,
        workVars
    <3> QED
      BY <1>2, <2>3, <3>1 DEF TakenRight, AllHandedOut
  <2>5. EndsEarly'
    BY DEF NoChunkLeft, Callback, WaitAtBarrier, CheckStatus, EndOfGraph, MainWorks, Create,
      workVars, TakenRight, EndsEarly, Inductive, Typing
  <2> QED
    BY <2>2, <2>4, <2>5 DEF TakenRight
<1> QED
  BY <1>5, <1>6

\* The barrier within a multiplication: the counter has been set for this node.
LEMMA InnerShares ==
  ASSUME Inductive, InStep, Counted, NoneLeft, TakenRight,
         NEW t \in Threads, LeaveBarrier(t), pc[t] = "inner"
  PROVE  Counted' /\ NoneLeft' /\ TakenRight'
<1>1. /\ UNCHANGED <<call, node, current_chunk, ec, computed>>
      /\ pc' = [pc EXCEPT ![t] = "chunk"] /\ chunk' = [chunk EXCEPT ![t] = t]
      /\ pc \in [Threads -> Labels] /\ call \in Calls /\ N \in Nat
      /\ chunk \in [Threads -> Nat] /\ current_chunk \in Nat
      /\ node \in [Threads -> Nat \ {0}]
  BY ThreadsAssumption DEF LeaveBarrier, Goto, Inductive, Typing
<1>2. node[t] \in 1..Len(graph) /\ graph[node[t]].op = "mul_mat"
  BY GraphNodes DEF Inductive, Places, Typing, NodeOf
<1>3. /\ Stage(t) = <<node[t], 1>> /\ Stage(t)' = <<node[t], 2>>
      /\ \A u \in Threads \ {t} : Stage(u)' = Stage(u)
  BY <1>1 DEF Stage, NodeOf, graph
<1>4. \A n \in 1..Len(graph) :
        /\ Passed(n)' <=> Passed(n)
        /\ Multiplied(n)' <=> Multiplied(n) \/ n = node[t]
  <2> SUFFICES ASSUME NEW n \in 1..Len(graph)
               PROVE  /\ Passed(n)' <=> Passed(n)
                      /\ Multiplied(n)' <=> Multiplied(n) \/ n = node[t]
    OBVIOUS
  <2>1. Passed(n)' <=> Passed(n)
    <3>1. \A u \in Threads : Stage(u)'[1] = Stage(u)[1]
      BY <1>3
    <3> QED
      BY <3>1 DEF Passed
  <2>2. Multiplied(n)' <=> Multiplied(n) \/ n = node[t]
    <3>1. (Stage(t)' = <<n, 2>> <=> n = node[t]) /\ Stage(t) # <<n, 2>>
      BY <1>3
    <3> QED
      BY <1>3, <3>1 DEF Multiplied
  <2> QED
    BY <2>1, <2>2
<1>5. Multiplied(node[t]) \/ current_chunk = N
  <2> SUFFICES ASSUME ~Multiplied(node[t]) PROVE current_chunk = N
    OBVIOUS
  <2>1. StageAfter(Stage(t)) = <<node[t], 2>>
    BY <1>2, <1>3 DEF StageAfter
  <2>2. pc[0] = "inner" /\ node[0] = node[t]
    BY <2>1, ZeroIsThread, LeaveTogether DEF Multiplied
  <2> QED
    BY <1>2, <2>2 DEF TakenRight, CounterSet
<1>6. ASSUME NEW n \in 1..Len(graph) PROVE Open(n)' = Open(n)
  <2>1. ASSUME NEW c \in 0..(NChunks(graph[n]) - 1) PROVE Untaken(c, n)' <=> Untaken(c, n)
    BY <1>1, <1>4, <1>5 DEF Untaken
  <2>2. ASSUME NEW u \in Threads, NEW c \in 0..(NChunks(graph[n]) - 1)
        PROVE  Holds(u, c, n)' <=> Holds(u, c, n)
    BY <1>1 DEF Holds, Labels
  <2>3. graph' = graph
    BY <1>1 DEF graph
  <2>4. Open(n)' = {c \in 0..(NChunks(graph[n]) - 1) :
                      Untaken(c, n)' \/ \E u \in Threads : Holds(u, c, n)'}
    BY <2>3 DEF Open
  <2> QED
    BY <2>1, <2>2, <2>4 DEF Open
<1>7. Counted'
  BY <1>1, <1>6, NothingComputed
<1>8. NoneLeft'
  BY <1>1, <1>4, <1>6 DEF NoneLeft, graph
<1>9. TakenRight'
  <2>1. Taking'
    <3>1. /\ pc'[t] = "chunk" /\ chunk'[t] = t
          /\ \A u \in Threads \ {t} : pc'[u] = pc[u] /\ chunk'[u] = chunk[u]
      BY <1>1
    <3>2. ASSUME NEW u \in Threads \ {t}, pc[u] = "chunk" PROVE chunk[u] # t
      <4>1. chunk[u] = u \/ chunk[u] >= N
        BY <3>2 DEF TakenRight, Taking
      <4>2. t < N
        BY <1>1 DEF Threads
      <4> QED
        BY <1>1, <3>2, <4>1, <4>2 DEF Threads
    <3> QED
      BY <1>1, <3>1, <3>2 DEF TakenRight, Taking
  <2>2. CounterSet'
    BY <1>1, <1>4, <1>5, ZeroIsThread DEF TakenRight, CounterSet, graph
  <2>3. AllHandedOut' /\ EndsEarly'
    BY <1>1, <1>4 DEF TakenRight, AllHandedOut, EndsEarly, graph
  <2> QED
    BY <2>1, <2>2, <2>3 DEF TakenRight
<1> QED
  BY <1>7, <1>8, <1>9

\* The barrier after a node: all chunks of it are computed.
LEMMA OuterShares ==
  ASSUME Inductive, InStep, Counted, NoneLeft, TakenRight,
         NEW t \in Threads, LeaveBarrier(t), pc[t] = "outer"
  PROVE  Counted' /\ NoneLeft' /\ TakenRight'
<1>1. /\ UNCHANGED <<call, node, current_chunk, ec, computed>>
      /\ pc' = [pc EXCEPT ![t] = "check"] /\ chunk' = [chunk EXCEPT ![t] = t]
      /\ pc \in [Threads -> Labels] /\ call \in Calls /\ N \in Nat
      /\ chunk \in [Threads -> Nat] /\ current_chunk \in Nat
      /\ node \in [Threads -> Nat \ {0}]
  BY ThreadsAssumption DEF LeaveBarrier, Goto, Inductive, Typing
<1>2. node[t] \in 1..Len(graph) /\ graph[node[t]] \in NodeShape
  BY <1>1, NodesOfGraph DEF Inductive, Places
<1>3. /\ Stage(t) = IF graph[node[t]].op = "mul_mat" THEN <<node[t], 2>> ELSE <<node[t], 1>>
      /\ Stage(t)' = <<node[t] + 1, 1>> /\ StageAfter(Stage(t)) = <<node[t] + 1, 1>>
      /\ \A u \in Threads \ {t} : Stage(u)' = Stage(u)
  BY <1>1 DEF Stage, StageAfter, NodeOf, graph
<1>4. \A n \in 1..Len(graph) :
        /\ Passed(n)' <=> Passed(n) \/ n = node[t]
        /\ n # node[t] => (Multiplied(n)' <=> Multiplied(n))
  <2>1. ASSUME NEW n \in 1..Len(graph) PROVE Passed(n)' <=> Passed(n) \/ n = node[t]
    <3>1. Stage(t)'[1] > n <=> Stage(t)[1] > n \/ n = node[t]
      BY <1>2, <1>3
    <3> QED
      BY <1>3, <3>1 DEF Passed
  <2>2. ASSUME NEW n \in 1..Len(graph), n # node[t] PROVE Multiplied(n)' <=> Multiplied(n)
    BY <1>3, <2>2 DEF Multiplied
  <2> QED
    BY <2>1, <2>2
<1>5. \A u \in Threads, n \in 1..Len(graph) :
        \A c \in 0..(NChunks(graph[n]) - 1) : Holds(u, c, n)' <=> Holds(u, c, n)
  BY <1>1 DEF Holds, Labels
<1>6. Open(node[t]) = {}
  <2>1. CASE Passed(node[t])
    BY <1>2, <2>1 DEF NoneLeft
  <2>2. CASE ~Passed(node[t])
    <3>1. \A u \in Threads : pc[u] = "outer" /\ node[u] = node[t]
      BY <1>2, <1>3, <2>2, LeaveTogether DEF Passed
    <3>2. ASSUME NEW c \in 0..(NChunks(graph[node[t]]) - 1) PROVE ~Untaken(c, node[t])
      <4> SUFFICES ASSUME c >= N, Multiplied(node[t]) => c >= current_chunk PROVE FALSE
        BY DEF Untaken
      <4>1. NChunks(graph[node[t]]) \in Nat /\ NChunks(graph[node[t]]) > N
        BY <1>1, <1>2, GridSizes
      <4>2. graph[node[t]].op = "mul_mat"
        BY <1>1, <1>2, <4>1, GridSizes DEF NodeShape, Ops
      <4>3. Multiplied(node[t])
        BY <1>3, <4>2 DEF Multiplied
      <4>4. current_chunk >= NChunks(graph[node[t]])
        BY <1>2, <2>2, <4>1, <4>2 DEF TakenRight, AllHandedOut
      <4> QED
        BY <1>1, <4>1, <4>3, <4>4
    <3> QED
      BY <1>1, <3>1, <3>2 DEF Open, Holds
  <2> QED
    BY <2>1, <2>2
<1>7. ASSUME NEW n \in 1..Len(graph) PROVE Open(n)' = Open(n)
  <2>1. Open(n)' = {c \in 0..(NChunks(graph[n]) - 1) :
                      Untaken(c, n)' \/ \E u \in Threads : Holds(u, c, n)'}
    <3>1. graph' = graph
      BY <1>1 DEF graph
    <3> QED
      BY <3>1 DEF Open
  <2>2. CASE n = node[t]
    BY <1>4, <1>5, <1>6, <2>1, <2>2 DEF Open, Untaken
  <2>3. CASE n # node[t]
    BY <1>1, <1>4, <1>5, <2>1, <2>3 DEF Open, Untaken
  <2> QED
    BY <2>2, <2>3
<1>8. Counted'
  BY <1>1, <1>7, NothingComputed
<1>9. NoneLeft'
  BY <1>1, <1>4, <1>6, <1>7 DEF NoneLeft, graph
<1>10. TakenRight'
  <2>1. Taking' /\ EndsEarly'
    BY <1>1 DEF TakenRight, Taking, EndsEarly, graph
  <2>2. pc[0] # "inner" \/ node[0] # node[t]
    <3> SUFFICES ASSUME pc[0] = "inner", node[0] = node[t] PROVE FALSE
      OBVIOUS
    <3>1. Stage(0) = <<node[t], 1>> /\ graph[node[t]].op = "mul_mat"
      BY ZeroIsThread DEF Stage, Inductive, Places, NodeOf
    <3>2. Stage(0) = <<node[t] + 1, 1>> \/ pc[0] = pc[t]
      BY <1>3, ZeroIsThread, LeaveTogether
    <3>3. <<node[t], 1>> # <<node[t] + 1, 1>>
      <4>1. node[t] \in Nat /\ node[t] # node[t] + 1
        BY <1>1
      <4> QED
        BY <4>1
    <3> QED
      BY <3>1, <3>2, <3>3
  <2>3. CounterSet'
    BY <1>1, <1>4, <2>2, ZeroIsThread DEF TakenRight, CounterSet, graph
  <2>4. AllHandedOut'
    BY <1>1, <1>4 DEF TakenRight, AllHandedOut, graph, Labels
  <2> QED
    BY <2>1, <2>3, <2>4 DEF TakenRight
<1> QED
  BY <1>8, <1>9, <1>10

\* At the start of a computation every chunk is open and nothing is computed.
LEMMA StartShares ==
  ASSUME Inductive, NEW begun \in Calls, Start(begun)
  PROVE  Counted' /\ NoneLeft' /\ TakenRight'
<1>1. /\ call' = begun /\ graph' = begun.graph /\ N \in Nat /\ 0 \in Threads
      /\ \A u \in Threads : pc'[u] \in {"idle", "create"} /\ node'[u] = 1
      /\ computed' = [n \in 1..Len(begun.graph) |-> [e \in Result(begun.graph[n]) |-> 0]]
  <2>1. \A u \in Threads : pc'[u] \in {"idle", "create"}
    BY ZeroIsThread DEF Start, Goto, Inductive, Typing, Places
  <2> QED
    BY <2>1, ZeroIsThread, ThreadsAssumption DEF Start, graph
<1>2. \A u \in Threads : Stage(u)' = <<1, 1>>
  BY StartStages
<1>3. \A n \in 1..Len(graph') : ~Passed(n)' /\ ~Multiplied(n)'
  BY <1>2 DEF Passed, Multiplied
<1>4. \A n \in 1..Len(graph') : graph'[n] \in NodeShape
  <2>1. begun.graph \in Seq(NodeShape)
    BY CallsAssumption DEF NodeShape
  <2> HIDE DEF NodeShape
  <2> QED
    BY <1>1, <2>1
<1>5. ASSUME NEW n \in 1..Len(graph')
      PROVE  Counts(n, Open(n))' = [e \in Result(graph'[n]) |-> 0]
  <2>1. Open(n)' = 0..(NChunks(graph'[n]) - 1)
    <3>1. ASSUME NEW c \in 0..(NChunks(graph'[n]) - 1)
          PROVE  Untaken(c, n)' \/ \E u \in Threads : Holds(u, c, n)'
      <4>1. CASE c >= N
        BY <1>3, <4>1 DEF Untaken
      <4>2. CASE ~(c >= N)
        <5>1. c \in Threads
          BY <1>1, <4>2 DEF Threads
        <5>2. n = 1 \/ 1 < n
          OBVIOUS
        <5> QED
          BY <1>1, <5>1, <5>2 DEF Holds
      <4> QED
        BY <4>1, <4>2
    <3> QED
      BY <3>1 DEF Open
  <2>2. \A e \in Result(graph'[n]) :
          \E c \in 0..(NChunks(graph'[n]) - 1) : e \in Elements(graph'[n], c)
    BY <1>4, ElementsDivide
  <2> QED
    BY <2>1, <2>2 DEF Counts
<1>6. Counted'
  BY <1>1, <1>5 DEF Counted
<1>7. NoneLeft' /\ TakenRight'
  BY <1>1, <1>3 DEF NoneLeft, TakenRight, Taking, CounterSet, AllHandedOut, EndsEarly
<1> QED
  BY <1>6, <1>7

LEMMA WorkShares ==
  ASSUME Inductive, InStep, Converting, Sharing, NEW t \in Threads, Work(t)
  PROVE  Sharing'
<1>1. pc[t] # "idle" /\ pc[0] # "idle"
  BY DEF Inductive, Places, Work, SplitNode, Convert, DoChunk, Fetch, NoChunkLeft, Callback,
    WaitAtBarrier, LeaveBarrier, CheckStatus, EndOfGraph
<1>2. Counted /\ NoneLeft /\ TakenRight
  BY <1>1 DEF Sharing
<1>3. CASE LeaveBarrier(t)
  <2>1. pc[t] \in {"inner", "outer"}
    BY <1>3 DEF LeaveBarrier
  <2> QED
    BY <1>2, <1>3, <2>1, InnerShares, OuterShares DEF Sharing
<1>4. CASE ~LeaveBarrier(t)
  <2>1. \A u \in Threads : Stage(u)' = Stage(u)
    BY <1>4, StageStays
  <2> QED
    BY <1>2, <1>4, <2>1, SplitShares, ConvertShares, ChunkShares, FetchShares, OthersShare
    DEF Sharing, Work
<1> QED
  BY <1>3, <1>4

LEMMA SharingKept ==
  Inductive /\ InStep /\ Converting /\ Sharing /\ [Next]_vars => Sharing'
<1> SUFFICES ASSUME Inductive, InStep, Converting, Sharing, [Next]_vars PROVE Sharing'
  OBVIOUS
<1>1. ASSUME NEW c \in Calls, Start(c) PROVE Sharing'
  BY <1>1, StartShares DEF Sharing
<1>2. CASE MainWorks \/ \E j \in Threads : Create(j)
  <2>1. pc[0] # "idle"
    BY <1>2 DEF MainWorks, Create
  <2>2. \A u \in Threads : Stage(u)' = Stage(u)
    BY <1>2, MainStages
  <2>3. Counted' /\ NoneLeft' /\ TakenRight'
    BY <1>2, <2>1, <2>2, OthersShare DEF Sharing
  <2> QED
    BY <2>3 DEF Sharing
<1>3. CASE Return
  BY <1>3, ZeroIsThread DEF Return, Sharing
<1>4. ASSUME NEW t \in Threads, Work(t) PROVE Sharing'
  BY <1>4, WorkShares
<1>5. CASE UNCHANGED vars
  <2>1. \A u \in Threads : Stage(u)' = Stage(u)
    BY <1>5 DEF vars, workVars, Stage, NodeOf, graph
  <2>2. ASSUME pc[0] # "idle" PROVE Counted' /\ NoneLeft' /\ TakenRight'
    <3>1. UNCHANGED <<call, pc, node, chunk, current_chunk, ec, computed>>
      BY <1>5 DEF vars, workVars
    <3>2. \A n \in 1..Len(graph) :
            (Passed(n)' <=> Passed(n)) /\ (Multiplied(n)' <=> Multiplied(n))
      BY <2>1, StagesKept
    <3>3. \A n \in 1..Len(graph) : Open(n)' = Open(n)
      BY <3>1, <3>2 DEF Open, Untaken, Holds, graph
    <3>4. Counted /\ NoneLeft /\ TakenRight
      BY <2>2 DEF Sharing
    <3>5. Counted' /\ NoneLeft'
      BY <2>1, <3>1, <3>3, <3>4, NothingComputed, NoneLeftKept
    <3>6. TakenRight'
      BY <3>1, <3>2, <3>4 DEF TakenRight, Taking, CounterSet, AllHandedOut, EndsEarly, graph
    <3> QED
      BY <3>5, <3>6
  <2> QED
    BY <1>5, <2>2 DEF Sharing, vars, workVars
<1> QED
  BY <1>1, <1>2, <1>3, <1>4, <1>5 DEF Next, Main

\* A node somebody is past is complete.
LEMMA PassedIsComplete ==
  ASSUME Inductive, Sharing, pc[0] # "idle", NEW n \in 1..Len(graph), Passed(n)
  PROVE  Complete(n)
<1>1. Counted /\ Open(n) = {}
  BY DEF Sharing, NoneLeft
<1>2. computed[n] = [e \in Result(graph[n]) |-> 1]
  BY <1>1 DEF Counted, Counts
<1> QED
  BY <1>2 DEF Complete

Resting == pc[0] = "idle"

LEMMA InputsFollow == Inductive /\ Sharing /\ ~Resting => InputsComplete
<1> SUFFICES ASSUME Inductive, Sharing, ~Resting,
                    NEW n \in DOMAIN computed, NEW t \in Threads, node[t] > n
             PROVE  Complete(n)
  BY DEF InputsComplete
<1>1. n \in 1..Len(graph) /\ pc[0] # "idle"
  BY DEF Resting, Sharing, Counted
<1>2. Stage(t)[1] >= node[t] /\ node[t] \in Nat /\ Stage(t)[1] \in Nat
  BY DEF Stage, Inductive, Typing
<1>3. Passed(n)
  BY <1>1, <1>2 DEF Passed
<1> QED
  BY <1>1, <1>3, PassedIsComplete

\* Nothing computes while there is no computation.
LEMMA InputsRest ==
  Inductive /\ InputsComplete /\ [Next]_vars /\ Resting' => InputsComplete'
<1> SUFFICES ASSUME Inductive, InputsComplete, [Next]_vars, Resting' PROVE InputsComplete'
  OBVIOUS
<1>1. UNCHANGED <<node, computed>>
  <2>1. ASSUME NEW t \in Threads, Work(t) PROVE FALSE
    <3>1. pc[0] # "idle" /\ pc'[0] = "idle"
      BY <2>1 DEF Resting, Inductive, Places, Work, SplitNode, Convert, DoChunk, Fetch,
        NoChunkLeft, Callback, WaitAtBarrier, LeaveBarrier, CheckStatus, EndOfGraph
    <3> QED
      BY <2>1, <3>1, ZeroIsThread DEF Goto, AfterNode, Inductive, Typing, Work, SplitNode,
        Convert, DoChunk, Fetch, NoChunkLeft, Callback, WaitAtBarrier, workVars, LeaveBarrier,
        CheckStatus, EndOfGraph
  <2>2. ASSUME NEW c \in Calls, Start(c) PROVE FALSE
    BY <2>2, ZeroIsThread DEF Resting, Start, Goto, Inductive, Typing
  <2> QED
    BY <2>1, <2>2 DEF Next, Main, MainWorks, Return, Create, vars, workVars
<1> QED
  BY <1>1 DEF InputsComplete, Complete

LEMMA SharingStarts == Init => Sharing /\ InputsComplete
  BY ZeroIsThread DEF Init, Sharing, InputsComplete

-----------------------------------------------------------------------------
\* Every variable keeps its type; the count of arrivals never exceeds N.
THEOREM TypeCorrect == Spec => []TypeOK
<1>1. Inductive => TypeOK
  <2> SUFFICES ASSUME Inductive PROVE TypeOK
    OBVIOUS
  <2>1. n_barrier \in 0..N
    <3>1. CASE N # 1
      <4>1. Waiting \in SUBSET Threads
        BY DEF Waiting
      <4>2. Cardinality(Waiting) \in 0..N
        BY <4>1, WaitingCount
      <4> QED
        BY <3>1, <4>2, ThreadsAssumption DEF Inductive, BarrierInv, LastIsAlone, NobodyLast
    <3>2. CASE N = 1
      BY <3>2 DEF Inductive, BarrierInv
    <3> QED
      BY <3>1, <3>2
  <2> QED
    BY <2>1 DEF Inductive, Typing, TypeOK, BarrierInv, BarrierTypes
<1> QED
  BY <1>1, Starts, InductiveStep, PTL DEF Spec

\* ggml_barrier implements the abstract barrier in every computation: nobody leaves a
\* round before all have arrived in it, and the counters are made anew only when
\* nobody is inside; also when a computation is aborted.
THEOREM BarrierImplemented == Spec => BarrierHolds
<1>1. Init => Abstract!Init
  BY AbstractStarts DEF Init
<1>2. Inductive /\ [Next]_vars => [Abstract!Next]_Abstract!bvars
  BY InductiveStep
<1> QED
  BY <1>1, <1>2, Starts, InductiveStep, PTL DEF Spec, BarrierHolds, Abstract!Spec

\* The work buffer all threads share is complete and nobody writes it while a
\* thread multiplies with it.
THEOREM BufferIsStable == Spec => []WorkBufferIsStable
  BY Starts, AllKept, StableFollows, PTL DEF Spec

\* Nobody works on a node before the results of all nodes before it are there, every
\* element computed exactly once: also when threads are slow, chunks are fewer than
\* threads, or the computation is aborted.
THEOREM InputsAreComplete == Spec => []InputsComplete
  BY Starts, AllKept, SharingStarts, SharingKept, InputsFollow, InputsRest, PTL DEF Spec

\* A computation that ends with success has computed every element of every node once.
THEOREM SuccessComplete == Spec => SuccessIsComplete
<1> DEFINE Ended == pc[0] = "done" /\ pc'[0] = "idle" /\ ec = "success"
           AllComplete == \A n \in 1..Len(graph) : Complete(n)
<1>1. Inductive /\ Sharing /\ [Next]_vars => [Ended => AllComplete]_vars
  <2> SUFFICES ASSUME Inductive, Sharing, Next, Ended, NEW n \in 1..Len(graph)
               PROVE  Complete(n)
    OBVIOUS
  <2>1. Stage(0)[1] > n
    <3>1. node[0] \in Nat /\ Len(graph) \in Nat
      BY ZeroIsThread, GraphNodes DEF Inductive, Typing
    <3>2. node[0] > Len(graph)
      BY <3>1, ZeroIsThread DEF Sharing, TakenRight, EndsEarly
    <3>3. Stage(0) = <<node[0], 1>>
      BY <3>1, <3>2, ZeroIsThread DEF Stage
    <3> QED
      BY <3>1, <3>2, <3>3
  <2> QED
    BY <2>1, ZeroIsThread, PassedIsComplete DEF Passed
<1> QED
  BY <1>1, Starts, AllKept, SharingStarts, SharingKept, PTL DEF Spec, SuccessIsComplete
=============================================================================
