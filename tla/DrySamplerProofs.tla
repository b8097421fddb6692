-------------------------- MODULE DrySamplerProofs --------------------------
(***************************************************************************)
(* Theorems about the DRY sampler, for contexts of any length, any tokens  *)
(* and any restart sequences: the Z-algorithm with limited counts is       *)
(* exact, and it is linear.                                                *)
(***************************************************************************)
EXTENDS DrySampler, NumberSets, SequenceTheorems, TLAPS

-----------------------------------------------------------------------------
(* Least and greatest elements                                             *)

\* Min is the least element.
LEMMA MinIsLeast ==
  ASSUME NEW A \in SUBSET Nat, A # {}
  PROVE  Min(A) \in A /\ \A n \in A : Min(A) <= n
BY LeastNumber DEF Min

\* Max is the greatest element of a bounded set.
LEMMA MaxIsGreatest ==
  ASSUME NEW b \in Nat, NEW A \in SUBSET (0..b), A # {}
  PROVE  Max(A) \in A /\ \A n \in A : Max(A) >= n
BY GreatestNumber DEF Max

\* If B has the elements of A and each of its elements is exceeded or equalled in A,
\* the two have the same greatest element.
LEMMA SameMax ==
  ASSUME NEW b \in Nat, NEW B \in SUBSET (0..b), NEW A \in SUBSET B, B # {},
         \A m \in B : \E n \in A : n >= m
  PROVE  A # {} /\ Max(A) = Max(B)
<1>1. A # {}
  OBVIOUS
<1>2. Max(A) \in A /\ \A n \in A : Max(A) >= n
  BY <1>1, MaxIsGreatest
<1>3. Max(B) \in B /\ \A n \in B : Max(B) >= n
  BY MaxIsGreatest
<1>4. PICK n \in A : n >= Max(B)
  BY <1>3
<1>5. Max(A) \in Int /\ Max(B) \in Int /\ n \in Int
  <2>1. \A x \in B : x \in Int
    OBVIOUS
  <2> QED
    BY <1>2, <1>3, <2>1, Zenon
<1>6. Max(A) >= n /\ Max(B) >= Max(A)
  BY <1>2, <1>3
<1> QED
  BY <1>1, <1>4, <1>5, <1>6

-----------------------------------------------------------------------------
(* Contexts and their last tokens                                          *)

Inputs == current_context_tokens \in Seq(Tokens) /\ settings \in Settings

LEMMA LastTokens ==
  ASSUME Inputs
  PROVE  /\ last_n_repeat \in Nat
         /\ settings.allowed_length \in Nat
         /\ \A d \in 0..(last_n_repeat - 1) : Token(d) \in Tokens
<1>1. penalty_range \in Nat /\ settings.allowed_length \in Nat
  BY SettingsAssumption DEF Inputs, penalty_range
<1>2. last_n_repeat \in Nat /\ last_n_repeat <= Len(current_context_tokens)
  BY <1>1 DEF Inputs, last_n_repeat, MinOf
<1> QED
  BY <1>1, <1>2 DEF Inputs, Token

\* The first mismatch of the tokens from d on with the last ones is after n tokens.
IsZ(d, n) ==
  /\ n \in 0..(last_n_repeat - d)
  /\ \A i \in 0..(n - 1) : Token(i) = Token(d + i)
  /\ d + n < last_n_repeat => Token(n) # Token(d + n)

LEMMA ZExists ==
  ASSUME Inputs, NEW d \in 1..(last_n_repeat - 1)
  PROVE  \E n \in Nat : IsZ(d, n)
<1> DEFINE A == {n \in 0..(last_n_repeat - d) :
                   d + n < last_n_repeat => Token(n) # Token(d + n)}
<1>1. last_n_repeat \in Nat
  BY LastTokens
<1>2. A \in SUBSET Nat /\ A # {}
  <2>1. last_n_repeat - d \in A
    BY <1>1
  <2>2. \A n \in A : n \in Nat
    BY <1>1
  <2> QED
    BY <2>1, <2>2, Zenon
<1>3. PICK n \in A : \A i \in A : n <= i
  <2> HIDE DEF A
  <2> QED
    BY <1>2, LeastNumber
<1>4. ASSUME NEW i \in 0..(n - 1) PROVE Token(i) = Token(d + i)
  <2>1. i \in 0..(last_n_repeat - d) /\ i < n /\ d + i < last_n_repeat
    BY <1>1, <1>3
  <2>2. i \notin A
    BY <1>3, <2>1
  <2> QED
    BY <2>1, <2>2
<1>5. IsZ(d, n)
  BY <1>3, <1>4 DEF IsZ
<1> QED
  BY <1>5 DEF IsZ

-----------------------------------------------------------------------------
(* The limit set by restart sequences                                      *)

LEMMA RestartSequences ==
  ASSUME Inputs, NEW r \in settings.restart_sequences
  PROVE  r \in Seq(Tokens) /\ Len(r) \in Nat /\ Len(r) >= 1
<1>1. r \in Seq(Tokens) /\ r # <<>>
  BY SettingsAssumption DEF Inputs
<1> QED
  BY <1>1

\* The limit comes from a restart sequence that begins at the last possible place.
LEMMA LastHead ==
  ASSUME Inputs, Heads # {}
  PROVE  /\ Min(Heads) \in 0..(last_n_repeat - 1)
         /\ \A d \in Heads : Min(Heads) <= d
         /\ \E r \in settings.restart_sequences :
              BeginsAt(r, Min(Heads)) /\ Len(r) = LongestAt(Min(Heads))
<1> DEFINE d0 == Min(Heads)
           L == {Len(r) : r \in {s \in settings.restart_sequences : BeginsAt(s, d0)}}
<1>1. d0 \in Heads /\ \A d \in Heads : d0 <= d
  <2>1. Heads \in SUBSET Nat
    BY DEF Heads
  <2> QED
    BY <2>1, MinIsLeast
<1>2. d0 \in 0..(last_n_repeat - 1)
  BY <1>1, Zenon DEF Heads
<1>3. \A x \in L : x \in 0..(d0 + 1)
  BY <1>2, RestartSequences DEF BeginsAt
<1>4. L # {}
  BY <1>1 DEF Heads
<1>5. Max(L) \in L
  <2> HIDE DEF L
  <2>1. L \in SUBSET (0..(d0 + 1)) /\ d0 + 1 \in Nat
    BY <1>2, <1>3
  <2> QED
    BY <1>4, <2>1, MaxIsGreatest
<1>6. LongestAt(d0) = Max(L)
  BY DEF LongestAt
<1> QED
  BY <1>1, <1>2, <1>5, <1>6

LEMMA LimitInRange ==
  ASSUME Inputs
  PROVE  RepLimit \in 0..last_n_repeat
<1>1. last_n_repeat \in Nat
  BY LastTokens
<1>2. CASE Heads # {}
  <2>1. PICK r \in settings.restart_sequences :
          BeginsAt(r, Min(Heads)) /\ Len(r) = LongestAt(Min(Heads))
    BY <1>2, LastHead
  <2>2. Min(Heads) \in 0..(last_n_repeat - 1)
    BY <1>2, LastHead
  <2> QED
    BY <1>1, <1>2, <2>1, <2>2, RestartSequences DEF RepLimit, BeginsAt
<1> QED
  BY <1>1, <1>2 DEF RepLimit

\* Looking for the last place where a restart sequence begins finds the last place
\* where one ends, unless one contains another.
LEMMA LimitIsBreak ==
  ASSUME Inputs, NoneContained
  PROVE  RepLimit = BehindBreak
<1> DEFINE N == last_n_repeat
           R == settings.restart_sequences
           E == {n \in 0..(N - 1) : \E r \in R : n + Len(r) <= N /\ BeginsAt(r, n + Len(r) - 1)}
<1>1. N \in Nat
  BY LastTokens
<1>2. \A r \in R : r \in Seq(Tokens) /\ Len(r) \in Nat /\ Len(r) >= 1
  BY RestartSequences
<1>3. Heads = {d \in 0..(N - 1) : \E r \in R : BeginsAt(r, d)}
  BY DEF Heads
<1>4. BehindBreak = IF E = {} THEN N ELSE Min(E)
  BY DEF BehindBreak
<1>5. \A d \in Heads, r \in R : BeginsAt(r, d) => d - (Len(r) - 1) \in E
  <2> SUFFICES ASSUME NEW d \in Heads, NEW r \in R, BeginsAt(r, d)
               PROVE  d - (Len(r) - 1) \in E
    OBVIOUS
  <2>1. d \in 0..(N - 1) /\ Len(r) - 1 <= d
    BY <1>3 DEF BeginsAt
  <2> DEFINE n == d - (Len(r) - 1)
  <2>2. n \in 0..(N - 1) /\ n + Len(r) <= N /\ n + Len(r) - 1 = d
    BY <1>1, <1>2, <2>1
  <2> QED
    BY <2>2
<1>6. \A n \in E : \E r \in R : n + Len(r) - 1 \in Heads /\ BeginsAt(r, n + Len(r) - 1)
  <2> SUFFICES ASSUME NEW n \in E
               PROVE  \E r \in R : n + Len(r) - 1 \in Heads /\ BeginsAt(r, n + Len(r) - 1)
    OBVIOUS
  <2>1. PICK r \in R : n + Len(r) <= N /\ BeginsAt(r, n + Len(r) - 1)
    OBVIOUS
  <2>2. n + Len(r) - 1 \in 0..(N - 1)
    BY <1>1, <1>2, <2>1
  <2> QED
    BY <1>3, <2>1, <2>2
<1> HIDE DEF E
<1>7. CASE Heads = {}
  <2>1. E = {}
    BY <1>6, <1>7
  <2> QED
    BY <1>4, <1>7, <2>1 DEF RepLimit
<1>8. CASE Heads # {}
  <2> DEFINE d0 == Min(Heads)
  <2>1. d0 \in Heads /\ d0 \in Nat /\ \A d \in Heads : d0 <= d
    <3>1. d0 \in 0..(N - 1) /\ \A d \in Heads : d0 <= d
      BY <1>8, LastHead
    <3>2. \E r \in R : BeginsAt(r, d0)
      BY <1>8, LastHead
    <3>3. d0 \in Heads
      BY <1>3, <3>1, <3>2, Zenon
    <3>4. d0 \in Nat
      BY <1>1, <3>1
    <3> QED
      BY <3>1, <3>3, <3>4
  <2>2. PICK r0 \in R : BeginsAt(r0, d0) /\ Len(r0) = LongestAt(d0)
    BY <1>8, LastHead
  <2> DEFINE n0 == d0 - (Len(r0) - 1)
  <2>3. n0 \in E /\ n0 \in Nat
    BY <1>2, <1>5, <2>1, <2>2 DEF BeginsAt
  <2>4. RepLimit = n0
    BY <1>8, <2>2 DEF RepLimit
  <2> HIDE DEF d0
  <2>5. ASSUME NEW n \in E, n < n0 PROVE FALSE
    <3>1. PICK r \in R : n + Len(r) - 1 \in Heads /\ BeginsAt(r, n + Len(r) - 1)
      BY <1>6
    <3> DEFINE d == n + Len(r) - 1
               i == d - d0
    <3>2. n \in Nat /\ d \in Nat /\ d0 <= d
      BY <1>2, <2>1, <3>1 DEF E
    <3>3. r0 # r
      BY <1>2, <2>1, <2>5, <3>2
    <3>4. i \in 0..(Len(r) - Len(r0))
      BY <1>2, <2>1, <2>5, <3>2
    <3>5. r0 = SubSeq(r, i + 1, i + Len(r0))
      <4>1. \A j \in 1..Len(r0) : r0[j] = Token(d0 - (j - 1))
        BY <2>2 DEF BeginsAt
      <4>2. \A j \in 1..Len(r) : r[j] = Token(d - (j - 1))
        BY <3>1 DEF BeginsAt
      <4>3. \A j \in 1..Len(r0) : i + j \in 1..Len(r) /\ d - ((i + j) - 1) = d0 - (j - 1)
        BY <1>2, <2>1, <3>2, <3>4
      <4> DEFINE s == SubSeq(r, i + 1, i + Len(r0))
      <4> HIDE DEF d, i
      <4>4. ASSUME NEW j \in 1..Len(r0) PROVE r0[j] = r[i + j]
        <5>1. r0[j] = Token(d0 - (j - 1))
          BY <4>1
        <5> DEFINE q == i + j
        <5>2. q \in 1..Len(r) /\ d - (q - 1) = d0 - (j - 1)
          BY <4>3
        <5> HIDE DEF q
        <5>3. r[q] = Token(d - (q - 1))
          BY <4>2, <5>2
        <5> QED
          BY <5>1, <5>2, <5>3 DEF q
      <4>5. s \in Seq(Tokens) /\ Len(s) = Len(r0) /\ \A j \in 1..Len(s) : s[j] = r[i + j]
        BY <1>2, <3>4, SubSeqProperties
      <4> HIDE DEF s
      <4>6. \A j \in 1..Len(r0) : r0[j] = s[j]
        BY <4>4, <4>5
      <4>7. r0 = s
        BY <1>2, <4>5, <4>6, SeqEqual
      <4> QED
        BY <4>7 DEF s
    <3> QED
      BY <3>3, <3>4, <3>5 DEF NoneContained
  <2>6. Min(E) \in E /\ (\A n \in E : Min(E) <= n) /\ E \in SUBSET Nat
    <3>1. E \in SUBSET Nat
      BY <1>1 DEF E
    <3> QED
      BY <2>3, <3>1, MinIsLeast
  <2>7. Min(E) = n0
    <3>1. ~(Min(E) < n0) /\ Min(E) <= n0
      BY <2>3, <2>5, <2>6
    <3>2. Min(E) \in Nat
      BY <2>6, Zenon
    <3> QED
      BY <2>3, <3>1, <3>2
  <2> QED
    BY <1>4, <2>3, <2>4, <2>7
<1> QED
  BY <1>7, <1>8

-----------------------------------------------------------------------------
(* The scan is linear                                                      *)

\* What the comparisons have paid for: the right end of the box only grows, and
\* each round may fail once.
Paid ==
  /\ Inputs
  /\ k \in Nat \ {0} /\ rt \in Nat /\ compared \in Nat
  /\ rt = 0 \/ rt < last_n_repeat
  /\ k = 1 \/ k <= last_n_repeat
  /\ compared <= rt + (k - 1)

LEMMA SameInputs ==
  ASSUME UNCHANGED inputVars
  PROVE  /\ Inputs' = Inputs /\ last_n_repeat' = last_n_repeat
         /\ BehindBreak' = BehindBreak /\ NoneContained' = NoneContained
BY DEF inputVars, Inputs, last_n_repeat, penalty_range, BehindBreak, NoneContained, BeginsAt, Token

LEMMA PaidKept ==
  ASSUME Paid, [Next]_vars
  PROVE  Paid'
<1>1. Inputs' /\ last_n_repeat' = last_n_repeat
  <2>1. UNCHANGED inputVars
    BY DEF Next, SetLimit, TooShort, CountOutside, CopyPair, ExtendBox, Penalize, Round, vars
  <2> QED
    BY <2>1, SameInputs DEF Paid
<1>2. last_n_repeat \in Nat
  BY LastTokens DEF Paid
<1>3. CASE CountOutside
  <2>1. PICK end \in k..last_n_repeat :
          /\ Round(end - k, Comparisons(k, end))
          /\ IF end > k THEN lt' = k /\ rt' = end - 1 ELSE UNCHANGED <<lt, rt>>
    BY <1>3 DEF CountOutside
  <2> QED
    BY <1>1, <1>2, <1>3, <2>1 DEF Paid, CountOutside, Scanning, Round, Comparisons
<1>4. CASE CopyPair
  BY <1>1, <1>2, <1>4 DEF Paid, CopyPair, Scanning, Round
<1>5. CASE ExtendBox
  <2>1. PICK end \in (rt + 1)..last_n_repeat :
          /\ Round(end - k, Comparisons(rt + 1, end))
          /\ rt' = end - 1
    BY <1>5 DEF ExtendBox
  <2> QED
    BY <1>1, <1>2, <1>5, <2>1 DEF Paid, ExtendBox, Scanning, Round, Comparisons
<1>6. CASE SetLimit \/ TooShort \/ Penalize \/ UNCHANGED vars
  BY <1>1, <1>6 DEF Paid, SetLimit, TooShort, Penalize, vars
<1> QED
  BY <1>3, <1>4, <1>5, <1>6 DEF Next

LEMMA PaidAtFirst ==
  ASSUME Init
  PROVE  Paid
<1>1. Inputs
  BY DEF Init, Inputs
<1> QED
  BY <1>1, LastTokens DEF Init, Paid

LEMMA PaidAlways == Spec => []Paid
BY PaidAtFirst, PaidKept, PTL DEF Spec

\* The comparisons of the Z-algorithm are at most two for each token, whatever the
\* context: the comment above it says that the step is O(N).
THEOREM LinearScan == Spec => []ScanIsLinear
<1>1. Paid => ScanIsLinear
  BY LastTokens DEF Paid, ScanIsLinear
<1> QED
  BY <1>1, PaidAlways, PTL

-----------------------------------------------------------------------------
(* The penalties are exact                                                 *)

\* The count at d is that of the repeat there, limited.
CountedAt(d) == \E n \in Nat : IsZ(d, n) /\ dry_repeat_count[d] = MinOf(n, rep_limit)

\* The tokens in the box are those that are lt nearer to the end.
Box ==
  /\ lt \in Nat /\ lt <= rt /\ lt < k
  /\ lt = 0 => rt = 0
  /\ lt > 0 => \A d \in lt..rt : Token(d) = Token(d - lt)

Counted ==
  /\ dry_repeat_count \in [0..(last_n_repeat - 1) -> Nat]
  /\ pc = "limit" => k = 1
  /\ pc = "scan" =>
       /\ last_n_repeat > settings.allowed_length
       /\ rep_limit \in Nat /\ rep_limit <= last_n_repeat
       /\ NoneContained => rep_limit = BehindBreak
       /\ \A d \in 1..(k - 1) : d < last_n_repeat => CountedAt(d)

Exact == Paid /\ Box /\ Counted /\ pc \in {"limit", "scan", "done"} /\ PenaltiesAreExact

\* What a round has to find out at k for the counts to stay right
LEMMA CountedOneMore ==
  ASSUME Exact, Scanning, NEW n \in Nat, NEW c \in Nat, NEW x, Round(c, x),
         IsZ(k, n), MinOf(c, rep_limit) = MinOf(n, rep_limit)
  PROVE  Counted'
<1>1. /\ UNCHANGED inputVars /\ k' = k + 1 /\ pc' = pc /\ rep_limit' = rep_limit
      /\ dry_repeat_count' = [dry_repeat_count EXCEPT ![k] = MinOf(c, rep_limit)]
  BY DEF Round
<1>2. /\ last_n_repeat' = last_n_repeat /\ last_n_repeat \in Nat
      /\ BehindBreak' = BehindBreak /\ NoneContained' = NoneContained
      /\ settings' = settings
  BY <1>1, SameInputs, LastTokens DEF Exact, Paid, inputVars
<1>3. \A d, m : IsZ(d, m)' = IsZ(d, m)
  BY <1>1, <1>2 DEF IsZ, Token, inputVars
<1>4. k \in 1..(last_n_repeat - 1) /\ pc = "scan"
  BY <1>2 DEF Exact, Paid, Scanning
<1>5. dry_repeat_count' \in [0..(last_n_repeat - 1) -> Nat]
  <2>1. MinOf(c, rep_limit) \in Nat
    BY <1>4 DEF Exact, Counted, MinOf
  <2> QED
    BY <1>1, <1>4, <2>1 DEF Exact, Counted
<1>6. ASSUME NEW d \in 1..(k' - 1), d < last_n_repeat PROVE CountedAt(d)'
  <2>1. CASE d = k
    <3>1. dry_repeat_count'[d] = MinOf(n, rep_limit)
      BY <1>1, <1>4, <2>1 DEF Exact, Counted
    <3> QED
      BY <1>1, <1>3, <2>1, <3>1 DEF CountedAt, MinOf
  <2>2. CASE d # k
    <3>1. d \in 1..(k - 1) /\ d \in 0..(last_n_repeat - 1)
      BY <1>1, <1>2, <1>4, <1>6, <2>2
    <3>2. dry_repeat_count'[d] = dry_repeat_count[d]
      BY <1>1, <2>2, <3>1 DEF Exact, Counted
    <3>3. CountedAt(d)
      BY <1>4, <1>6, <3>1 DEF Exact, Counted
    <3> QED
      BY <1>1, <1>3, <3>2, <3>3 DEF CountedAt, MinOf
  <2> QED
    BY <2>1, <2>2
<1> QED
  BY <1>1, <1>2, <1>4, <1>5, <1>6 DEF Exact, Counted

LEMMA BoxMoved ==
  ASSUME Exact, Scanning, NEW end \in (k + 1)..last_n_repeat,
         IsZ(k, end - k), UNCHANGED inputVars, lt' = k, rt' = end - 1, k' = k + 1
  PROVE  Box'
<1>1. last_n_repeat \in Nat /\ k \in Nat \ {0}
  BY LastTokens DEF Exact, Paid
<1>2. \A d : Token(d)' = Token(d)
  BY DEF Token, inputVars
<1>3. ASSUME NEW d \in k..(end - 1) PROVE Token(d) = Token(d - k)
  <2>1. d - k \in 0..(end - k - 1) /\ k + (d - k) = d
    BY <1>1
  <2> QED
    BY <2>1 DEF IsZ
<1> QED
  BY <1>1, <1>2, <1>3 DEF Box

\* Comparing from k on finds the repeat at k.
LEMMA FoundOutside ==
  ASSUME Exact, Scanning, NEW end \in k..last_n_repeat, StopsAt(k, end)
  PROVE  IsZ(k, end - k)
<1>1. last_n_repeat \in Nat /\ k \in Nat \ {0}
  BY LastTokens DEF Exact, Paid
<1>2. ASSUME NEW i \in 0..(end - k - 1) PROVE Token(i) = Token(k + i)
  <2>1. k + i \in k..(end - 1) /\ (k + i) - k = i
    BY <1>1
  <2> QED
    BY <2>1 DEF StopsAt
<1>3. k + (end - k) < last_n_repeat => Token(end - k) # Token(k + (end - k))
  <2>1. k + (end - k) = end
    BY <1>1
  <2> QED
    BY <2>1 DEF StopsAt
<1> QED
  BY <1>1, <1>2, <1>3 DEF IsZ

\* In the box, the tokens from k on are those from the paired place on.
LEMMA Paired ==
  ASSUME Exact, Scanning, k <= rt
  PROVE  /\ k - lt \in 1..(k - 1) /\ k - lt < last_n_repeat
         /\ CountedAt(k - lt)
         /\ \A i \in 0..(rt - k) : Token(k + i) = Token((k - lt) + i)
<1>1. last_n_repeat \in Nat /\ k \in Nat \ {0} /\ rt \in Nat /\ lt \in Nat
  BY LastTokens DEF Exact, Paid, Box
<1>2. lt > 0 /\ lt < k
  BY <1>1 DEF Exact, Box
<1>3. k - lt \in 1..(k - 1) /\ k - lt < last_n_repeat
  BY <1>1, <1>2 DEF Scanning
<1>4. ASSUME NEW i \in 0..(rt - k) PROVE Token(k + i) = Token((k - lt) + i)
  <2>1. k + i \in lt..rt /\ (k + i) - lt = (k - lt) + i
    BY <1>1, <1>2
  <2> QED
    BY <1>2, <2>1 DEF Exact, Box
<1> QED
  BY <1>3, <1>4 DEF Exact, Counted, Scanning

LEMMA CountOutsideExact ==
  ASSUME Exact, CountOutside
  PROVE  Box' /\ Counted'
<1>1. PICK end \in k..last_n_repeat :
        /\ StopsAt(k, end) /\ Round(end - k, Comparisons(k, end))
        /\ IF end > k THEN lt' = k /\ rt' = end - 1 ELSE UNCHANGED <<lt, rt>>
  BY DEF CountOutside
<1>2. Scanning /\ UNCHANGED inputVars /\ k' = k + 1
  BY <1>1 DEF CountOutside, Round
<1>3. k \in Nat /\ last_n_repeat \in Nat
  BY LastTokens DEF Exact, Paid
<1>4. IsZ(k, end - k)
  BY <1>1, <1>2, FoundOutside
<1>5. Counted'
  <2>1. end - k \in Nat
    BY <1>3
  <2> QED
    BY <1>1, <1>2, <1>4, <2>1, CountedOneMore
<1>6. CASE end > k
  <2>1. end \in (k + 1)..last_n_repeat
    BY <1>3, <1>6
  <2> QED
    BY <1>1, <1>2, <1>4, <1>5, <1>6, <2>1, BoxMoved
<1>7. CASE ~(end > k)
  <2>1. \A d : Token(d)' = Token(d)
    BY <1>2 DEF Token, inputVars
  <2> QED
    BY <1>1, <1>2, <1>3, <1>5, <1>7, <2>1 DEF Exact, Box
<1> QED
  BY <1>6, <1>7

LEMMA CopyPairExact ==
  ASSUME Exact, CopyPair
  PROVE  Box' /\ Counted'
<1> DEFINE p == k - lt
           c == dry_repeat_count[p]
<1>1. Scanning /\ k <= rt /\ c < RightPart /\ Round(c, 0) /\ UNCHANGED <<lt, rt>>
  BY DEF CopyPair
<1>2. /\ k \in Nat /\ last_n_repeat \in Nat /\ rt \in Nat /\ rt < last_n_repeat
      /\ rep_limit \in Nat
  BY <1>1, LastTokens DEF Exact, Paid, Counted, Scanning
<1>3. /\ p \in 1..(k - 1) /\ p < last_n_repeat
      /\ CountedAt(p)
      /\ \A i \in 0..(rt - k) : Token(k + i) = Token(p + i)
  BY <1>1, Paired
<1>4. PICK n \in Nat : IsZ(p, n) /\ c = MinOf(n, rep_limit)
  BY <1>3 DEF CountedAt
<1> HIDE DEF p, c
<1>5. c \in Nat /\ c <= rt - k
  BY <1>1, <1>2, <1>4 DEF MinOf, RightPart
<1>6. \A i \in 0..(c - 1) : Token(i) = Token(k + i)
  <2> SUFFICES ASSUME NEW i \in 0..(c - 1) PROVE Token(i) = Token(k + i)
    OBVIOUS
  <2>1. i \in 0..(rt - k) /\ i \in 0..(n - 1)
    BY <1>2, <1>4, <1>5 DEF MinOf
  <2> QED
    BY <1>3, <1>4, <2>1 DEF IsZ
<1>7. \E z \in Nat : IsZ(k, z) /\ MinOf(c, rep_limit) = MinOf(z, rep_limit)
  <2>1. CASE n <= rep_limit
    <3>1. c = n
      BY <1>4, <2>1 DEF MinOf
    <3>2. p + n < last_n_repeat /\ n \in 0..(rt - k) /\ n \in 0..(last_n_repeat - k)
      BY <1>2, <1>3, <1>5, <3>1
    <3>3. Token(n) # Token(k + n)
      BY <1>3, <1>4, <3>2 DEF IsZ
    <3>4. IsZ(k, n)
      BY <1>6, <3>1, <3>2, <3>3 DEF IsZ
    <3> QED
      BY <3>1, <3>4
  <2>2. CASE n > rep_limit
    <3>1. c = rep_limit
      BY <1>2, <1>4, <2>2 DEF MinOf
    <3>2. k \in 1..(last_n_repeat - 1)
      BY <1>1, <1>2 DEF Scanning, Exact, Paid
    <3>3. PICK z \in Nat : IsZ(k, z)
      BY <3>2, ZExists DEF Exact, Paid
    <3>4. z >= c
      <4> SUFFICES ASSUME z < c PROVE FALSE
        BY <1>5
      <4>1. k + z < last_n_repeat /\ z \in 0..(c - 1)
        BY <1>2, <1>5
      <4> QED
        BY <1>6, <3>3, <4>1 DEF IsZ
    <3> QED
      BY <1>2, <3>1, <3>3, <3>4 DEF MinOf
  <2> QED
    BY <1>2, <2>1, <2>2
<1>8. Counted'
  BY <1>1, <1>5, <1>7, CountedOneMore
<1>9. Box'
  <2>1. \A d : Token(d)' = Token(d)
    BY <1>1 DEF Token, inputVars, Round
  <2> QED
    BY <1>1, <1>2, <2>1 DEF Exact, Box, Round
<1> QED
  BY <1>8, <1>9

LEMMA ExtendBoxExact ==
  ASSUME Exact, ExtendBox
  PROVE  Box' /\ Counted'
<1> DEFINE p == k - lt
           c == dry_repeat_count[p]
<1>1. PICK end \in (rt + 1)..last_n_repeat :
        /\ StopsAt(rt + 1, end) /\ Round(end - k, Comparisons(rt + 1, end))
        /\ lt' = k /\ rt' = end - 1
  BY DEF ExtendBox
<1>2. Scanning /\ k <= rt /\ c >= RightPart /\ UNCHANGED inputVars /\ k' = k + 1
  BY <1>1 DEF ExtendBox, Round
<1>3. /\ k \in Nat /\ last_n_repeat \in Nat /\ rt \in Nat /\ rt < last_n_repeat
      /\ rep_limit \in Nat
  BY <1>2, LastTokens DEF Exact, Paid, Counted, Scanning
<1>4. /\ CountedAt(p)
      /\ \A i \in 0..(rt - k) : Token(k + i) = Token(p + i)
  BY <1>2, Paired
<1>5. PICK n \in Nat : IsZ(p, n) /\ c = MinOf(n, rep_limit)
  BY <1>4 DEF CountedAt
<1> HIDE DEF p, c
<1>6. n >= rt - k + 1
  BY <1>2, <1>3, <1>5 DEF MinOf, RightPart
<1>7. ASSUME NEW i \in 0..(end - k - 1) PROVE Token(i) = Token(k + i)
  <2>1. CASE i <= rt - k
    <3>1. i \in 0..(rt - k) /\ i \in 0..(n - 1)
      BY <1>3, <1>6, <2>1
    <3> QED
      BY <1>4, <1>5, <3>1 DEF IsZ
  <2>2. CASE i > rt - k
    <3>1. k + i \in (rt + 1)..(end - 1) /\ (k + i) - k = i
      BY <1>3, <2>2
    <3> QED
      BY <1>1, <3>1 DEF StopsAt
  <2> QED
    BY <1>3, <2>1, <2>2
<1>8. IsZ(k, end - k)
  <2>1. k + (end - k) = end /\ end - k \in 0..(last_n_repeat - k)
    BY <1>2, <1>3
  <2> QED
    BY <1>1, <1>7, <2>1 DEF IsZ, StopsAt
<1>9. end \in (k + 1)..last_n_repeat /\ end - k \in Nat
  BY <1>2, <1>3
<1>10. Counted'
  BY <1>1, <1>2, <1>8, <1>9, CountedOneMore
<1> QED
  BY <1>1, <1>2, <1>8, <1>9, <1>10, BoxMoved

\* Counts of repeats that went on with t, and lengths of such repetitions, have the
\* same maximum: no repetition is longer than its count unless the limit is reached.
LEMMA PenalizeExact ==
  ASSUME Exact, Penalize
  PROVE  PenaltiesAreExact'
<1> DEFINE N == last_n_repeat
           allowed == settings.allowed_length
           long == {d \in 1..(N - 1) : dry_repeat_count[d] >= allowed}
           counts(t) == {dry_repeat_count[d] : d \in {e \in long : Token(e - 1) = t}}
           repeats(t) == {m \in allowed..BehindBreak : m < N /\ Followed(m, t)}
<1> SUFFICES ASSUME NoneContained
             PROVE  dry_max_token_repeat' =
                      [t \in {u \in Tokens : repeats(u) # {}} |-> Max(repeats(t))]
  <2>1. UNCHANGED inputVars
    BY DEF Penalize
  <2>2. \A m, t : Followed(m, t)' = Followed(m, t)
    BY <2>1, SameInputs DEF Followed, Token, inputVars
  <2> QED
    BY <2>1, <2>2, SameInputs DEF PenaltiesAreExact, inputVars
<1>1. /\ N \in Nat /\ allowed \in Nat /\ rep_limit \in Nat /\ rep_limit = BehindBreak
      /\ \A d \in 1..(N - 1) : CountedAt(d)
      /\ \A d \in 0..(N - 1) : Token(d) \in Tokens
  BY LastTokens DEF Exact, Paid, Counted, Penalize
<1>2. \A t : counts(t) \in SUBSET repeats(t)
  <2> SUFFICES ASSUME NEW t, NEW d \in long, Token(d - 1) = t
               PROVE  dry_repeat_count[d] \in repeats(t)
    OBVIOUS
  <2>1. PICK n \in Nat : IsZ(d, n) /\ dry_repeat_count[d] = MinOf(n, rep_limit)
    BY <1>1 DEF CountedAt
  <2> DEFINE m == dry_repeat_count[d]
  <2>2. m \in allowed..BehindBreak /\ m <= n
    BY <1>1, <2>1 DEF MinOf
  <2> HIDE DEF m
  <2>3. d \in 1..(N - 1) /\ n <= N - d
    BY <2>1 DEF IsZ
  <2>4. \A i \in 0..(m - 1) : Token(i) = Token(d + i)
    BY <1>1, <2>1, <2>2 DEF IsZ
  <2>5. m < N /\ d + m <= N
    BY <1>1, <2>2, <2>3
  <2>6. Followed(m, t)
    BY <2>3, <2>4, <2>5 DEF Followed
  <2>7. m \in repeats(t)
    BY <2>2, <2>5, <2>6
  <2> QED
    BY <2>7 DEF m
<1>3. \A t : \A m \in repeats(t) : \E n \in counts(t) : n >= m
  <2> SUFFICES ASSUME NEW t, NEW m \in allowed..BehindBreak, m < N, Followed(m, t)
               PROVE  \E n \in counts(t) : n >= m
    OBVIOUS
  <2>1. PICK d \in 1..(N - 1) : /\ d + m <= N /\ Token(d - 1) = t
                                /\ \A i \in 0..(m - 1) : Token(i) = Token(d + i)
    BY DEF Followed
  <2>2. PICK n \in Nat : IsZ(d, n) /\ dry_repeat_count[d] = MinOf(n, rep_limit)
    BY <1>1 DEF CountedAt
  <2>3. n >= m
    <3> SUFFICES ASSUME n < m PROVE FALSE
      BY <1>1
    <3>1. n \in 0..(m - 1) /\ d + n < N
      BY <1>1, <2>1
    <3> QED
      BY <2>1, <2>2, <3>1 DEF IsZ
  <2>4. dry_repeat_count[d] >= m /\ dry_repeat_count[d] >= allowed
    BY <1>1, <2>2, <2>3 DEF MinOf
  <2> QED
    BY <2>1, <2>4
<1>4. \A t : repeats(t) # {} => counts(t) # {} /\ Max(counts(t)) = Max(repeats(t))
  <2> SUFFICES ASSUME NEW t, repeats(t) # {}
               PROVE  counts(t) # {} /\ Max(counts(t)) = Max(repeats(t))
    OBVIOUS
  <2>1. repeats(t) \in SUBSET (0..N)
    BY <1>1
  <2> HIDE DEF repeats, counts
  <2> QED
    BY <1>1, <1>2, <1>3, <2>1, SameMax
<1> DEFINE followed == {Token(d - 1) : d \in long}
<1>5. dry_max_token_repeat' = [t \in followed |-> Max(counts(t))]
  BY DEF Penalize
<1>6. followed = {u \in Tokens : repeats(u) # {}}
  <2>1. ASSUME NEW t \in followed PROVE t \in Tokens /\ repeats(t) # {}
    <3>1. PICK d \in long : t = Token(d - 1)
      OBVIOUS
    <3>2. d - 1 \in 0..(N - 1)
      BY <1>1
    <3>3. dry_repeat_count[d] \in counts(t)
      BY <3>1
    <3> QED
      BY <1>1, <1>2, <3>1, <3>2, <3>3
  <2>2. ASSUME NEW t \in Tokens, repeats(t) # {} PROVE t \in followed
    <3>1. counts(t) # {}
      BY <1>4, <2>2
    <3> QED
      BY <3>1
  <2> HIDE DEF followed, repeats
  <2> QED
    BY <2>1, <2>2
<1> HIDE DEF followed, counts, repeats
<1> QED
  BY <1>4, <1>5, <1>6

LEMMA ExactAtFirst ==
  ASSUME Init
  PROVE  Exact
BY PaidAtFirst, LastTokens DEF Init, Exact, Paid, Box, Counted, PenaltiesAreExact

LEMMA ExactKept ==
  ASSUME Exact, [Next]_vars
  PROVE  Exact'
<1>1. Paid'
  BY PaidKept DEF Exact
<1>2. last_n_repeat \in Nat
  BY LastTokens DEF Exact, Paid
<1>3. CASE SetLimit
  <2>1. UNCHANGED inputVars
    BY <1>3 DEF SetLimit
  <2>2. /\ last_n_repeat' = last_n_repeat /\ settings' = settings
        /\ BehindBreak' = BehindBreak /\ NoneContained' = NoneContained
    BY <2>1, SameInputs DEF inputVars
  <2>3. \A d : Token(d)' = Token(d)
    BY <2>1 DEF Token, inputVars
  <2>4. RepLimit \in 0..last_n_repeat /\ (NoneContained => RepLimit = BehindBreak)
    BY LimitInRange, LimitIsBreak DEF Exact, Paid
  <2>5. Box'
    BY <1>3, <2>3 DEF Exact, Box, SetLimit
  <2>6. k = 1 /\ k' = 1
    BY <1>3 DEF SetLimit, Exact, Counted
  <2>7. Counted'
    BY <1>2, <1>3, <2>2, <2>4, <2>6 DEF Exact, Counted, SetLimit
  <2>8. PenaltiesAreExact'
    <3> SUFFICES ASSUME NoneContained, BehindBreak > settings.allowed_length, pc' = "done"
                 PROVE  FALSE
      BY <2>2 DEF PenaltiesAreExact
    <3> QED
      BY <1>2, <1>3, <2>4, LastTokens DEF SetLimit, Exact, Paid
  <2> QED
    BY <1>1, <1>3, <2>5, <2>7, <2>8 DEF Exact, SetLimit
<1>4. CASE TooShort
  <2>1. UNCHANGED inputVars
    BY <1>4 DEF TooShort
  <2>2. /\ last_n_repeat' = last_n_repeat /\ settings' = settings
        /\ BehindBreak' = BehindBreak
    BY <2>1, SameInputs DEF inputVars
  <2>3. \A d : Token(d)' = Token(d)
    BY <2>1 DEF Token, inputVars
  <2>4. BehindBreak <= last_n_repeat \/ ~NoneContained
    BY <1>2, LimitInRange, LimitIsBreak DEF Exact, Paid
  <2>5. PenaltiesAreExact'
    <3> SUFFICES ASSUME NoneContained, BehindBreak > settings.allowed_length
                 PROVE  FALSE
      BY <2>1, <2>2, SameInputs DEF PenaltiesAreExact
    <3>1. BehindBreak \in Nat /\ settings.allowed_length \in Nat
      BY LimitInRange, LimitIsBreak, LastTokens, <1>2 DEF Exact, Paid
    <3> QED
      BY <1>2, <1>4, <2>4, <3>1 DEF TooShort
  <2>6. Box' /\ Counted'
    BY <1>4, <2>2, <2>3 DEF TooShort, Exact, Box, Counted
  <2> QED
    BY <1>1, <1>4, <2>5, <2>6 DEF Exact, TooShort
<1>5. CASE CountOutside \/ CopyPair \/ ExtendBox
  <2>1. Box' /\ Counted'
    BY <1>5, CountOutsideExact, CopyPairExact, ExtendBoxExact
  <2>2. pc = "scan" /\ pc' = "scan"
    BY <1>5 DEF CountOutside, CopyPair, ExtendBox, Scanning, Round
  <2> QED
    BY <1>1, <2>1, <2>2 DEF Exact, PenaltiesAreExact
<1>6. CASE Penalize
  <2>1. UNCHANGED inputVars /\ pc' = "done" /\ UNCHANGED <<dry_repeat_count, lt, rt, k>>
    BY <1>6 DEF Penalize
  <2>2. last_n_repeat' = last_n_repeat
    BY <2>1, SameInputs
  <2>3. \A d : Token(d)' = Token(d)
    BY <2>1 DEF Token, inputVars
  <2>4. Box' /\ Counted'
    BY <2>1, <2>2, <2>3 DEF Exact, Box, Counted
  <2> QED
    BY <1>1, <1>6, <2>1, <2>4, PenalizeExact DEF Exact
<1>7. CASE UNCHANGED vars
  <2>1. UNCHANGED inputVars
    BY <1>7 DEF vars
  <2>2. /\ last_n_repeat' = last_n_repeat /\ settings' = settings
        /\ BehindBreak' = BehindBreak /\ NoneContained' = NoneContained
    BY <2>1, SameInputs DEF inputVars
  <2>3. \A d : Token(d)' = Token(d)
    BY <2>1 DEF Token, inputVars
  <2>4. \A d, n : IsZ(d, n)' = IsZ(d, n)
    BY <2>2, <2>3 DEF IsZ
  <2>5. Box' /\ Counted'
    BY <1>7, <2>2, <2>3, <2>4 DEF vars, Exact, Box, Counted, CountedAt, MinOf
  <2>6. \A m, t : Followed(m, t)' = Followed(m, t)
    BY <2>2, <2>3 DEF Followed
  <2>7. PenaltiesAreExact'
    BY <1>7, <2>2, <2>6 DEF vars, Exact, PenaltiesAreExact
  <2> QED
    BY <1>1, <1>7, <2>5, <2>7 DEF Exact, vars
<1> QED
  BY <1>3, <1>4, <1>5, <1>6, <1>7 DEF Next

\* Whatever the context, the range and the restart sequences (none of which contains
\* another), when more than allowed_length tokens follow the last restart sequence,
\* exactly the tokens that go on with a repetition are penalized, each for its longest
\* repetition.
THEOREM ExactPenalties == Spec => []PenaltiesAreExact
<1>1. Exact => PenaltiesAreExact
  BY DEF Exact
<1> QED
  BY <1>1, ExactAtFirst, ExactKept, PTL DEF Spec

=============================================================================
