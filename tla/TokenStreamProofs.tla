-------------------------- MODULE TokenStreamProofs --------------------------
(***************************************************************************)
(* Theorems about the text of a stream, for all tokens, stop sequences and *)
(* numbers of tokens.                                                      *)
(***************************************************************************)
EXTENDS TokenStream, NumberSets, SequenceTheorems

-----------------------------------------------------------------------------
(* Parts of texts                                                          *)

Texts == Seq(Bytes)

\* The first n bytes
Upto(text, n) == SubSeq(text, 1, n)

\* Those behind the first m, up to the n-th
Piece(text, m, n) == SubSeq(text, m + 1, n)

LEMMA TextFacts ==
  ASSUME NEW text \in Texts
  PROVE  Len(text) \in Nat /\ DOMAIN text = 1..Len(text)
         /\ \A n \in 1..Len(text) : text[n] \in Bytes
BY LenProperties, ElementOfSeq DEF Texts

LEMMA PieceFacts ==
  ASSUME NEW text \in Texts, NEW m \in Nat, NEW n \in m..Len(text)
  PROVE  /\ Piece(text, m, n) \in Texts /\ Len(Piece(text, m, n)) = n - m
         /\ \A d \in 1..(n - m) : Piece(text, m, n)[d] = text[m + d]
<1>1. Len(text) \in Nat /\ \A d \in 1..Len(text) : text[d] \in Bytes
  BY TextFacts
<1>2. \A d \in (m + 1)..n : text[d] \in Bytes
  BY <1>1
<1>3. m + 1 \in Int /\ n \in Int
  BY <1>1
<1>4. /\ Piece(text, m, n) \in Seq(Bytes)
      /\ Len(Piece(text, m, n)) = IF m + 1 <= n THEN n - (m + 1) + 1 ELSE 0
      /\ \A d \in 1..(n - (m + 1) + 1) : Piece(text, m, n)[d] = text[(m + 1) + d - 1]
  BY <1>2, <1>3, SubSeqProperties DEF Piece
<1>5. Len(Piece(text, m, n)) = n - m
  BY <1>1, <1>4
<1>6. ASSUME NEW d \in 1..(n - m) PROVE Piece(text, m, n)[d] = text[m + d]
  <2>1. d \in 1..(n - (m + 1) + 1) /\ (m + 1) + d - 1 = m + d
    BY <1>1
  <2> QED
    BY <1>4, <2>1
<1> QED
  BY <1>4, <1>5, <1>6 DEF Texts

LEMMA UptoFacts ==
  ASSUME NEW text \in Texts, NEW n \in 0..Len(text)
  PROVE  /\ Upto(text, n) \in Texts /\ Len(Upto(text, n)) = n
         /\ \A d \in 1..n : Upto(text, n)[d] = text[d]
<1>1. Len(text) \in Nat /\ 0 \in Nat /\ n \in 0..Len(text)
  BY TextFacts
<1>2. /\ Piece(text, 0, n) \in Texts /\ Len(Piece(text, 0, n)) = n - 0
      /\ \A d \in 1..(n - 0) : Piece(text, 0, n)[d] = text[0 + d]
  BY <1>1, PieceFacts
<1>3. Upto(text, n) = Piece(text, 0, n)
  BY DEF Upto, Piece
<1> QED
  BY <1>1, <1>2, <1>3

LEMMA Joined ==
  ASSUME NEW s \in Texts, NEW t \in Texts
  PROVE  /\ s \o t \in Texts /\ Len(s \o t) = Len(s) + Len(t)
         /\ Len(s) \in Nat /\ Len(t) \in Nat
         /\ \A d \in 1..Len(s) : (s \o t)[d] = s[d]
         /\ \A d \in 1..Len(t) : (s \o t)[Len(s) + d] = t[d]
<1>1. Len(s) \in Nat /\ Len(t) \in Nat
  BY TextFacts
<1>2. /\ s \o t \in Seq(Bytes) /\ Len(s \o t) = Len(s) + Len(t)
      /\ \A d \in 1..(Len(s) + Len(t)) :
           (s \o t)[d] = IF d <= Len(s) THEN s[d] ELSE t[d - Len(s)]
  BY ConcatProperties DEF Texts
<1>3. \A d \in 1..Len(s) : (s \o t)[d] = s[d]
  BY <1>1, <1>2
<1>4. ASSUME NEW d \in 1..Len(t) PROVE (s \o t)[Len(s) + d] = t[d]
  <2>1. Len(s) + d \in 1..(Len(s) + Len(t)) /\ ~(Len(s) + d <= Len(s))
        /\ (Len(s) + d) - Len(s) = d
    BY <1>1
  <2> QED
    BY <1>2, <2>1
<1> QED
  BY <1>1, <1>2, <1>3, <1>4 DEF Texts

\* Two texts are equal when they have the same bytes.
LEMMA SameText ==
  ASSUME NEW s \in Texts, NEW t \in Texts, Len(s) = Len(t), \A d \in 1..Len(s) : s[d] = t[d]
  PROVE  s = t
BY SeqEqual DEF Texts

LEMMA UptoAll ==
  ASSUME NEW text \in Texts
  PROVE  Upto(text, Len(text)) = text
BY SubSeqFull DEF Texts, Upto

LEMMA EmptyText ==
  /\ <<>> \in Texts /\ Len(<<>>) = 0
  /\ \A t \in Texts : (t = <<>>) = (Len(t) = 0)
  /\ \A t \in Texts : t \o <<>> = t /\ <<>> \o t = t
<1>1. <<>> \in Texts /\ Len(<<>>) = 0
  BY EmptySeq DEF Texts
<1>2. ASSUME NEW t \in Texts PROVE (t = <<>>) = (Len(t) = 0)
  BY EmptySeq DEF Texts
<1>3. ASSUME NEW t \in Texts PROVE t \o <<>> = t /\ <<>> \o t = t
  BY ConcatEmptySeq DEF Texts
<1> QED
  BY <1>1, <1>2, <1>3

\* A text cut in two, and the two parts of a text put together
LEMMA Halves ==
  ASSUME NEW text \in Texts, NEW m \in Nat, NEW n \in m..Len(text)
  PROVE  Upto(text, m) \o Piece(text, m, n) = Upto(text, n)
<1>1. Len(text) \in Nat
  BY TextFacts
<1>2. m \in 0..Len(text) /\ n \in 0..Len(text)
  BY <1>1
<1>3. /\ Upto(text, m) \in Texts /\ Len(Upto(text, m)) = m
      /\ \A d \in 1..m : Upto(text, m)[d] = text[d]
  BY <1>2, UptoFacts
<1>4. /\ Upto(text, n) \in Texts /\ Len(Upto(text, n)) = n
      /\ \A d \in 1..n : Upto(text, n)[d] = text[d]
  BY <1>2, UptoFacts
<1>5. /\ Piece(text, m, n) \in Texts /\ Len(Piece(text, m, n)) = n - m
      /\ \A d \in 1..(n - m) : Piece(text, m, n)[d] = text[m + d]
  BY PieceFacts
<1> DEFINE whole == Upto(text, m) \o Piece(text, m, n)
<1>6. /\ whole \in Texts /\ Len(whole) = m + (n - m)
      /\ \A d \in 1..m : whole[d] = Upto(text, m)[d]
      /\ \A d \in 1..(n - m) : whole[m + d] = Piece(text, m, n)[d]
  <2> DEFINE u == Upto(text, m)
             v == Piece(text, m, n)
  <2>1. /\ u \o v \in Texts /\ Len(u \o v) = Len(u) + Len(v)
        /\ \A d \in 1..Len(u) : (u \o v)[d] = u[d]
        /\ \A d \in 1..Len(v) : (u \o v)[Len(u) + d] = v[d]
    BY <1>3, <1>5, Joined
  <2>2. Len(u) = m /\ Len(v) = n - m
    BY <1>3, <1>5
  <2> HIDE DEF u, v
  <2>3. /\ u \o v \in Texts /\ Len(u \o v) = m + (n - m)
        /\ \A d \in 1..m : (u \o v)[d] = u[d]
        /\ \A d \in 1..(n - m) : (u \o v)[m + d] = v[d]
    BY <2>1, <2>2
  <2> QED
    BY <2>3 DEF u, v
<1>7. Len(whole) = n
  BY <1>1, <1>6
<1> HIDE DEF whole
<1>8. ASSUME NEW d \in 1..n PROVE whole[d] = Upto(text, n)[d]
  <2>1. CASE d <= m
    BY <1>3, <1>4, <1>6, <2>1
  <2>2. CASE ~(d <= m)
    <3>1. d - m \in 1..(n - m) /\ m + (d - m) = d
      BY <2>2
    <3>2. whole[m + (d - m)] = Piece(text, m, n)[d - m]
      BY <1>6, <3>1
    <3>3. Piece(text, m, n)[d - m] = text[m + (d - m)]
      BY <1>5, <3>1
    <3> QED
      BY <1>4, <3>1, <3>2, <3>3
  <2> QED
    BY <2>1, <2>2
<1>9. whole = Upto(text, n)
  BY <1>4, <1>6, <1>7, <1>8, SameText
<1> QED
  BY <1>9 DEF whole

LEMMA ShortTexts ==
  ASSUME NEW y \in Bytes, NEW z \in Bytes
  PROVE  /\ <<z>> \in Texts /\ Len(<<z>>) = 1 /\ <<z>>[1] = z
         /\ <<y, z>> \in Texts /\ Len(<<y, z>>) = 2 /\ <<y, z>>[1] = y /\ <<y, z>>[2] = z
         /\ \A t \in Texts : Len(t) = 1 => t = <<t[1]>>
         /\ \A t \in Texts : Len(t) = 2 => t = <<t[1], t[2]>>
<1>1. /\ <<z>> \in Texts /\ Len(<<z>>) = 1 /\ <<z>>[1] = z
      /\ <<y, z>> \in Texts /\ Len(<<y, z>>) = 2 /\ <<y, z>>[1] = y /\ <<y, z>>[2] = z
  BY DEF Texts
<1>2. ASSUME NEW t \in Texts, Len(t) = 1 PROVE t = <<t[1]>>
  <2>1. t[1] \in Bytes
    <3>1. 1 \in 1..Len(t)
      BY <1>2
    <3> QED
      BY <3>1, TextFacts
  <2>2. <<t[1]>> \in Texts /\ Len(<<t[1]>>) = 1 /\ <<t[1]>>[1] = t[1]
    BY <2>1 DEF Texts
  <2>3. \A d \in 1..Len(t) : t[d] = <<t[1]>>[d]
    BY <1>2, <2>2
  <2> QED
    BY <1>2, <2>2, <2>3, SameText
<1>3. ASSUME NEW t \in Texts, Len(t) = 2 PROVE t = <<t[1], t[2]>>
  <2>1. t[1] \in Bytes /\ t[2] \in Bytes
    BY <1>3, TextFacts
  <2> DEFINE s == <<t[1], t[2]>>
  <2>2. s \in Texts /\ Len(s) = 2 /\ s[1] = t[1] /\ s[2] = t[2]
    BY <2>1 DEF Texts
  <2> HIDE DEF s
  <2>3. \A d \in 1..Len(t) : t[d] = s[d]
    BY <1>3, <2>2
  <2>4. t = s
    BY <1>3, <2>2, <2>3, SameText
  <2> QED
    BY <2>4 DEF s
<1> QED
  BY <1>1, <1>2, <1>3

LEMMA Assoc ==
  ASSUME NEW s \in Texts, NEW t \in Texts, NEW u \in Texts
  PROVE  (s \o t) \o u = s \o (t \o u)
BY ConcatAssociative DEF Texts

\* The front of a text put together
LEMMA UptoJoined ==
  ASSUME NEW s \in Texts, NEW t \in Texts
  PROVE  /\ \A n \in 0..Len(s) : Upto(s \o t, n) = Upto(s, n)
         /\ \A n \in 0..Len(t) : Upto(s \o t, Len(s) + n) = s \o Upto(t, n)
         /\ Piece(s \o t, Len(s), Len(s \o t)) = t
<1>0. /\ s \o t \in Texts /\ Len(s \o t) = Len(s) + Len(t)
      /\ Len(s) \in Nat /\ Len(t) \in Nat
      /\ \A d \in 1..Len(s) : (s \o t)[d] = s[d]
      /\ \A d \in 1..Len(t) : (s \o t)[Len(s) + d] = t[d]
  BY Joined
<1> HIDE DEF Texts
<1>1. ASSUME NEW n \in 0..Len(s) PROVE Upto(s \o t, n) = Upto(s, n)
  <2>1. n \in 0..Len(s \o t)
    BY <1>0
  <2>2. /\ Upto(s \o t, n) \in Texts /\ Len(Upto(s \o t, n)) = n
        /\ \A d \in 1..n : Upto(s \o t, n)[d] = (s \o t)[d]
    BY <1>0, <2>1, UptoFacts
  <2>3. /\ Upto(s, n) \in Texts /\ Len(Upto(s, n)) = n
        /\ \A d \in 1..n : Upto(s, n)[d] = s[d]
    BY <1>0, UptoFacts
  <2>4. \A d \in 1..n : Upto(s \o t, n)[d] = Upto(s, n)[d]
    BY <1>0, <2>2, <2>3
  <2> QED
    BY <2>2, <2>3, <2>4, SameText
<1>2. ASSUME NEW n \in 0..Len(t) PROVE Upto(s \o t, Len(s) + n) = s \o Upto(t, n)
  <2>1. Len(s) + n \in 0..Len(s \o t)
    BY <1>0
  <2>2. /\ Upto(s \o t, Len(s) + n) \in Texts /\ Len(Upto(s \o t, Len(s) + n)) = Len(s) + n
        /\ \A d \in 1..(Len(s) + n) : Upto(s \o t, Len(s) + n)[d] = (s \o t)[d]
    BY <1>0, <2>1, UptoFacts
  <2>3. /\ Upto(t, n) \in Texts /\ Len(Upto(t, n)) = n
        /\ \A d \in 1..n : Upto(t, n)[d] = t[d]
    BY <1>0, UptoFacts
  <2>4. /\ s \o Upto(t, n) \in Texts /\ Len(s \o Upto(t, n)) = Len(s) + n
        /\ \A d \in 1..Len(s) : (s \o Upto(t, n))[d] = s[d]
        /\ \A d \in 1..n : (s \o Upto(t, n))[Len(s) + d] = Upto(t, n)[d]
    <3> DEFINE v == Upto(t, n)
    <3>1. /\ s \o v \in Texts /\ Len(s \o v) = Len(s) + Len(v)
          /\ \A d \in 1..Len(s) : (s \o v)[d] = s[d]
          /\ \A d \in 1..Len(v) : (s \o v)[Len(s) + d] = v[d]
      BY <2>3, Joined
    <3>2. Len(v) = n
      BY <2>3
    <3> HIDE DEF v
    <3>3. /\ s \o v \in Texts /\ Len(s \o v) = Len(s) + n
          /\ \A d \in 1..Len(s) : (s \o v)[d] = s[d]
          /\ \A d \in 1..n : (s \o v)[Len(s) + d] = v[d]
      BY <3>1, <3>2
    <3> QED
      BY <3>3 DEF v
  <2>5. ASSUME NEW d \in 1..(Len(s) + n) PROVE Upto(s \o t, Len(s) + n)[d] = (s \o Upto(t, n))[d]
    <3>1. CASE d <= Len(s)
      <4>1. d \in 1..Len(s)
        BY <1>0, <3>1
      <4> QED
        BY <1>0, <2>2, <2>4, <4>1
    <3>2. CASE ~(d <= Len(s))
      <4>1. d - Len(s) \in 1..n /\ d - Len(s) \in 1..Len(t) /\ Len(s) + (d - Len(s)) = d
        BY <1>0, <3>2
      <4>2. (s \o t)[Len(s) + (d - Len(s))] = t[d - Len(s)]
        BY <1>0, <4>1
      <4>3. (s \o Upto(t, n))[Len(s) + (d - Len(s))] = Upto(t, n)[d - Len(s)]
        BY <2>4, <4>1
      <4> QED
        BY <2>2, <2>3, <4>1, <4>2, <4>3
    <3> QED
      BY <3>1, <3>2
  <2> QED
    BY <2>2, <2>4, <2>5, SameText
<1>3. Piece(s \o t, Len(s), Len(s \o t)) = t
  <2>1. Len(s \o t) \in Len(s)..Len(s \o t)
    BY <1>0
  <2>2. /\ Piece(s \o t, Len(s), Len(s \o t)) \in Texts
        /\ Len(Piece(s \o t, Len(s), Len(s \o t))) = Len(s \o t) - Len(s)
        /\ \A d \in 1..(Len(s \o t) - Len(s)) :
             Piece(s \o t, Len(s), Len(s \o t))[d] = (s \o t)[Len(s) + d]
    BY <1>0, <2>1, PieceFacts
  <2>3. Len(s \o t) - Len(s) = Len(t)
    BY <1>0
  <2> QED
    BY <1>0, <2>2, <2>3, SameText
<1> QED
  BY <1>1, <1>2, <1>3

-----------------------------------------------------------------------------
(* Functions defined by recursion, and decoding                            *)

LEMMA TextRecursion ==
  ASSUME NEW n \in Nat, NEW a \in Texts, NEW G \in [1..n -> [Texts -> Texts]]
  PROVE  \E f \in [0..n -> Texts] : f[0] = a /\ \A k \in 1..n : f[k] = G[k][f[k - 1]]
<1> DEFINE Good == {m \in 0..n : \E f \in [0..m -> Texts] :
                      f[0] = a /\ \A k \in 1..m : f[k] = G[k][f[k - 1]]}
<1>1. 0 \in Good
  <2> DEFINE f == [k \in 0..0 |-> a]
  <2>1. f \in [0..0 -> Texts] /\ f[0] = a /\ \A k \in 1..0 : f[k] = G[k][f[k - 1]]
    OBVIOUS
  <2> HIDE DEF f
  <2> QED
    BY <2>1
<1>2. ASSUME NEW m \in 0..(n - 1), m \in Good
      PROVE  m + 1 \in Good
  <2>1. PICK f \in [0..m -> Texts] : f[0] = a /\ \A k \in 1..m : f[k] = G[k][f[k - 1]]
    BY <1>2
  <2> DEFINE g == [k \in 0..(m + 1) |-> IF k <= m THEN f[k] ELSE G[m + 1][f[m]]]
  <2>2. f[m] \in Texts /\ m + 1 \in 1..n
    BY <2>1
  <2>3. G[m + 1][f[m]] \in Texts
    BY <2>2
  <2>4. g \in [0..(m + 1) -> Texts]
    BY <2>1, <2>3
  <2>5. /\ \A k \in 0..m : g[k] = f[k]
        /\ g[m + 1] = G[m + 1][f[m]]
    OBVIOUS
  <2> HIDE DEF g
  <2>6. ASSUME NEW k \in 1..(m + 1) PROVE g[k] = G[k][g[k - 1]]
    <3>1. CASE k = m + 1
      <4>1. k - 1 = m /\ g[m] = f[m]
        BY <2>5, <3>1
      <4> QED
        BY <2>5, <3>1, <4>1
    <3>2. CASE k # m + 1
      <4>1. k \in 1..m /\ k - 1 \in 0..m /\ k \in 0..m
        BY <3>2
      <4> QED
        BY <2>1, <2>5, <4>1
    <3> QED
      BY <3>1, <3>2
  <2>7. g[0] = a
    BY <2>1, <2>5
  <2> QED
    BY <2>2, <2>4, <2>6, <2>7
<1> HIDE DEF Good
<1>3. \A m \in 0..n : m \in Good
  BY <1>1, <1>2, AllNumbers
<1>4. n \in Good
  BY <1>3
<1> QED
  BY <1>4 DEF Good

\* Every byte belongs to a whole character; every byte but the last one does.
Whole(text) == \A d \in 1..Len(text) : InCharacter(text, d)
Unbroken(text) == \A d \in 1..(Len(text) - 1) : InCharacter(text, d)

LEMMA PickedSteps ==
  ASSUME NEW bytes \in Texts, NEW K
  PROVE  \E kept \in [0..Len(bytes) -> Texts] :
           /\ kept[0] = <<>> /\ kept[Len(bytes)] = Picked(bytes, K)
           /\ \A d \in 1..Len(bytes) :
                kept[d] = IF d \in K THEN Append(kept[d - 1], bytes[d]) ELSE kept[d - 1]
<1> DEFINE n == Len(bytes)
           Step(d, t) == IF d \in K THEN Append(t, bytes[d]) ELSE t
           Is(f) == f = [d \in 0..n |-> IF d = 0 THEN <<>>
                                        ELSE IF d \in K
                                             THEN Append(f[d - 1], bytes[d]) ELSE f[d - 1]]
           G == [d \in 1..n |-> [t \in Texts |-> Step(d, t)]]
<1>1. n \in Nat /\ <<>> \in Texts
  BY TextFacts, EmptyText
<1>2. ASSUME NEW d \in 1..n, NEW t \in Texts PROVE Step(d, t) \in Texts
  BY <1>1, TextFacts, AppendProperties DEF Texts
<1>3. G \in [1..n -> [Texts -> Texts]]
  BY <1>2, Zenon
<1>4. PICK f \in [0..n -> Texts] : f[0] = <<>> /\ \A k \in 1..n : f[k] = G[k][f[k - 1]]
  <2> HIDE DEF G, n
  <2> QED
    BY <1>1, <1>3, TextRecursion
<1>5. ASSUME NEW d \in 1..n PROVE f[d] = Step(d, f[d - 1])
  <2>1. d - 1 \in 0..n
    BY <1>1
  <2>2. f[d - 1] \in Texts
    BY <1>4, <2>1
  <2>3. G[d][f[d - 1]] = Step(d, f[d - 1])
    BY <2>2, Zenon
  <2> QED
    BY <1>4, <2>3
<1>6. Is(f)
  <2> DEFINE g == [d \in 0..n |-> IF d = 0 THEN <<>> ELSE Step(d, f[d - 1])]
  <2>1. ASSUME NEW d \in 0..n PROVE f[d] = g[d]
    <3>1. CASE d = 0
      BY <1>4, <3>1
    <3>2. CASE d # 0
      <4>1. d \in 1..n
        BY <1>1, <3>2
      <4>2. f[d] = Step(d, f[d - 1])
        BY <1>5, <4>1
      <4>3. g[d] = Step(d, f[d - 1])
        BY <3>2, Zenon
      <4> QED
        BY <4>2, <4>3, Zenon
    <3> QED
      BY <3>1, <3>2
  <2> HIDE DEF Step
  <2>2. f = g
    BY <1>4, <2>1, Zenon
  <2> QED
    BY <2>2, Zenon DEF Step
<1> DEFINE kept == CHOOSE h : Is(h)
<1>7. Is(kept)
  BY <1>6, Zenon
<1>8. Picked(bytes, K) = kept[n]
  BY Zenon DEF Picked
<1> HIDE DEF kept
<1>9. /\ kept[0] = <<>>
      /\ \A d \in 1..n : kept[d] = Step(d, kept[d - 1])
      /\ DOMAIN kept = 0..n /\ kept = [d \in 0..n |-> kept[d]]
  <2> DEFINE g == [d \in 0..n |-> IF d = 0 THEN <<>> ELSE Step(d, kept[d - 1])]
  <2>1. kept = g
    BY <1>7, Zenon
  <2>2. g[0] = <<>>
    BY <1>1
  <2>3. ASSUME NEW d \in 1..n PROVE g[d] = Step(d, kept[d - 1])
    <3>1. d \in 0..n /\ d # 0
      BY <1>1
    <3> QED
      BY <3>1, Zenon
  <2>4. DOMAIN g = 0..n /\ g = [d \in 0..n |-> g[d]]
    BY Zenon
  <2> HIDE DEF g, Step
  <2> QED
    BY <2>1, <2>2, <2>3, <2>4, Zenon
<1>10. \A d \in 0..n : kept[d] \in Texts
  <2> DEFINE Good == {d \in 0..n : kept[d] \in Texts}
  <2>1. 0 \in Good
    BY <1>1, <1>9
  <2>2. ASSUME NEW d \in 0..(n - 1), d \in Good PROVE d + 1 \in Good
    <3>1. d + 1 \in 1..n /\ d + 1 \in 0..n /\ (d + 1) - 1 = d /\ kept[d] \in Texts
      BY <1>1, <2>2
    <3>2. kept[d + 1] = Step(d + 1, kept[(d + 1) - 1])
      BY <1>9, <3>1, Zenon
    <3>3. kept[d + 1] = Step(d + 1, kept[d])
      BY <3>1, <3>2
    <3>4. Step(d + 1, kept[d]) \in Texts
      BY <1>2, <3>1, Zenon
    <3> QED
      BY <3>1, <3>3, <3>4, Zenon
  <2> HIDE DEF Good, Step
  <2>3. \A d \in 0..n : d \in Good
    BY <1>1, <2>1, <2>2, AllNumbers
  <2> QED
    BY <2>3 DEF Good
<1>11. kept \in [0..n -> Texts]
  BY <1>9, <1>10, Zenon
<1> QED
  BY <1>8, <1>9, <1>11, Zenon

LEMMA DecodeSteps ==
  ASSUME NEW bytes \in Texts
  PROVE  \E kept \in [0..Len(bytes) -> Texts] :
           /\ kept[0] = <<>> /\ kept[Len(bytes)] = Decode(bytes)
           /\ \A d \in 1..Len(bytes) :
                kept[d] = IF InCharacter(bytes, d) THEN Append(kept[d - 1], bytes[d])
                          ELSE kept[d - 1]
<1>1. PICK kept \in [0..Len(bytes) -> Texts] :
        /\ kept[0] = <<>> /\ kept[Len(bytes)] = Picked(bytes, Readable(bytes))
        /\ \A d \in 1..Len(bytes) :
             kept[d] = IF d \in Readable(bytes) THEN Append(kept[d - 1], bytes[d])
                       ELSE kept[d - 1]
  BY PickedSteps
<1>2. \A d \in 1..Len(bytes) : d \in Readable(bytes) <=> InCharacter(bytes, d)
  BY TextFacts DEF Readable
<1> QED
  BY <1>1, <1>2, Zenon DEF Decode

\* What is decoded, when the front up to m consists of characters and nothing behind
LEMMA DecodeFront ==
  ASSUME NEW bytes \in Texts, NEW m \in 0..Len(bytes),
         \A d \in 1..Len(bytes) : InCharacter(bytes, d) <=> d <= m
  PROVE  Decode(bytes) = Upto(bytes, m)
<1> DEFINE n == Len(bytes)
<1>1. PICK kept \in [0..Len(bytes) -> Texts] :
           /\ kept[0] = <<>> /\ kept[Len(bytes)] = Decode(bytes)
           /\ \A d \in 1..Len(bytes) :
                kept[d] = IF InCharacter(bytes, d) THEN Append(kept[d - 1], bytes[d])
                          ELSE kept[d - 1]
  BY DecodeSteps
<1>2. n \in Nat
  BY TextFacts
<1> DEFINE Good == {d \in 0..n : kept[d] = Upto(bytes, IF d <= m THEN d ELSE m)}
<1>3. 0 \in Good
  <2>1. Upto(bytes, 0) = <<>>
    BY SubSeqEmpty DEF Upto
  <2> QED
    BY <1>1, <1>2, <2>1
<1>4. ASSUME NEW d \in 0..(n - 1), d \in Good PROVE d + 1 \in Good
  <2>1. d + 1 \in 1..n /\ d + 1 \in 0..n /\ (d + 1) - 1 = d
    BY <1>2
  <2>2. kept[d + 1] = IF InCharacter(bytes, d + 1) THEN Append(kept[d], bytes[d + 1])
                      ELSE kept[d]
    BY <1>1, <2>1
  <2>3. CASE d + 1 <= m
    <3>1. kept[d + 1] = Append(Upto(bytes, d), bytes[d + 1])
      BY <1>2, <1>4, <2>1, <2>2, <2>3
    <3>2. Upto(bytes, d + 1) = Upto(bytes, d) \o <<bytes[d + 1]>>
      <4>1. SubSeq(bytes, 1, d + 1) = SubSeq(bytes, 1, (d + 1) - 1) \o <<bytes[d + 1]>>
        BY <1>2, <2>1, SubSeqRecursiveSecond DEF Texts
      <4> QED
        BY <2>1, <4>1 DEF Upto
    <3>3. Append(Upto(bytes, d), bytes[d + 1]) = Upto(bytes, d) \o <<bytes[d + 1]>>
      <4>1. Upto(bytes, d) \in Texts /\ bytes[d + 1] \in Bytes
        BY <1>2, <2>1, UptoFacts, TextFacts
      <4> QED
        BY <4>1, AppendIsConcat DEF Texts
    <3> QED
      BY <2>1, <2>3, <3>1, <3>2, <3>3
  <2>4. CASE ~(d + 1 <= m)
    <3>1. kept[d + 1] = kept[d] /\ (IF d <= m THEN d ELSE m) = m
      BY <1>2, <2>1, <2>2, <2>4
    <3> QED
      BY <1>4, <2>1, <2>4, <3>1
  <2> QED
    BY <2>3, <2>4
<1> HIDE DEF Good
<1>5. \A d \in 0..n : d \in Good
  BY <1>2, <1>3, <1>4, AllNumbers
<1>6. kept[n] = Upto(bytes, IF n <= m THEN n ELSE m) /\ (IF n <= m THEN n ELSE m) = m
  BY <1>2, <1>5 DEF Good
<1> QED
  BY <1>1, <1>6

-----------------------------------------------------------------------------
(* Whole and broken characters                                             *)

LEMMA InFront ==
  ASSUME NEW text \in Texts, NEW n \in 0..Len(text), NEW d \in 1..(n - 1)
  PROVE  InCharacter(Upto(text, n), d) <=> InCharacter(text, d)
<1>1. Len(text) \in Nat /\ n \in Nat /\ d \in Nat /\ d < n
  BY TextFacts
<1>2. Len(Upto(text, n)) = n /\ \A e \in 1..n : Upto(text, n)[e] = text[e]
  BY UptoFacts
<1>3. Upto(text, n)[d] = text[d] /\ Upto(text, n)[d + 1] = text[d + 1]
  BY <1>1, <1>2
<1>4. d > 1 => Upto(text, n)[d - 1] = text[d - 1]
  BY <1>1, <1>2
<1>5. d < Len(Upto(text, n)) /\ d < Len(text)
  BY <1>1, <1>2
<1> QED
  BY <1>3, <1>4, <1>5 DEF InCharacter

LEMMA UnbrokenFront ==
  ASSUME NEW text \in Texts, NEW n \in 0..Len(text), Unbroken(text)
  PROVE  Unbroken(Upto(text, n))
<1>1. Len(text) \in Nat /\ Len(Upto(text, n)) = n
  BY TextFacts, UptoFacts
<1>2. ASSUME NEW d \in 1..(n - 1) PROVE InCharacter(Upto(text, n), d)
  <2>1. d \in 1..(Len(text) - 1)
    BY <1>1
  <2>2. InCharacter(text, d)
    BY <2>1 DEF Unbroken
  <2> QED
    BY <2>2, InFront
<1> QED
  BY <1>1, <1>2 DEF Unbroken

\* A text of whole characters changes nothing for what follows it.
LEMMA WholeBefore ==
  ASSUME NEW s \in Texts, NEW t \in Texts, Whole(s)
  PROVE  /\ \A d \in 1..Len(s) : InCharacter(s \o t, d)
         /\ \A d \in 1..Len(t) : InCharacter(s \o t, Len(s) + d) <=> InCharacter(t, d)
<1>1. /\ s \o t \in Texts /\ Len(s \o t) = Len(s) + Len(t)
      /\ Len(s) \in Nat /\ Len(t) \in Nat
      /\ \A d \in 1..Len(s) : (s \o t)[d] = s[d]
      /\ \A d \in 1..Len(t) : (s \o t)[Len(s) + d] = t[d]
  BY Joined
<1>2. ASSUME NEW d \in 1..Len(s) PROVE InCharacter(s \o t, d)
  <2>1. InCharacter(s, d) /\ (s \o t)[d] = s[d]
    BY <1>1 DEF Whole
  <2>2. d < Len(s) => d < Len(s \o t) /\ (s \o t)[d + 1] = s[d + 1]
    BY <1>1
  <2>3. d > 1 => (s \o t)[d - 1] = s[d - 1]
    BY <1>1
  <2> QED
    BY <2>1, <2>2, <2>3 DEF InCharacter
<1>3. ASSUME NEW d \in 1..Len(t)
      PROVE  InCharacter(s \o t, Len(s) + d) <=> InCharacter(t, d)
  <2> DEFINE c == Len(s) + d
  <2>0. c = Len(s) + d /\ c \in Nat /\ d \in Nat
    BY <1>1
  <2>1. (s \o t)[c] = t[d]
    BY <1>1
  <2>2. c < Len(s \o t) <=> d < Len(t)
    BY <1>1
  <2>3. d < Len(t) => (s \o t)[c + 1] = t[d + 1]
    <3>1. d < Len(t) => d + 1 \in 1..Len(t) /\ Len(s) + (d + 1) = c + 1
      BY <1>1
    <3> QED
      BY <1>1, <3>1
  <2> HIDE DEF c
  <2>4. CASE d > 1
    <3>1. d - 1 \in 1..Len(t) /\ Len(s) + (d - 1) = c - 1 /\ c > 1
      BY <1>1, <2>0, <2>4
    <3>2. (s \o t)[c - 1] = t[d - 1]
      BY <1>1, <3>1
    <3> QED
      BY <2>0, <2>1, <2>2, <2>3, <2>4, <3>1, <3>2 DEF InCharacter
  <2>5. CASE d = 1 /\ Len(s) > 0
    <3>1. c - 1 = Len(s) /\ c > 1 /\ Len(s) \in 1..Len(s)
      BY <1>1, <2>0, <2>5
    <3>2. InCharacter(s, Len(s)) /\ ~(Len(s) < Len(s))
      BY <1>1, <3>1 DEF Whole
    <3>3. s[Len(s)] # Lead
      BY <3>2, TokensAssumption DEF InCharacter
    <3>4. (s \o t)[c - 1] # Lead
      BY <1>1, <3>1, <3>3
    <3>5. ~(d > 1)
      BY <2>5
    <3> QED
      BY <2>0, <2>1, <2>2, <2>3, <3>1, <3>4, <3>5 DEF InCharacter
  <2>6. CASE d = 1 /\ Len(s) = 0
    <3>1. ~(c > 1) /\ ~(d > 1)
      BY <1>1, <2>0, <2>6
    <3> QED
      BY <2>0, <2>1, <2>2, <2>3, <3>1 DEF InCharacter
  <2> QED
    BY <1>1, <2>4, <2>5, <2>6
<1> QED
  BY <1>2, <1>3

LEMMA WholeJoined ==
  ASSUME NEW s \in Texts, NEW t \in Texts, Whole(s)
  PROVE  /\ Whole(t) => Whole(s \o t)
         /\ Unbroken(s \o t) => Unbroken(t)
<1>1. Len(s \o t) = Len(s) + Len(t) /\ Len(s) \in Nat /\ Len(t) \in Nat
  BY Joined
<1>2. /\ \A d \in 1..Len(s) : InCharacter(s \o t, d)
      /\ \A d \in 1..Len(t) : InCharacter(s \o t, Len(s) + d) <=> InCharacter(t, d)
  BY WholeBefore
<1>3. ASSUME Whole(t), NEW d \in 1..Len(s \o t) PROVE InCharacter(s \o t, d)
  <2>1. CASE d <= Len(s)
    BY <1>1, <1>2, <2>1
  <2>2. CASE ~(d <= Len(s))
    <3>1. d - Len(s) \in 1..Len(t) /\ Len(s) + (d - Len(s)) = d
      BY <1>1, <2>2
    <3>2. InCharacter(t, d - Len(s))
      BY <1>3, <3>1 DEF Whole
    <3>3. InCharacter(s \o t, Len(s) + (d - Len(s)))
      BY <1>2, <3>1, <3>2
    <3> QED
      BY <3>1, <3>3
  <2> QED
    BY <2>1, <2>2
<1>4. ASSUME Unbroken(s \o t), NEW d \in 1..(Len(t) - 1) PROVE InCharacter(t, d)
  <2>1. Len(s) + d \in 1..(Len(s \o t) - 1) /\ d \in 1..Len(t)
    BY <1>1
  <2>2. InCharacter(s \o t, Len(s) + d)
    BY <1>4, <2>1 DEF Unbroken
  <2> QED
    BY <1>2, <2>1, <2>2
<1> QED
  BY <1>3, <1>4 DEF Whole, Unbroken

LEMMA DecodeWhole ==
  ASSUME NEW text \in Texts, Whole(text)
  PROVE  Decode(text) = text
<1>1. Len(text) \in Nat
  BY TextFacts
<1>2. \A d \in 1..Len(text) : InCharacter(text, d) <=> d <= Len(text)
  BY <1>1 DEF Whole
<1>3. Len(text) \in 0..Len(text)
  BY <1>1
<1> QED
  BY <1>2, <1>3, DecodeFront, UptoAll

\* The end of a text whose last character is broken
Broken(text) == text # <<>> /\ ~InCharacter(text, Len(text))

LEMMA DecodeBroken ==
  ASSUME NEW text \in Texts, Unbroken(text), Broken(text)
  PROVE  /\ Len(text) \in Nat /\ Len(text) >= 1
         /\ Decode(text) = Upto(text, Len(text) - 1)
         /\ text[Len(text)] \in {Lead, Cont}
         /\ Whole(Upto(text, Len(text) - 1))
<1>1. Len(text) \in Nat /\ Len(text) >= 1
  BY TextFacts, EmptyText DEF Broken
<1>2. Len(text) - 1 \in 0..Len(text)
  BY <1>1
<1>3. ASSUME NEW d \in 1..Len(text)
      PROVE  InCharacter(text, d) <=> d <= Len(text) - 1
  <2>1. CASE d = Len(text)
    BY <1>1, <2>1 DEF Broken
  <2>2. CASE d # Len(text)
    <3>1. d \in 1..(Len(text) - 1)
      BY <1>1, <2>2
    <3> QED
      BY <1>1, <3>1 DEF Unbroken
  <2> QED
    BY <2>1, <2>2
<1>4. Decode(text) = Upto(text, Len(text) - 1)
  BY <1>2, <1>3, DecodeFront
<1>5. text[Len(text)] \in {Lead, Cont}
  BY DEF Broken, InCharacter
<1>6. Whole(Upto(text, Len(text) - 1))
  <2> DEFINE front == Upto(text, Len(text) - 1)
             n == Len(text) - 1
  <2>1. Len(front) = n /\ \A e \in 1..n : front[e] = text[e]
    BY <1>2, UptoFacts
  <2>2. n > 0 => text[n + 1] # Cont \/ text[n] # Lead
    BY <1>1 DEF Broken, InCharacter
  <2>3. ASSUME NEW d \in 1..n PROVE InCharacter(front, d)
    <3>1. InCharacter(text, d)
      BY <1>1 DEF Unbroken
    <3>2. CASE d \in 1..(n - 1)
      BY <1>2, <3>1, <3>2, InFront
    <3>3. CASE d = n
      <4>1. front[d] = text[d] /\ (text[d + 1] # Cont \/ text[d] # Lead)
        BY <1>1, <2>1, <2>2, <3>3
      <4>2. d > 1 => front[d - 1] = text[d - 1]
        BY <1>1, <2>1
      <4> HIDE DEF front
      <4> QED
        BY <3>1, <4>1, <4>2 DEF InCharacter
    <3> QED
      BY <1>1, <3>2, <3>3
  <2> QED
    BY <2>1, <2>3 DEF Whole
<1> QED
  BY <1>1, <1>4, <1>5, <1>6

-----------------------------------------------------------------------------
(* What is left of a text whose characters are split                       *)

LEMMA AppendJoined ==
  ASSUME NEW s \in Texts, NEW t \in Texts, NEW z \in Bytes
  PROVE  Append(s \o t, z) = s \o Append(t, z)
<1>1. /\ s \o t \in Texts /\ <<z>> \in Texts
  BY Joined, ShortTexts
<1>2. Append(s \o t, z) = (s \o t) \o <<z>> /\ Append(t, z) = t \o <<z>>
  BY <1>1, AppendIsConcat DEF Texts
<1>3. (s \o t) \o <<z>> = s \o (t \o <<z>>)
  BY <1>1, Assoc
<1> QED
  BY <1>2, <1>3

\* What is picked from two texts put together
LEMMA PickedJoined ==
  ASSUME NEW s \in Texts, NEW t \in Texts, NEW K, NEW L, NEW M,
         \A d \in 1..Len(s) : d \in K <=> d \in L,
         \A d \in 1..Len(t) : Len(s) + d \in K <=> d \in M
  PROVE  /\ Picked(s, L) \in Texts /\ Picked(t, M) \in Texts
         /\ Picked(s \o t, K) = Picked(s, L) \o Picked(t, M)
<1> DEFINE m == Len(s)
           n == Len(t)
           text == s \o t
<1>1. /\ m \in Nat /\ n \in Nat /\ text \in Texts /\ Len(text) = m + n
      /\ \A d \in 1..m : text[d] = s[d] /\ s[d] \in Bytes
      /\ \A d \in 1..n : text[m + d] = t[d] /\ t[d] \in Bytes
  BY Joined, TextFacts
<1>2. PICK left \in [0..m -> Texts] :
        /\ left[0] = <<>> /\ left[m] = Picked(s, L)
        /\ \A d \in 1..m : left[d] = IF d \in L THEN Append(left[d - 1], s[d]) ELSE left[d - 1]
  BY PickedSteps
<1>3. PICK right \in [0..n -> Texts] :
        /\ right[0] = <<>> /\ right[n] = Picked(t, M)
        /\ \A d \in 1..n : right[d] = IF d \in M THEN Append(right[d - 1], t[d])
                                      ELSE right[d - 1]
  BY PickedSteps
<1> HIDE DEF text
<1>4. PICK both \in [0..Len(text) -> Texts] :
        /\ both[0] = <<>> /\ both[Len(text)] = Picked(text, K)
        /\ \A d \in 1..Len(text) : both[d] = IF d \in K THEN Append(both[d - 1], text[d])
                                             ELSE both[d - 1]
  BY <1>1, PickedSteps
<1> HIDE DEF m, n
<1> DEFINE front == Picked(s, L)
           Same == {d \in 0..m : both[d] = left[d]}
           Behind == {d \in 0..n : both[m + d] = front \o right[d]}
<1>5. \A d \in 0..m : d \in Same
  <2>1. 0 \in Same
    BY <1>1, <1>2, <1>4
  <2>2. ASSUME NEW d \in 0..(m - 1), d \in Same PROVE d + 1 \in Same
    <3>1. d + 1 \in 1..m /\ d + 1 \in 1..(m + n) /\ (d + 1) - 1 = d /\ d + 1 \in 0..m
      BY <1>1
    <3>2. text[d + 1] = s[d + 1] /\ (d + 1 \in K <=> d + 1 \in L) /\ both[d] = left[d]
      BY <1>1, <2>2, <3>1 DEF m
    <3>3. both[d + 1] = IF d + 1 \in K THEN Append(both[d], text[d + 1]) ELSE both[d]
      <4>1. both[d + 1] = IF d + 1 \in K THEN Append(both[(d + 1) - 1], text[d + 1])
                          ELSE both[(d + 1) - 1]
        BY <1>1, <1>4, <3>1
      <4> QED
        BY <3>1, <4>1
    <3>4. left[d + 1] = IF d + 1 \in L THEN Append(left[d], s[d + 1]) ELSE left[d]
      <4>1. left[d + 1] = IF d + 1 \in L THEN Append(left[(d + 1) - 1], s[d + 1])
                          ELSE left[(d + 1) - 1]
        BY <1>2, <3>1
      <4> QED
        BY <3>1, <4>1
    <3> QED
      BY <3>1, <3>2, <3>3, <3>4
  <2> HIDE DEF Same
  <2> QED
    BY <1>1, <2>1, <2>2, AllNumbers
<1>6. front \in Texts /\ both[m] = front
  <2>1. m \in 0..m
    BY <1>1
  <2>2. both[m] = left[m] /\ left[m] \in Texts
    BY <1>2, <1>5, <2>1
  <2> QED
    BY <1>2, <2>2
<1> HIDE DEF front
<1>7. \A d \in 0..n : d \in Behind
  <2>1. 0 \in Behind
    <3>1. m + 0 = m /\ 0 \in 0..n /\ front \o <<>> = front
      BY <1>1, <1>6, EmptyText
    <3> QED
      BY <1>3, <1>6, <3>1
  <2>2. ASSUME NEW d \in 0..(n - 1), d \in Behind PROVE d + 1 \in Behind
    <3>1. /\ d + 1 \in 1..n /\ m + (d + 1) \in 1..(m + n) /\ (d + 1) - 1 = d /\ d + 1 \in 0..n
          /\ (m + (d + 1)) - 1 = m + d /\ d \in 0..n
      BY <1>1
    <3>2. /\ text[m + (d + 1)] = t[d + 1] /\ t[d + 1] \in Bytes
          /\ (m + (d + 1) \in K <=> d + 1 \in M) /\ both[m + d] = front \o right[d]
          /\ right[d] \in Texts
      BY <1>1, <1>3, <2>2, <3>1 DEF m, n
    <3>3. both[m + (d + 1)] = IF m + (d + 1) \in K THEN Append(both[m + d], text[m + (d + 1)])
                              ELSE both[m + d]
      <4> DEFINE e == m + (d + 1)
      <4>1. e \in 1..Len(text) /\ e - 1 = m + d
        BY <1>1, <3>1
      <4> HIDE DEF e
      <4>2. both[e] = IF e \in K THEN Append(both[e - 1], text[e]) ELSE both[e - 1]
        BY <1>4, <4>1
      <4>3. both[e] = IF e \in K THEN Append(both[m + d], text[e]) ELSE both[m + d]
        BY <4>1, <4>2
      <4> QED
        BY <4>3 DEF e
    <3>4. right[d + 1] = IF d + 1 \in M THEN Append(right[d], t[d + 1]) ELSE right[d]
      <4>1. right[d + 1] = IF d + 1 \in M THEN Append(right[(d + 1) - 1], t[d + 1])
                           ELSE right[(d + 1) - 1]
        BY <1>3, <3>1
      <4> QED
        BY <3>1, <4>1
    <3>5. Append(front \o right[d], t[d + 1]) = front \o Append(right[d], t[d + 1])
      BY <1>6, <3>2, AppendJoined
    <3>6. both[m + (d + 1)] = front \o right[d + 1]
      <4>1. CASE d + 1 \in M
        BY <3>2, <3>3, <3>4, <3>5, <4>1
      <4>2. CASE d + 1 \notin M
        BY <3>2, <3>3, <3>4, <4>2
      <4> QED
        BY <4>1, <4>2
    <3> QED
      BY <3>1, <3>6
  <2> HIDE DEF Behind
  <2> QED
    BY <1>1, <2>1, <2>2, AllNumbers
<1>8. both[m + n] = front \o right[n] /\ right[n] \in Texts
  <2>1. n \in 0..n
    BY <1>1
  <2>2. n \in Behind
    BY <1>7, <2>1
  <2> QED
    BY <1>3, <2>1, <2>2
<1>9. Picked(text, K) = front \o Picked(t, M)
  BY <1>1, <1>3, <1>4, <1>8
<1>10. Picked(t, M) \in Texts
  BY <1>3, <1>8
<1> QED
  BY <1>6, <1>9, <1>10 DEF front, text

\* Byte d belongs to a whole character that is not split at a place of B.
InPieces(bytes, B, d) ==
  \/ bytes[d] \notin {Lead, Cont}
  \/ bytes[d] = Lead /\ d < Len(bytes) /\ bytes[d + 1] = Cont /\ d \notin B
  \/ bytes[d] = Cont /\ d > 1 /\ bytes[d - 1] = Lead /\ d - 1 \notin B

\* What is decoded when the text is cut at the places of B
Pieces(bytes, B) == {d \in 1..Len(bytes) : InPieces(bytes, B, d)}
Remains(bytes, B) == Picked(bytes, Pieces(bytes, B))

LEMMA RemainsJoined ==
  ASSUME NEW u \in Texts, NEW v \in Texts, NEW B \in SUBSET (0..Len(u)), Len(u) \in B
  PROVE  /\ Remains(u, B) \in Texts /\ Decode(v) \in Texts
         /\ Remains(u \o v, B) = Remains(u, B) \o Decode(v)
<1> DEFINE c == Len(u)
           text == u \o v
<1>1. /\ c \in Nat /\ Len(v) \in Nat /\ text \in Texts /\ Len(text) = c + Len(v)
      /\ \A d \in 1..c : text[d] = u[d]
      /\ \A d \in 1..Len(v) : text[c + d] = v[d]
      /\ DOMAIN v = 1..Len(v)
  BY Joined, TextFacts
<1>2. ASSUME NEW d \in 1..c PROVE d \in Pieces(text, B) <=> d \in Pieces(u, B)
  <2>1. d \in 1..Len(text) /\ text[d] = u[d]
    BY <1>1
  <2>2. CASE d = c
    <3>1. d > 1 => d - 1 \in 1..c
      BY <1>1
    <3>2. d > 1 => text[d - 1] = u[d - 1]
      BY <1>1, <3>1
    <3>3. InPieces(text, B, d) <=> InPieces(u, B, d)
      BY <1>1, <2>1, <2>2, <3>2 DEF InPieces
    <3> QED
      BY <2>1, <3>3 DEF Pieces
  <2>3. CASE d # c
    <3>1. (d > 1 => d - 1 \in 1..c) /\ d + 1 \in 1..c
      BY <1>1, <2>3
    <3>2. (d > 1 => text[d - 1] = u[d - 1]) /\ text[d + 1] = u[d + 1]
      BY <1>1, <3>1
    <3>3. InPieces(text, B, d) <=> InPieces(u, B, d)
      BY <1>1, <2>1, <2>3, <3>2 DEF InPieces
    <3> QED
      BY <2>1, <3>3 DEF Pieces
  <2> QED
    BY <2>2, <2>3
<1>3. ASSUME NEW d \in 1..Len(v) PROVE c + d \in Pieces(text, B) <=> d \in Readable(v)
  <2>1. c + d \in 1..Len(text) /\ text[c + d] = v[d] /\ d \in DOMAIN v
    BY <1>1
  <2>2. c + d \notin B
    BY <1>1
  <2>3. CASE d = 1
    <3>1. (c + d) - 1 = c /\ c \in B /\ c + d > 0
      BY <1>1, <2>3
    <3>2. d < Len(v) => text[(c + d) + 1] = v[d + 1]
      <4> SUFFICES ASSUME d < Len(v) PROVE text[(c + d) + 1] = v[d + 1]
        OBVIOUS
      <4>1. d + 1 \in 1..Len(v) /\ (c + d) + 1 = c + (d + 1)
        BY <1>1
      <4>2. text[c + (d + 1)] = v[d + 1]
        BY <1>1, <4>1
      <4> QED
        BY <4>1, <4>2
    <3>3. c + d < Len(text) <=> d < Len(v)
      BY <1>1
    <3>4. InPieces(text, B, c + d) <=> InCharacter(v, d)
      <4> HIDE DEF text
      <4> QED
        BY <2>1, <2>2, <2>3, <3>1, <3>2, <3>3 DEF InPieces, InCharacter
    <3> QED
      BY <2>1, <3>4 DEF Pieces, Readable
  <2>4. CASE d # 1
    <3>1. /\ (c + d) - 1 = c + (d - 1) /\ d - 1 \in 1..Len(v) /\ c + (d - 1) \notin B
          /\ c + d > 1 /\ d > 1
      BY <1>1, <2>4
    <3>2. d < Len(v) => text[(c + d) + 1] = v[d + 1]
      <4> SUFFICES ASSUME d < Len(v) PROVE text[(c + d) + 1] = v[d + 1]
        OBVIOUS
      <4>1. d + 1 \in 1..Len(v) /\ (c + d) + 1 = c + (d + 1)
        BY <1>1
      <4>2. text[c + (d + 1)] = v[d + 1]
        BY <1>1, <4>1
      <4> QED
        BY <4>1, <4>2
    <3>3. c + d < Len(text) <=> d < Len(v)
      BY <1>1
    <3>4. text[(c + d) - 1] = v[d - 1] /\ (c + d) - 1 \notin B
      <4>1. text[c + (d - 1)] = v[d - 1]
        BY <1>1, <3>1
      <4> QED
        BY <3>1, <4>1
    <3>5. InPieces(text, B, c + d) <=> InCharacter(v, d)
      <4> HIDE DEF text
      <4> QED
        BY <2>1, <2>2, <3>1, <3>2, <3>3, <3>4 DEF InPieces, InCharacter
    <3> QED
      BY <2>1, <3>5 DEF Pieces, Readable
  <2> QED
    BY <2>3, <2>4
<1> DEFINE K == Pieces(text, B)
           L == Pieces(u, B)
           M == Readable(v)
<1>4. /\ \A d \in 1..Len(u) : d \in K <=> d \in L
      /\ \A d \in 1..Len(v) : Len(u) + d \in K <=> d \in M
  BY <1>2, <1>3
<1> HIDE DEF K, L, M
<1>5. /\ Picked(u, L) \in Texts /\ Picked(v, M) \in Texts
      /\ Picked(u \o v, K) = Picked(u, L) \o Picked(v, M)
  BY <1>4, PickedJoined
<1> QED
  BY <1>5 DEF Remains, Decode, K, L, M

\* It is the same whether the text is cut at its end or not.
LEMMA RemainsMore ==
  ASSUME NEW text \in Texts, NEW B, NEW e, e = Len(text)
  PROVE  Remains(text, B \union {e}) = Remains(text, B)
<1>1. Len(text) \in Nat
  BY TextFacts
<1>2. ASSUME NEW d \in 1..Len(text)
      PROVE  InPieces(text, B \union {e}, d) <=> InPieces(text, B, d)
  <2>1. d < Len(text) => d # e
    BY <1>1
  <2>2. d - 1 # e
    BY <1>1
  <2> QED
    BY <2>1, <2>2 DEF InPieces
<1>3. Pieces(text, B \union {e}) = Pieces(text, B)
  BY <1>2 DEF Pieces
<1> QED
  BY <1>3 DEF Remains

-----------------------------------------------------------------------------
(* Stop sequences in texts                                                 *)

LEMMA PieceJoined ==
  ASSUME NEW u \in Texts, NEW v \in Texts, NEW m \in Nat, NEW n \in Nat, m <= n
  PROVE  /\ n <= Len(u) => Piece(u \o v, m, n) = Piece(u, m, n)
         /\ n <= Len(v) => Piece(u \o v, Len(u) + m, Len(u) + n) = Piece(v, m, n)
<1>1. /\ u \o v \in Texts /\ Len(u \o v) = Len(u) + Len(v)
      /\ Len(u) \in Nat /\ Len(v) \in Nat
      /\ \A d \in 1..Len(u) : (u \o v)[d] = u[d]
      /\ \A d \in 1..Len(v) : (u \o v)[Len(u) + d] = v[d]
  BY Joined
<1>2. ASSUME n <= Len(u) PROVE Piece(u \o v, m, n) = Piece(u, m, n)
  <2>1. n \in m..Len(u) /\ n \in m..Len(u \o v)
    BY <1>1, <1>2
  <2>2. /\ Piece(u, m, n) \in Texts /\ Len(Piece(u, m, n)) = n - m
        /\ \A d \in 1..(n - m) : Piece(u, m, n)[d] = u[m + d]
    BY <2>1, PieceFacts
  <2>3. /\ Piece(u \o v, m, n) \in Texts /\ Len(Piece(u \o v, m, n)) = n - m
        /\ \A d \in 1..(n - m) : Piece(u \o v, m, n)[d] = (u \o v)[m + d]
    BY <1>1, <2>1, PieceFacts
  <2>4. ASSUME NEW d \in 1..(n - m) PROVE Piece(u \o v, m, n)[d] = Piece(u, m, n)[d]
    <3>1. m + d \in 1..Len(u)
      BY <1>1, <1>2
    <3> QED
      BY <1>1, <2>2, <2>3, <3>1
  <2> QED
    BY <2>2, <2>3, <2>4, SameText
<1>3. ASSUME n <= Len(v) PROVE Piece(u \o v, Len(u) + m, Len(u) + n) = Piece(v, m, n)
  <2> DEFINE f == Len(u) + m
             g == Len(u) + n
  <2>1. n \in m..Len(v) /\ f \in Nat /\ g \in f..Len(u \o v) /\ g - f = n - m
    BY <1>1, <1>3
  <2>2. /\ Piece(v, m, n) \in Texts /\ Len(Piece(v, m, n)) = n - m
        /\ \A d \in 1..(n - m) : Piece(v, m, n)[d] = v[m + d]
    BY <2>1, PieceFacts
  <2>3. /\ Piece(u \o v, f, g) \in Texts /\ Len(Piece(u \o v, f, g)) = g - f
        /\ \A d \in 1..(g - f) : Piece(u \o v, f, g)[d] = (u \o v)[f + d]
    <3> HIDE DEF f, g
    <3> QED
      BY <1>1, <2>1, PieceFacts
  <2>4. ASSUME NEW d \in 1..(n - m) PROVE Piece(u \o v, f, g)[d] = Piece(v, m, n)[d]
    <3>1. m + d \in 1..Len(v) /\ Len(u) + (m + d) = f + d /\ d \in 1..(g - f)
      BY <1>1, <1>3
    <3>2. (u \o v)[Len(u) + (m + d)] = v[m + d]
      BY <1>1, <3>1
    <3> HIDE DEF f, g
    <3> QED
      BY <2>2, <2>3, <3>1, <3>2
  <2> HIDE DEF f, g
  <2>5. Piece(u \o v, f, g) = Piece(v, m, n)
    BY <2>1, <2>2, <2>3, <2>4, SameText
  <2> QED
    BY <2>5 DEF f, g
<1> QED
  BY <1>2, <1>3

LEMMA PlaceIs ==
  ASSUME NEW s \in Texts, NEW text \in Texts
  PROVE  \A d : d \in Places(s, text) <=>
           /\ d \in Nat /\ d + Len(s) <= Len(text) /\ Piece(text, d, d + Len(s)) = s
<1>1. Len(s) \in Nat /\ Len(text) \in Nat
  BY TextFacts
<1>2. ASSUME NEW d
      PROVE  d \in Places(s, text) <=>
               /\ d \in 0..(Len(text) - Len(s)) /\ Piece(text, d, d + Len(s)) = s
  BY Zenon DEF Places, Piece
<1>3. ASSUME NEW d
      PROVE  d \in 0..(Len(text) - Len(s)) <=> d \in Nat /\ d + Len(s) <= Len(text)
  BY <1>1
<1> QED
  BY <1>2, <1>3, Zenon

\* Where a sequence occurs in a text put together
LEMMA PlacesJoined ==
  ASSUME NEW s \in Texts, NEW u \in Texts, NEW v \in Texts
  PROVE  /\ \A d \in Places(s, u) : d \in Places(s, u \o v)
         /\ \A d \in Places(s, v) : d \in Nat /\ Len(u) + d \in Places(s, u \o v)
         /\ \A d \in Places(s, u \o v) :
              d \in Nat /\ d <= Len(u \o v) /\ (d >= Len(u) => d - Len(u) \in Places(s, v))
<1>1. /\ u \o v \in Texts /\ Len(u \o v) = Len(u) + Len(v)
      /\ Len(u) \in Nat /\ Len(v) \in Nat /\ Len(s) \in Nat
  BY Joined, TextFacts
<1>2. ASSUME NEW d \in Places(s, u) PROVE d \in Places(s, u \o v)
  <2>1. d \in Nat /\ d + Len(s) <= Len(u) /\ Piece(u, d, d + Len(s)) = s
    BY PlaceIs
  <2>2. d + Len(s) \in Nat /\ d <= d + Len(s) /\ d + Len(s) <= Len(u \o v)
    BY <1>1, <2>1
  <2>3. Piece(u \o v, d, d + Len(s)) = s
    BY <2>1, <2>2, PieceJoined
  <2> QED
    BY <1>1, <2>1, <2>2, <2>3, PlaceIs
<1>3. ASSUME NEW d \in Places(s, v) PROVE d \in Nat /\ Len(u) + d \in Places(s, u \o v)
  <2>1. d \in Nat /\ d + Len(s) <= Len(v) /\ Piece(v, d, d + Len(s)) = s
    BY PlaceIs
  <2>2. /\ d + Len(s) \in Nat /\ d <= d + Len(s) /\ Len(u) + d \in Nat
        /\ (Len(u) + d) + Len(s) <= Len(u \o v)
        /\ Len(u) + (d + Len(s)) = (Len(u) + d) + Len(s)
    BY <1>1, <2>1
  <2>3. Piece(u \o v, Len(u) + d, Len(u) + (d + Len(s))) = s
    BY <2>1, <2>2, PieceJoined
  <2>4. Piece(u \o v, Len(u) + d, (Len(u) + d) + Len(s)) = s
    BY <2>2, <2>3
  <2> QED
    BY <1>1, <2>1, <2>2, <2>4, PlaceIs
<1>4. ASSUME NEW d \in Places(s, u \o v)
      PROVE  d \in Nat /\ d <= Len(u \o v) /\ (d >= Len(u) => d - Len(u) \in Places(s, v))
  <2>1. d \in Nat /\ d + Len(s) <= Len(u \o v) /\ Piece(u \o v, d, d + Len(s)) = s
    BY <1>1, PlaceIs
  <2>2. d <= Len(u \o v)
    BY <1>1, <2>1
  <2>3. ASSUME d >= Len(u) PROVE d - Len(u) \in Places(s, v)
    <3> DEFINE c == d - Len(u)
    <3>1. /\ c \in Nat /\ c + Len(s) \in Nat /\ c <= c + Len(s) /\ c + Len(s) <= Len(v)
          /\ Len(u) + c = d /\ Len(u) + (c + Len(s)) = d + Len(s)
      BY <1>1, <2>1, <2>3
    <3> HIDE DEF c
    <3>2. Piece(u \o v, Len(u) + c, Len(u) + (c + Len(s))) = Piece(v, c, c + Len(s))
      BY <3>1, PieceJoined
    <3>3. Piece(v, c, c + Len(s)) = s
      BY <2>1, <3>1, <3>2
    <3>4. c \in Places(s, v)
      BY <3>1, <3>3, PlaceIs
    <3> QED
      BY <3>4 DEF c
  <2> QED
    BY <2>1, <2>2, <2>3
<1> QED
  BY <1>2, <1>3, <1>4

LEMMA FirstPlace ==
  ASSUME NEW s \in Texts, NEW text \in Texts, Occurs(s, text)
  PROVE  /\ Min(Places(s, text)) \in Places(s, text)
         /\ \A d \in Places(s, text) : Min(Places(s, text)) <= d
         /\ Places(s, text) \in SUBSET Nat
<1>1. Places(s, text) \in SUBSET Nat
  BY PlaceIs
<1>2. \E d \in Places(s, text) : \A e \in Places(s, text) : d <= e
  BY <1>1, LeastNumber DEF Occurs
<1> QED
  BY <1>1, <1>2, Zenon DEF Min

LEMMA CutAtFacts ==
  ASSUME NEW s \in Texts, NEW text \in Texts
  PROVE  /\ \E n \in 0..Len(text) : CutAt(s, text) = Upto(text, n)
         /\ CutAt(s, text) \in Texts
         /\ s = <<>> \/ ~Occurs(s, text) => CutAt(s, text) = text
         /\ s # <<>> /\ Occurs(s, text) => CutAt(s, text) = Upto(text, Min(Places(s, text)))
<1>0. Len(text) \in Nat /\ Len(s) \in Nat
  BY TextFacts
<1>1. s = <<>> \/ ~Occurs(s, text) => CutAt(s, text) = text
  BY DEF CutAt
<1>2. s # <<>> /\ Occurs(s, text) => CutAt(s, text) = Upto(text, Min(Places(s, text)))
  BY DEF CutAt, Upto
<1>3. \E n \in 0..Len(text) : CutAt(s, text) = Upto(text, n)
  <2>1. CASE s # <<>> /\ Occurs(s, text)
    <3>1. Min(Places(s, text)) \in Places(s, text)
      BY <2>1, FirstPlace
    <3>2. Min(Places(s, text)) \in Nat /\ Min(Places(s, text)) + Len(s) <= Len(text)
      BY <3>1, PlaceIs
    <3>3. Min(Places(s, text)) \in 0..Len(text)
      BY <1>0, <3>2
    <3> QED
      BY <1>2, <2>1, <3>3
  <2>2. CASE ~(s # <<>> /\ Occurs(s, text))
    <3>1. CutAt(s, text) = Upto(text, Len(text)) /\ Len(text) \in 0..Len(text)
      BY <1>0, <1>1, <2>2, UptoAll
    <3> QED
      BY <3>1
  <2> QED
    BY <2>1, <2>2
<1>4. CutAt(s, text) \in Texts
  BY <1>3, UptoFacts
<1> QED
  BY <1>1, <1>2, <1>3, <1>4

\* Cutting a text put together cuts its end, or leaves at most its beginning.
LEMMA CutAtJoined ==
  ASSUME NEW s \in Texts, NEW u \in Texts, NEW v \in Texts
  PROVE  Len(CutAt(s, u \o v)) <= Len(u) \/ CutAt(s, u \o v) = u \o CutAt(s, v)
<1>0. /\ u \o v \in Texts /\ Len(u \o v) = Len(u) + Len(v)
      /\ Len(u) \in Nat /\ Len(v) \in Nat
  BY Joined
<1>1. CASE s = <<>>
  BY <1>0, <1>1, CutAtFacts
<1>2. CASE s # <<>> /\ ~Occurs(s, u \o v)
  <2>1. ~Occurs(s, v)
    BY <1>2, PlacesJoined DEF Occurs
  <2> QED
    BY <1>0, <1>2, <2>1, CutAtFacts
<1>3. CASE s # <<>> /\ Occurs(s, u \o v)
  <2> DEFINE m == Min(Places(s, u \o v))
  <2>1. /\ m \in Places(s, u \o v) /\ m \in Nat /\ m <= Len(u \o v)
        /\ m >= Len(u) => m - Len(u) \in Places(s, v)
        /\ \A d \in Places(s, u \o v) : m <= d
    BY <1>0, <1>3, FirstPlace, PlacesJoined
  <2>2. CutAt(s, u \o v) = Upto(u \o v, m)
    BY <1>0, <1>3, CutAtFacts
  <2> HIDE DEF m
  <2>3. m \in 0..Len(u \o v)
    BY <1>0, <2>1
  <2>4. CASE m < Len(u)
    <3>1. Len(CutAt(s, u \o v)) = m
      BY <1>0, <2>2, <2>3, UptoFacts
    <3> QED
      BY <1>0, <2>1, <2>4, <3>1
  <2>5. CASE ~(m < Len(u))
    <3>1. m - Len(u) \in Places(s, v) /\ Occurs(s, v)
      BY <1>0, <2>1, <2>5 DEF Occurs
    <3> DEFINE c == Min(Places(s, v))
    <3>2. c \in Places(s, v) /\ c <= m - Len(u) /\ c \in Nat
      BY <3>1, FirstPlace
    <3>3. Len(u) + c \in Places(s, u \o v)
      BY <3>2, PlacesJoined
    <3>4. CutAt(s, v) = Upto(v, c)
      BY <1>3, <3>1, CutAtFacts
    <3> HIDE DEF c
    <3>5. m <= Len(u) + c
      BY <2>1, <3>3
    <3>6. m = Len(u) + c /\ c \in 0..Len(v)
      BY <1>0, <2>1, <3>2, <3>5
    <3>7. Upto(u \o v, Len(u) + c) = u \o Upto(v, c)
      BY <3>6, UptoJoined
    <3> QED
      BY <2>2, <3>4, <3>6, <3>7
  <2> QED
    BY <2>4, <2>5
<1> QED
  BY <1>1, <1>2, <1>3

NStops == Len(StopSequences)

LEMMA StopFacts ==
  /\ NStops \in Nat /\ DOMAIN StopSequences = 1..NStops
  /\ \A k \in 1..NStops : StopSequences[k] \in Texts
<1>1. StopSequences \in Seq(Texts)
  BY TokensAssumption DEF Texts
<1> QED
  BY <1>1, LenProperties, ElementOfSeq DEF NStops

LEMMA CutSteps ==
  ASSUME NEW text \in Texts
  PROVE  \E cut \in [0..NStops -> Texts] :
           /\ cut[0] = text /\ cut[NStops] = Cut(text)
           /\ \A k \in 1..NStops : cut[k] = CutAt(StopSequences[k], cut[k - 1])
<1> DEFINE Is(f) == f = [k \in 0..NStops |-> IF k = 0 THEN text
                                             ELSE CutAt(StopSequences[k], f[k - 1])]
           G == [k \in 1..NStops |-> [t \in Texts |-> CutAt(StopSequences[k], t)]]
<1>1. NStops \in Nat
  BY StopFacts
<1>2. ASSUME NEW k \in 1..NStops, NEW t \in Texts
      PROVE  CutAt(StopSequences[k], t) \in Texts
  BY StopFacts, CutAtFacts
<1>3. G \in [1..NStops -> [Texts -> Texts]]
  BY <1>2, Zenon
<1>4. PICK f \in [0..NStops -> Texts] : f[0] = text /\ \A k \in 1..NStops : f[k] = G[k][f[k - 1]]
  <2> HIDE DEF G
  <2> QED
    BY <1>1, <1>3, TextRecursion
<1>5. ASSUME NEW k \in 1..NStops PROVE f[k] = CutAt(StopSequences[k], f[k - 1])
  <2>1. k - 1 \in 0..NStops
    BY <1>1
  <2>2. f[k - 1] \in Texts
    BY <1>4, <2>1
  <2>3. G[k][f[k - 1]] = CutAt(StopSequences[k], f[k - 1])
    BY <2>2, Zenon
  <2> QED
    BY <1>4, <2>3
<1>6. Is(f)
  <2> DEFINE g == [k \in 0..NStops |-> IF k = 0 THEN text ELSE CutAt(StopSequences[k], f[k - 1])]
  <2>1. ASSUME NEW k \in 0..NStops PROVE f[k] = g[k]
    <3>1. CASE k = 0
      BY <1>4, <3>1
    <3>2. CASE k # 0
      <4>1. k \in 1..NStops
        BY <1>1, <3>2
      <4>2. f[k] = CutAt(StopSequences[k], f[k - 1])
        BY <1>5, <4>1
      <4>3. g[k] = CutAt(StopSequences[k], f[k - 1])
        BY <3>2, Zenon
      <4> QED
        BY <4>2, <4>3, Zenon
    <3> QED
      BY <3>1, <3>2
  <2>2. f = g
    BY <1>4, <2>1, Zenon
  <2> QED
    BY <2>2, Zenon
<1> DEFINE cut == CHOOSE h : Is(h)
<1>7. Is(cut)
  BY <1>6, Zenon
<1>8. Cut(text) = cut[NStops]
  BY Zenon DEF Cut, NStops
<1> HIDE DEF cut
<1>9. /\ cut[0] = text
      /\ \A k \in 1..NStops : cut[k] = CutAt(StopSequences[k], cut[k - 1])
      /\ DOMAIN cut = 0..NStops /\ cut = [k \in 0..NStops |-> cut[k]]
  <2> DEFINE g == [k \in 0..NStops |-> IF k = 0 THEN text
                                       ELSE CutAt(StopSequences[k], cut[k - 1])]
  <2>1. cut = g
    BY <1>7, Zenon
  <2>2. g[0] = text
    BY <1>1
  <2>3. ASSUME NEW k \in 1..NStops PROVE g[k] = CutAt(StopSequences[k], cut[k - 1])
    <3>1. k \in 0..NStops /\ k # 0
      BY <1>1
    <3> QED
      BY <3>1, Zenon
  <2>4. DOMAIN g = 0..NStops /\ g = [k \in 0..NStops |-> g[k]]
    BY Zenon
  <2> HIDE DEF g
  <2> QED
    BY <2>1, <2>2, <2>3, <2>4, Zenon
<1>10. \A k \in 0..NStops : cut[k] \in Texts
  <2> DEFINE Good == {k \in 0..NStops : cut[k] \in Texts}
  <2>1. 0 \in Good
    BY <1>1, <1>9
  <2>2. ASSUME NEW k \in 0..(NStops - 1), k \in Good PROVE k + 1 \in Good
    <3>1. /\ k + 1 \in 1..NStops /\ k + 1 \in 0..NStops /\ (k + 1) - 1 = k
          /\ cut[k] \in Texts
      BY <1>1, <2>2
    <3>2. cut[k + 1] = CutAt(StopSequences[k + 1], cut[k])
      BY <1>9, <3>1
    <3>3. CutAt(StopSequences[k + 1], cut[k]) \in Texts
      BY <1>2, <3>1
    <3> QED
      BY <3>1, <3>2, <3>3
  <2> HIDE DEF Good
  <2>3. \A k \in 0..NStops : k \in Good
    BY <1>1, <2>1, <2>2, AllNumbers
  <2> QED
    BY <2>3 DEF Good
<1>11. cut \in [0..NStops -> Texts]
  BY <1>9, <1>10, Zenon
<1> QED
  BY <1>8, <1>9, <1>11, Zenon

\* What is left is a front of the text.
LEMMA CutFront ==
  ASSUME NEW text \in Texts
  PROVE  \E n \in 0..Len(text) : Cut(text) = Upto(text, n)
<1>1. PICK cut \in [0..NStops -> Texts] :
           /\ cut[0] = text /\ cut[NStops] = Cut(text)
           /\ \A k \in 1..NStops : cut[k] = CutAt(StopSequences[k], cut[k - 1])
  BY CutSteps
<1>2. NStops \in Nat /\ Len(text) \in Nat
  BY StopFacts, TextFacts
<1> DEFINE Good == {k \in 0..NStops : \E n \in 0..Len(text) : cut[k] = Upto(text, n)}
<1>3. 0 \in Good
  <2>1. cut[0] = Upto(text, Len(text)) /\ Len(text) \in 0..Len(text)
    BY <1>1, <1>2, UptoAll
  <2> QED
    BY <1>2, <2>1
<1>4. ASSUME NEW k \in 0..(NStops - 1), k \in Good PROVE k + 1 \in Good
  <2>1. PICK n \in 0..Len(text) : cut[k] = Upto(text, n)
    BY <1>4
  <2>2. /\ k + 1 \in 1..NStops /\ k + 1 \in 0..NStops /\ (k + 1) - 1 = k /\ k \in 0..NStops
    BY <1>2
  <2>3. cut[k + 1] = CutAt(StopSequences[k + 1], cut[k]) /\ cut[k] \in Texts
    BY <1>1, <2>2
  <2>4. PICK m \in 0..Len(cut[k]) : CutAt(StopSequences[k + 1], cut[k]) = Upto(cut[k], m)
    BY <2>2, <2>3, StopFacts, CutAtFacts
  <2>5. Len(cut[k]) = n
    BY <2>1, UptoFacts
  <2>6. m \in 0..n /\ m \in 0..Len(text)
    BY <1>2, <2>4, <2>5
  <2>7. Upto(Upto(text, n), m) = Upto(text, m)
    <3>1. n \in Nat /\ n \in n..Len(text)
      BY <1>2
    <3>2. Upto(text, n) \in Texts /\ Len(Upto(text, n)) = n
      BY UptoFacts
    <3>3. /\ Upto(Upto(text, n), m) \in Texts /\ Len(Upto(Upto(text, n), m)) = m
          /\ \A d \in 1..m : Upto(Upto(text, n), m)[d] = Upto(text, n)[d]
      BY <2>6, <3>2, UptoFacts
    <3>4. /\ Upto(text, m) \in Texts /\ Len(Upto(text, m)) = m
          /\ \A d \in 1..m : Upto(text, m)[d] = text[d]
      BY <2>6, UptoFacts
    <3>5. \A d \in 1..n : Upto(text, n)[d] = text[d]
      BY UptoFacts
    <3>6. \A d \in 1..m : Upto(Upto(text, n), m)[d] = Upto(text, m)[d]
      BY <2>6, <3>3, <3>4, <3>5
    <3> QED
      BY <3>3, <3>4, <3>6, SameText
  <2> QED
    BY <2>1, <2>2, <2>3, <2>4, <2>6, <2>7
<1> HIDE DEF Good
<1>5. \A k \in 0..NStops : k \in Good
  BY <1>2, <1>3, <1>4, AllNumbers
<1> QED
  BY <1>1, <1>2, <1>5 DEF Good

\* Cutting a text put together cuts its end, or leaves at most its beginning.
LEMMA CutJoined ==
  ASSUME NEW u \in Texts, NEW v \in Texts
  PROVE  Len(Cut(u \o v)) <= Len(u) \/ Cut(u \o v) = u \o Cut(v)
<1>0. u \o v \in Texts /\ Len(u) \in Nat /\ NStops \in Nat
  BY Joined, StopFacts
<1>1. PICK whole \in [0..NStops -> Texts] :
           /\ whole[0] = u \o v /\ whole[NStops] = Cut(u \o v)
           /\ \A k \in 1..NStops : whole[k] = CutAt(StopSequences[k], whole[k - 1])
  BY <1>0, CutSteps
<1>2. PICK end \in [0..NStops -> Texts] :
           /\ end[0] = v /\ end[NStops] = Cut(v)
           /\ \A k \in 1..NStops : end[k] = CutAt(StopSequences[k], end[k - 1])
  BY CutSteps
<1> DEFINE Good == {k \in 0..NStops : Len(whole[k]) <= Len(u) \/ whole[k] = u \o end[k]}
<1>3. 0 \in Good
  BY <1>0, <1>1, <1>2
<1>4. ASSUME NEW k \in 0..(NStops - 1), k \in Good PROVE k + 1 \in Good
  <2>1. /\ k + 1 \in 1..NStops /\ k + 1 \in 0..NStops /\ (k + 1) - 1 = k /\ k \in 0..NStops
    BY <1>0
  <2>2. /\ whole[k + 1] = CutAt(StopSequences[k + 1], whole[k]) /\ whole[k] \in Texts
        /\ end[k + 1] = CutAt(StopSequences[k + 1], end[k]) /\ end[k] \in Texts
        /\ StopSequences[k + 1] \in Texts
    BY <1>1, <1>2, <2>1, StopFacts
  <2>3. CASE Len(whole[k]) <= Len(u)
    <3>1. PICK n \in 0..Len(whole[k]) : CutAt(StopSequences[k + 1], whole[k]) = Upto(whole[k], n)
      BY <2>2, CutAtFacts
    <3>2. Len(whole[k + 1]) = n /\ Len(whole[k]) \in Nat
      BY <2>2, <3>1, UptoFacts, TextFacts
    <3>3. Len(whole[k + 1]) <= Len(u)
      BY <1>0, <2>3, <3>2
    <3> QED
      BY <2>1, <3>3
  <2>4. CASE whole[k] = u \o end[k]
    <3>1. \/ Len(CutAt(StopSequences[k + 1], u \o end[k])) <= Len(u)
          \/ CutAt(StopSequences[k + 1], u \o end[k]) = u \o CutAt(StopSequences[k + 1], end[k])
      BY <2>2, CutAtJoined
    <3> QED
      BY <2>1, <2>2, <2>4, <3>1
  <2> QED
    BY <1>4, <2>3, <2>4
<1> HIDE DEF Good
<1>5. \A k \in 0..NStops : k \in Good
  BY <1>0, <1>3, <1>4, AllNumbers
<1> QED
  BY <1>0, <1>1, <1>2, <1>5 DEF Good

\* No stop sequence occurs; an empty one stops the model, but nothing is cut at it.
Clean(text) == \A k \in 1..NStops : StopSequences[k] # <<>> => ~Occurs(StopSequences[k], text)

LEMMA CutClean ==
  ASSUME NEW text \in Texts, Clean(text)
  PROVE  Cut(text) = text
<1>1. PICK cut \in [0..NStops -> Texts] :
           /\ cut[0] = text /\ cut[NStops] = Cut(text)
           /\ \A k \in 1..NStops : cut[k] = CutAt(StopSequences[k], cut[k - 1])
  BY CutSteps
<1>2. NStops \in Nat
  BY StopFacts
<1> DEFINE Good == {k \in 0..NStops : cut[k] = text}
<1>3. 0 \in Good
  BY <1>1, <1>2
<1>4. ASSUME NEW k \in 0..(NStops - 1), k \in Good PROVE k + 1 \in Good
  <2>1. /\ k + 1 \in 1..NStops /\ k + 1 \in 0..NStops /\ (k + 1) - 1 = k /\ k \in 0..NStops
    BY <1>2
  <2>2. cut[k + 1] = CutAt(StopSequences[k + 1], text) /\ StopSequences[k + 1] \in Texts
    BY <1>1, <1>4, <2>1, StopFacts
  <2>3. CutAt(StopSequences[k + 1], text) = text
    BY <2>1, <2>2, CutAtFacts DEF Clean
  <2> QED
    BY <2>1, <2>2, <2>3
<1> HIDE DEF Good
<1>5. \A k \in 0..NStops : k \in Good
  BY <1>2, <1>3, <1>4, AllNumbers
<1> QED
  BY <1>1, <1>2, <1>5 DEF Good

LEMMA CleanParts ==
  ASSUME NEW u \in Texts, NEW v \in Texts, Clean(u \o v)
  PROVE  Clean(u) /\ Clean(v)
<1>1. ASSUME NEW k \in 1..NStops, StopSequences[k] # <<>>
      PROVE  ~Occurs(StopSequences[k], u) /\ ~Occurs(StopSequences[k], v)
  <2>1. StopSequences[k] \in Texts /\ ~Occurs(StopSequences[k], u \o v)
    BY <1>1, StopFacts DEF Clean
  <2>2. Places(StopSequences[k], u \o v) = {}
    BY <2>1 DEF Occurs
  <2>3. /\ \A d \in Places(StopSequences[k], u) : d \in Places(StopSequences[k], u \o v)
        /\ \A d \in Places(StopSequences[k], v) :
             Len(u) + d \in Places(StopSequences[k], u \o v)
    BY <2>1, PlacesJoined
  <2> QED
    BY <2>2, <2>3, Zenon DEF Occurs
<1> QED
  BY <1>1 DEF Clean

LEMMA CleanFront ==
  ASSUME NEW text \in Texts, NEW n \in 0..Len(text), NEW m \in 0..n, Clean(Upto(text, n))
  PROVE  Clean(Upto(text, m))
<1>1. Len(text) \in Nat
  BY TextFacts
<1>2. m \in Nat /\ n \in m..Len(text) /\ m \in 0..Len(text)
  BY <1>1
<1>3. Upto(text, m) \o Piece(text, m, n) = Upto(text, n)
  BY <1>2, Halves
<1>4. Upto(text, m) \in Texts /\ Piece(text, m, n) \in Texts
  BY <1>2, UptoFacts, PieceFacts
<1> QED
  BY <1>3, <1>4, CleanParts

LEMMA NothingClean == Clean(<<>>)
<1>1. ASSUME NEW k \in 1..NStops, StopSequences[k] # <<>>
      PROVE  ~Occurs(StopSequences[k], <<>>)
  <2>1. StopSequences[k] \in Texts /\ Len(StopSequences[k]) \in Nat /\ Len(StopSequences[k]) # 0
    BY <1>1, StopFacts, EmptyText, TextFacts
  <2>2. \A d : d \notin Places(StopSequences[k], <<>>)
    BY <2>1, EmptyText, PlaceIs
  <2> QED
    BY <2>2 DEF Occurs
<1> QED
  BY <1>1 DEF Clean

-----------------------------------------------------------------------------
(* The inductive invariant                                                 *)

\* Types, with the sequences of bytes
Typed ==
  /\ trim \in BOOLEAN
  /\ generated_tokens \in Seq(Tokens) /\ concat_output \in Texts
  /\ remaining_tokens \in Nat /\ generation_finished \in BOOLEAN
  /\ pc \in {"flag", "count", "fetch", "closed", "interrupted"}
  /\ streamDone \in BOOLEAN /\ streamcount \in Nat /\ current_token \in Nat
  /\ incomplete_token_buffer \in Texts /\ tokenStr \in Texts /\ tokenReserve \in Texts
  /\ sent \in Texts

\* Once the stream has seen the flag nothing is generated any more, and the count it
\* reads afterwards is that of all tokens.
InStep ==
  /\ generation_finished => remaining_tokens = 0
  /\ streamDone => generation_finished
  /\ current_token <= streamcount /\ streamcount <= Len(generated_tokens)
  /\ pc = "fetch" /\ streamDone => streamcount = Len(generated_tokens)
  /\ pc = "closed" => /\ streamDone /\ current_token = Len(generated_tokens)
                      /\ tokenReserve = <<>> /\ tokenStr = <<>>

\* ends[k] is the number of bytes of the first k tokens.
Marks(tokens, bytes, ends) ==
  /\ ends[0] = 0 /\ ends[Len(tokens)] = Len(bytes)
  /\ \A k, l \in 0..Len(tokens) : k <= l => ends[k] <= ends[l]
  /\ \A k \in 1..Len(tokens) : Piece(bytes, ends[k - 1], ends[k]) = tokens[k]

\* The model would have stopped before: only the last of n tokens, and only when no more
\* are to come, completes a stop sequence.
Unstopped(bytes, ends, n, remaining) ==
  \A k \in 0..n : k < n \/ remaining > 0 => Clean(Upto(bytes, ends[k]))

\* What is not put out: the beginning of a character, a byte that belongs to none, or
\* a space in front of one, which is then where a token begins.
BrokenEnd(rest) == \E z \in {Lead, Cont} : rest = <<z>>
SpaceBroken(rest) == \E z \in {Lead, Cont} : rest = <<Space, z>>

\* Of the first n tokens the front of c bytes has been decoded, and the rest waits in
\* the buffer, unless it is a byte that can no more become a character.
Decoded(bytes, ends, c, n, buffer) ==
  LET rest == Piece(bytes, c, ends[n])
  IN  /\ Whole(Upto(bytes, c))
      /\ \/ buffer = rest /\ (rest = <<>> \/ BrokenEnd(rest))
         \/ buffer = rest /\ SpaceBroken(rest) /\ \E k \in 0..(n - 1) : c = ends[k]
         \/ buffer = <<>> /\ rest = <<Cont>>

\* All of the front has been sent or is about to be.
Uncut(front, out, reserve, str) == (out \o reserve) \o str = front

\* A stop sequence has been cut off: what has been sent is a front of the front and not
\* less than what cutting all of it leaves.
WasCut(front, out, reserve, str) ==
  /\ reserve = <<>> /\ str = <<>>
  /\ \E m \in 0..Len(front) : out = Upto(front, m) /\ Len(Cut(front)) <= m

Delivered(ends, c) ==
  LET front == Upto(concat_output, c)
      rest == Piece(concat_output, c, ends[current_token])
  IN  \/ Uncut(front, sent, tokenReserve, tokenStr)
      \/ /\ WasCut(front, sent, tokenReserve, tokenStr)
         /\ trim /\ current_token = Len(generated_tokens) /\ remaining_tokens = 0
         /\ ~SpaceBroken(rest)

Sound == WellFormed /\ NoneSevers

\* Where the stream is, in a text of whole characters that no token severs
Streaming(ends) ==
  \E c \in 0..ends[current_token] :
    /\ Decoded(concat_output, ends, c, current_token, incomplete_token_buffer)
    /\ Delivered(ends, c)

\* Without trim_stop all is put out or about to be that is decoded up to c, where a token
\* ends; before, the text was cut at ends of tokens.  Nothing of the rest can be put out.
LossyAt(bytes, ends, n, c, B, out, buffer) ==
  /\ c \in B /\ \A b \in B : \E k \in 0..n : b = ends[k]
  /\ out = Remains(Upto(bytes, c), B)
  /\ buffer = Piece(bytes, c, ends[n]) /\ Decode(buffer) \in {<<>>, <<Space>>}

Lossy(bytes, ends, n, out, buffer) ==
  \E c \in 0..ends[n] : \E B \in SUBSET (0..c) : LossyAt(bytes, ends, n, c, B, out, buffer)

Losing(ends) ==
  Lossy(concat_output, ends, current_token, (sent \o tokenReserve) \o tokenStr,
        incomplete_token_buffer)

Cutting ==
  \E ends \in [0..Len(generated_tokens) -> Nat] :
    /\ Marks(generated_tokens, concat_output, ends)
    /\ Unstopped(concat_output, ends, Len(generated_tokens), remaining_tokens)
    /\ Sound => Streaming(ends)
    /\ ~trim => Losing(ends)

StreamInv == Typed /\ InStep /\ Cutting

-----------------------------------------------------------------------------
(* Another token                                                           *)

LEMMA TokenIsText ==
  ASSUME NEW t \in Tokens
  PROVE  t \in Texts
BY TokensAssumption DEF Texts

LEMMA BytesDiffer ==
  /\ Lead \in Bytes /\ Cont \in Bytes /\ Space \in Bytes
  /\ Lead # Cont /\ Space # Lead /\ Space # Cont
BY TokensAssumption

LEMMA EndFacts ==
  ASSUME NEW rest \in Texts
  PROVE  /\ BrokenEnd(rest) <=> Len(rest) = 1 /\ rest[1] \in {Lead, Cont}
         /\ SpaceBroken(rest) <=> Len(rest) = 2 /\ rest[1] = Space /\ rest[2] \in {Lead, Cont}
         /\ rest = <<Cont>> <=> Len(rest) = 1 /\ rest[1] = Cont
<1>1. ASSUME NEW z \in {Lead, Cont} PROVE rest = <<z>> <=> Len(rest) = 1 /\ rest[1] = z
  BY BytesDiffer, ShortTexts
<1>2. ASSUME NEW z \in {Lead, Cont}
      PROVE  rest = <<Space, z>> <=> Len(rest) = 2 /\ rest[1] = Space /\ rest[2] = z
  <2>1. Space \in Bytes /\ z \in Bytes
    BY BytesDiffer
  <2>2. /\ Len(<<Space, z>>) = 2 /\ <<Space, z>>[1] = Space /\ <<Space, z>>[2] = z
        /\ Len(rest) = 2 => rest = <<rest[1], rest[2]>>
    BY <2>1, ShortTexts
  <2> QED
    BY <2>2
<1> QED
  BY <1>1, <1>2 DEF BrokenEnd, SpaceBroken

LEMMA OneEnd ==
  ASSUME NEW rest \in Texts, SpaceBroken(rest)
  PROVE  rest # <<>> /\ ~BrokenEnd(rest) /\ rest # <<Cont>>
<1>1. /\ BrokenEnd(rest) <=> Len(rest) = 1 /\ rest[1] \in {Lead, Cont}
      /\ SpaceBroken(rest) <=> Len(rest) = 2 /\ rest[1] = Space /\ rest[2] \in {Lead, Cont}
      /\ rest = <<Cont>> <=> Len(rest) = 1 /\ rest[1] = Cont
  BY EndFacts
<1>2. Len(rest) = 2
  BY <1>1
<1> QED
  BY <1>1, <1>2, EmptyText

\* An unfinished character is never dropped.
LEMMA NoLeadDropped ==
  ASSUME NEW rest \in Texts, NEW token \in Tokens, ~Severs(token), Unbroken(rest \o token),
         rest = <<>> \/ BrokenEnd(rest) \/ SpaceBroken(rest),
         NEW v \in Texts, v = rest \o token, Len(v) >= 2, v[Len(v)] = Lead
  PROVE  Len(v) = 2 /\ v[1] = Space
<1>0. /\ BrokenEnd(rest) <=> Len(rest) = 1 /\ rest[1] \in {Lead, Cont}
      /\ SpaceBroken(rest) <=> Len(rest) = 2 /\ rest[1] = Space /\ rest[2] \in {Lead, Cont}
  BY EndFacts
<1>1. /\ token \in Texts /\ Len(v) = Len(rest) + Len(token)
      /\ Len(rest) \in Nat /\ Len(token) \in Nat
      /\ \A d \in 1..Len(rest) : v[d] = rest[d]
      /\ \A d \in 1..Len(token) : v[Len(rest) + d] = token[d]
  BY TokenIsText, Joined
<1>2. CASE Len(token) = 0
  <2>1. Len(v) = Len(rest) /\ Len(rest) >= 2
    BY <1>1, <1>2
  <2>2. Len(rest) = 2 /\ rest[1] = Space
    <3>1. rest # <<>>
      BY <2>1, EmptyText
    <3>2. ~BrokenEnd(rest)
      BY <1>0, <2>1
    <3> QED
      BY <1>0, <3>1, <3>2
  <2> QED
    BY <1>1, <2>1, <2>2
<1>3. CASE Len(token) > 0
  <2>1. token[Len(token)] = Lead
    <3>1. Len(token) \in 1..Len(token)
      BY <1>1, <1>3
    <3>2. v[Len(rest) + Len(token)] = token[Len(token)]
      BY <1>1, <3>1
    <3> QED
      BY <1>1, <3>2
  <2>2. token # <<>> /\ Last(token) = Lead
    BY <1>1, <1>3, <2>1, EmptyText DEF Last
  <2>3. Front(token) \in {<<>>, <<Space>>}
    BY <2>2 DEF Severs
  <2>4. Front(token) = Upto(token, Len(token) - 1)
    BY DEF Front, Upto
  <2>5. Len(token) - 1 \in 0..Len(token)
    BY <1>1, <1>3
  <2>6. /\ Len(Front(token)) = Len(token) - 1
        /\ \A d \in 1..(Len(token) - 1) : Front(token)[d] = token[d]
    <3> DEFINE k == Len(token) - 1
    <3>1. token \in Texts /\ k \in 0..Len(token)
      BY <1>1, <2>5
    <3> HIDE DEF k
    <3>2. /\ Len(Upto(token, k)) = k
          /\ \A d \in 1..k : Upto(token, k)[d] = token[d]
      BY <3>1, UptoFacts
    <3> QED
      BY <2>4, <3>2 DEF k
  <2>7. Len(<<>>) = 0 /\ Len(<<Space>>) = 1 /\ <<Space>>[1] = Space
    BY EmptyText, BytesDiffer, ShortTexts
  <2>8. \/ Len(token) = 1
        \/ Len(token) = 2 /\ token[1] = Space
    <3>1. CASE Front(token) = <<>>
      BY <1>1, <1>3, <2>6, <2>7, <3>1
    <3>2. CASE Front(token) = <<Space>>
      <4>1. Len(token) - 1 = 1
        BY <2>6, <2>7, <3>2
      <4>2. Front(token)[1] = token[1]
        <5>1. \A d \in 1..1 : Front(token)[d] = token[d]
          BY <2>6, <4>1
        <5> QED
          BY <5>1
      <4> QED
        BY <1>1, <2>7, <3>2, <4>1, <4>2
    <3> QED
      BY <2>3, <3>1, <3>2
  <2>9. token[1] # Cont
    BY <2>1, <2>8, BytesDiffer
  <2>10. \A d \in 1..(Len(v) - 1) : InCharacter(v, d)
    BY DEF Unbroken
  <2>11. CASE rest = <<>>
    <3>1. Len(rest) = 0
      BY <2>11, EmptyText
    <3>2. Len(v) = Len(token) /\ v[1] = token[1]
      <4>1. v[Len(rest) + 1] = token[1]
        BY <1>1, <1>3
      <4> QED
        BY <1>1, <3>1, <4>1
    <3> QED
      BY <1>1, <2>8, <3>1, <3>2
  <2>12. CASE BrokenEnd(rest)
    <3>1. Len(rest) = 1 /\ rest[1] \in {Lead, Cont}
      BY <1>0, <2>12
    <3>2. v[1] = rest[1] /\ v[2] = token[1]
      <4>1. v[Len(rest) + 1] = token[1]
        BY <1>1, <1>3
      <4> QED
        BY <1>1, <3>1, <4>1
    <3>3. InCharacter(v, 1)
      BY <1>1, <1>3, <2>10, <3>1
    <3> QED
      BY <2>9, <3>1, <3>2, <3>3, BytesDiffer DEF InCharacter
  <2>13. CASE SpaceBroken(rest)
    <3>1. Len(rest) = 2 /\ rest[1] = Space /\ rest[2] \in {Lead, Cont}
      BY <1>0, <2>13
    <3>2. v[1] = Space /\ v[2] = rest[2] /\ v[3] = token[1]
      <4>1. v[Len(rest) + 1] = token[1]
        BY <1>1, <1>3
      <4>2. v[1] = rest[1] /\ v[2] = rest[2]
        BY <1>1, <3>1
      <4>3. Len(rest) + 1 = 3
        BY <3>1
      <4> QED
        BY <3>1, <4>1, <4>2, <4>3
    <3>3. InCharacter(v, 2)
      BY <1>1, <1>3, <2>10, <3>1
    <3> QED
      BY <2>9, <3>1, <3>2, <3>3, BytesDiffer DEF InCharacter
  <2> QED
    BY <2>11, <2>12, <2>13
<1> QED
  BY <1>1, <1>2, <1>3

\* What is fed is put out up to its last character, or waits.
FedFine(rest, token, buffer, str) ==
  LET v == rest \o token
      fed == Fed([buffer |-> buffer, str |-> str], token)
  IN  /\ fed.buffer \in Texts /\ fed.str \in Texts
      /\ \E m \in 0..Len(v) :
           LET left == Piece(v, m, Len(v))
           IN  /\ fed.str = str \o Upto(v, m) /\ Whole(Upto(v, m))
               /\ \/ fed.buffer = left /\ (left = <<>> \/ BrokenEnd(left))
                  \/ /\ fed.buffer = left /\ SpaceBroken(left)
                     /\ m = 0 /\ (rest = <<>> \/ SpaceBroken(rest))
                  \/ fed.buffer = <<>> /\ left = <<Cont>>

LEMMA FedText ==
  ASSUME NEW rest \in Texts, NEW token \in Tokens, NEW buffer \in Texts, NEW str \in Texts,
         ~Severs(token), Unbroken(rest \o token),
         \/ buffer = rest /\ (rest = <<>> \/ BrokenEnd(rest) \/ SpaceBroken(rest))
         \/ buffer = <<>> /\ rest = <<Cont>>
  PROVE  FedFine(rest, token, buffer, str)
<1> DEFINE v == rest \o token
           bytes == buffer \o token
           seg == Decode(bytes)
           bad == seg = <<Space>> /\ Len(bytes) > 1
           fed == Fed([buffer |-> buffer, str |-> str], token)
           Goal(m) == LET left == Piece(v, m, Len(v))
                      IN  /\ fed.str = str \o Upto(v, m) /\ Whole(Upto(v, m))
                          /\ \/ fed.buffer = left /\ (left = <<>> \/ BrokenEnd(left))
                             \/ /\ fed.buffer = left /\ SpaceBroken(left)
                                /\ m = 0 /\ (rest = <<>> \/ SpaceBroken(rest))
                             \/ fed.buffer = <<>> /\ left = <<Cont>>
<1> SUFFICES fed.buffer \in Texts /\ fed.str \in Texts /\ \E m \in 0..Len(v) : Goal(m)
  BY Zenon DEF FedFine
<1>1. /\ token \in Texts /\ v \in Texts /\ bytes \in Texts
      /\ Len(v) = Len(rest) + Len(token) /\ Len(rest) \in Nat /\ Len(token) \in Nat
      /\ Len(bytes) = Len(buffer) + Len(token) /\ Len(v) \in Nat
      /\ \A d \in 1..Len(rest) : v[d] = rest[d]
      /\ \A d \in 1..Len(token) : v[Len(rest) + d] = token[d]
  BY TokenIsText, Joined
<1>2. /\ seg = <<>> \/ bad => fed.buffer = bytes /\ fed.str = str
      /\ ~(seg = <<>> \/ bad) => fed.buffer = <<>> /\ fed.str = str \o seg
  BY DEF Fed
<1>3. /\ <<>> \in Texts /\ Len(<<>>) = 0 /\ \A t \in Texts : (t = <<>>) = (Len(t) = 0)
      /\ \A t \in Texts : t \o <<>> = t /\ <<>> \o t = t
  BY EmptyText
<1>4. Upto(v, 0) = <<>> /\ Whole(<<>>) /\ Piece(v, 0, Len(v)) = v
  <2>1. Upto(v, 0) = <<>>
    BY SubSeqEmpty DEF Upto
  <2>2. Piece(v, 0, Len(v)) = Upto(v, Len(v))
    BY DEF Piece, Upto
  <2>3. Piece(v, 0, Len(v)) = v
    BY <1>1, <2>2, UptoAll
  <2>4. Whole(<<>>)
    BY <1>3 DEF Whole
  <2> QED
    BY <2>1, <2>3, <2>4
<1>5. Decode(<<>>) = <<>>
  BY <1>3, <1>4, DecodeWhole
<1>6. str \o Upto(v, 0) = str /\ Whole(Upto(v, 0)) /\ 0 \in 0..Len(v)
  <2>1. str \o <<>> = str
    BY <1>3
  <2>2. 0 \in 0..Len(v)
    BY <1>1
  <2> HIDE DEF v
  <2> QED
    BY <1>4, <2>1, <2>2
<1>7. CASE buffer = <<>> /\ rest = <<Cont>>
  <2>1. Len(rest) = 1 /\ rest[1] = Cont
    BY <1>7, EndFacts
  <2>2. Len(token) = 0
    <3> SUFFICES ASSUME Len(token) # 0 PROVE FALSE
      OBVIOUS
    <3>1. 1 \in 1..(Len(v) - 1)
      BY <1>1, <2>1
    <3>2. InCharacter(v, 1) /\ v[1] = Cont
      BY <1>1, <2>1, <3>1 DEF Unbroken
    <3> QED
      BY <3>2, BytesDiffer DEF InCharacter
  <2>3. token = <<>> /\ bytes = <<>> /\ v = rest
    BY <1>1, <1>3, <1>7, <2>2
  <2>4. seg = <<>>
    BY <1>5, <2>3
  <2>5. fed.buffer = <<>> /\ fed.str = str
    BY <1>2, <2>3, <2>4
  <2> HIDE DEF fed, v
  <2>6. Goal(0)
    BY <1>4, <1>6, <1>7, <2>3, <2>5
  <2> QED
    BY <1>3, <1>6, <2>5, <2>6
<1>8. CASE buffer = rest /\ (rest = <<>> \/ BrokenEnd(rest) \/ SpaceBroken(rest))
  <2>1. bytes = v
    BY <1>8
  <2>2. CASE v = <<>>
    <3>1. seg = <<>>
      BY <1>5, <2>1, <2>2
    <3>2. fed.buffer = <<>> /\ fed.str = str
      BY <1>2, <2>1, <2>2, <3>1
    <3> HIDE DEF fed, v
    <3>3. Goal(0)
      BY <1>4, <1>6, <2>2, <3>2
    <3> QED
      BY <1>3, <1>6, <3>2, <3>3
  <2>3. CASE v # <<>> /\ InCharacter(v, Len(v))
    <3>1. Whole(v)
      <4> HIDE DEF v
      <4>1. ASSUME NEW d \in 1..Len(v) PROVE InCharacter(v, d)
        <5>1. CASE d = Len(v)
          BY <2>3, <5>1
        <5>2. CASE d # Len(v)
          <6>1. d \in 1..(Len(v) - 1)
            BY <1>1, <5>2
          <6> QED
            BY <6>1 DEF v, Unbroken
        <5> QED
          BY <5>1, <5>2
      <4> QED
        BY <4>1 DEF Whole
    <3>2. seg = v
      BY <1>1, <2>1, <3>1, DecodeWhole
    <3>3. ~bad
      <4>1. <<Space>> \in Texts /\ Len(<<Space>>) = 1
        BY BytesDiffer, ShortTexts
      <4> QED
        BY <2>1, <3>2, <4>1
    <3>4. fed.buffer = <<>> /\ fed.str = str \o v
      BY <1>2, <2>3, <3>2, <3>3
    <3>5. Upto(v, Len(v)) = v /\ Len(v) \in 0..Len(v) /\ Piece(v, Len(v), Len(v)) = <<>>
      <4>1. Piece(v, Len(v), Len(v)) = <<>>
        BY <1>1, SubSeqEmpty DEF Piece
      <4>2. Upto(v, Len(v)) = v
        BY <1>1, UptoAll
      <4>3. Len(v) \in 0..Len(v)
        BY <1>1
      <4> QED
        BY <4>1, <4>2, <4>3
    <3>6. str \o v \in Texts
      BY <1>1, Joined
    <3> HIDE DEF fed, v
    <3>7. Goal(Len(v))
      BY <3>1, <3>4, <3>5
    <3> QED
      BY <1>3, <3>4, <3>5, <3>6, <3>7
  <2>4. CASE Broken(v)
    <3> DEFINE L == Len(v)
    <3>1. /\ L \in Nat /\ L >= 1 /\ seg = Upto(v, L - 1)
          /\ v[L] \in {Lead, Cont} /\ Whole(Upto(v, L - 1))
      BY <1>1, <2>1, <2>4, DecodeBroken
    <3>2. L - 1 \in 0..L /\ L - 1 \in Nat /\ L \in (L - 1)..L
      BY <3>1
    <3>3. seg \in Texts /\ Len(seg) = L - 1 /\ \A d \in 1..(L - 1) : seg[d] = v[d]
      <4> DEFINE front == Upto(v, L - 1)
      <4>1. front \in Texts /\ Len(front) = L - 1 /\ \A d \in 1..(L - 1) : front[d] = v[d]
        BY <1>1, <3>2, UptoFacts
      <4>2. seg = front
        BY <3>1
      <4> HIDE DEF front, seg
      <4> QED
        BY <4>1, <4>2
    <3>4. CASE L = 1
      <4>1. seg = <<>>
        BY <1>3, <3>3, <3>4
      <4>2. fed.buffer = v /\ fed.str = str
        BY <1>2, <2>1, <4>1
      <4>3. BrokenEnd(v)
        BY <1>1, <3>1, <3>4, EndFacts
      <4> HIDE DEF fed, v
      <4>4. Goal(0)
        BY <1>4, <1>6, <4>2, <4>3
      <4> QED
        BY <1>1, <1>6, <4>2, <4>4
    <3>5. CASE L = 2 /\ v[1] = Space
      <4>1. seg = <<Space>>
        <5>1. Len(seg) = 1 /\ seg[1] = Space
          <6>1. 1 \in 1..(L - 1)
            BY <3>5
          <6> QED
            BY <3>3, <3>5, <6>1
        <5> QED
          BY <3>3, <5>1, BytesDiffer, ShortTexts
      <4>2. fed.buffer = v /\ fed.str = str
        BY <1>2, <2>1, <3>5, <4>1
      <4>3. SpaceBroken(v)
        BY <1>1, <3>1, <3>5, EndFacts
      <4>4. rest = <<>> \/ SpaceBroken(rest)
        <5>1. ~BrokenEnd(rest)
          <6> SUFFICES ASSUME BrokenEnd(rest) PROVE FALSE
            OBVIOUS
          <6>1. Len(rest) = 1 /\ rest[1] \in {Lead, Cont}
            BY EndFacts
          <6>2. v[1] = rest[1]
            BY <1>1, <6>1
          <6> QED
            BY <3>5, <6>1, <6>2, BytesDiffer
        <5> QED
          BY <1>8, <5>1
      <4> HIDE DEF fed, v
      <4>5. Goal(0)
        BY <1>4, <1>6, <4>2, <4>3, <4>4
      <4> QED
        BY <1>1, <1>6, <4>2, <4>5
    <3>6. CASE L # 1 /\ ~(L = 2 /\ v[1] = Space)
      <4>1. seg # <<>>
        BY <1>3, <3>1, <3>3, <3>6
      <4>2. ~bad
        <5> SUFFICES ASSUME seg = <<Space>> PROVE FALSE
          OBVIOUS
        <5>1. Len(seg) = 1 /\ seg[1] = Space
          BY BytesDiffer, ShortTexts
        <5>2. L = 2 /\ 1 \in 1..(L - 1)
          BY <3>1, <3>3, <5>1
        <5>3. seg[1] = v[1]
          BY <3>3, <5>2
        <5> QED
          BY <3>6, <5>1, <5>2, <5>3
      <4>3. fed.buffer = <<>> /\ fed.str = str \o seg
        BY <1>2, <4>1, <4>2
      <4>4. v[L] # Lead
        <5> SUFFICES ASSUME v[L] = Lead PROVE FALSE
          OBVIOUS
        <5>1. L >= 2
          BY <3>1, <3>6
        <5>2. Len(v) = 2 /\ v[1] = Space
          BY <1>1, <1>8, <5>1, NoLeadDropped
        <5> QED
          BY <3>6, <5>2
      <4> DEFINE left == Piece(v, L - 1, L)
      <4>5. left = <<Cont>>
        <5>1. left \in Texts /\ Len(left) = 1 /\ left[1] = Cont
          <6>1. /\ left \in Texts /\ Len(left) = L - (L - 1)
                /\ \A d \in 1..(L - (L - 1)) : left[d] = v[(L - 1) + d]
            BY <1>1, <3>2, PieceFacts
          <6>2. L - (L - 1) = 1 /\ (L - 1) + 1 = L
            BY <3>1
          <6>3. left[1] = v[L]
            <7> HIDE DEF left, L, v
            <7>1. \A d \in 1..1 : left[d] = v[(L - 1) + d]
              BY <6>1, <6>2
            <7> QED
              BY <6>2, <7>1
          <6> QED
            BY <3>1, <4>4, <6>1, <6>2, <6>3
        <5> QED
          BY <5>1, EndFacts
      <4>6. str \o seg \in Texts
        BY <3>3, Joined
      <4> HIDE DEF fed, v, seg
      <4>7. Goal(L - 1)
        BY <3>1, <4>3, <4>5
      <4> QED
        BY <1>3, <3>2, <4>3, <4>6, <4>7
    <3> QED
      BY <3>4, <3>5, <3>6
  <2> QED
    BY <2>2, <2>3, <2>4 DEF Broken
<1> QED
  BY <1>7, <1>8

LEMMA PieceOfPiece ==
  ASSUME NEW text \in Texts, NEW m \in Nat, NEW n \in m..Len(text),
         NEW x \in Nat, NEW y \in x..(n - m)
  PROVE  Piece(Piece(text, m, n), x, y) = Piece(text, m + x, m + y)
<1> DEFINE p == Piece(text, m, n)
<1>1. Len(text) \in Nat
  BY TextFacts
<1>2. p \in Texts /\ Len(p) = n - m /\ \A d \in 1..(n - m) : p[d] = text[m + d]
  BY PieceFacts
<1>3. /\ y \in x..Len(p) /\ m + x \in Nat /\ m + y \in (m + x)..Len(text)
      /\ (m + y) - (m + x) = y - x
  BY <1>1, <1>2
<1> HIDE DEF p
<1>4. /\ Piece(p, x, y) \in Texts /\ Len(Piece(p, x, y)) = y - x
      /\ \A d \in 1..(y - x) : Piece(p, x, y)[d] = p[x + d]
  BY <1>2, <1>3, PieceFacts
<1>5. /\ Piece(text, m + x, m + y) \in Texts /\ Len(Piece(text, m + x, m + y)) = y - x
      /\ \A d \in 1..(y - x) : Piece(text, m + x, m + y)[d] = text[(m + x) + d]
  <2> DEFINE f == m + x
             g == m + y
  <2>1. f \in Nat /\ g \in f..Len(text) /\ g - f = y - x
    BY <1>3
  <2> HIDE DEF f, g
  <2>2. /\ Piece(text, f, g) \in Texts /\ Len(Piece(text, f, g)) = g - f
        /\ \A d \in 1..(g - f) : Piece(text, f, g)[d] = text[f + d]
    BY <2>1, PieceFacts
  <2>3. /\ Piece(text, f, g) \in Texts /\ Len(Piece(text, f, g)) = y - x
        /\ \A d \in 1..(y - x) : Piece(text, f, g)[d] = text[f + d]
    BY <2>1, <2>2
  <2> QED
    BY <2>3 DEF f, g
<1>6. ASSUME NEW d \in 1..(y - x) PROVE Piece(p, x, y)[d] = Piece(text, m + x, m + y)[d]
  <2>1. x + d \in 1..(n - m) /\ m + (x + d) = (m + x) + d
    BY <1>1
  <2>2. p[x + d] = text[m + (x + d)]
    BY <1>2, <2>1
  <2> QED
    BY <1>4, <1>5, <2>1, <2>2
<1>7. Piece(p, x, y) = Piece(text, m + x, m + y)
  BY <1>4, <1>5, <1>6, SameText
<1> QED
  BY <1>7 DEF p

LEMMA PieceHalves ==
  ASSUME NEW text \in Texts, NEW m \in Nat, NEW k \in Nat, NEW n \in Nat,
         m <= k, k <= n, n <= Len(text)
  PROVE  Piece(text, m, k) \o Piece(text, k, n) = Piece(text, m, n)
<1>1. Len(text) \in Nat
  BY TextFacts
<1>2. /\ m + 1 \in 1..(Len(text) + 1) /\ k \in ((m + 1) - 1)..Len(text) /\ n \in k..Len(text)
  BY <1>1
<1> QED
  BY <1>2, ConcatAdjacentSubSeq DEF Piece, Texts

\* What one more token makes of the front of c bytes: the front of e bytes
Advanced(bytes, ends, c, n, fed, str) ==
  /\ fed.buffer \in Texts /\ fed.str \in Texts
  /\ \E e \in c..ends[n + 1] : /\ Decoded(bytes, ends, e, n + 1, fed.buffer)
                               /\ fed.str = str \o Piece(bytes, c, e)

\* One more token of those that are marked
LEMMA DecodedNext ==
  ASSUME NEW bytes \in Texts, NEW tokens \in Seq(Tokens),
         NEW ends \in [0..Len(tokens) -> Nat], Marks(tokens, bytes, ends), Unbroken(bytes),
         NEW n \in 0..(Len(tokens) - 1), ~Severs(tokens[n + 1]), NEW c \in 0..ends[n],
         NEW buffer \in Texts, NEW str \in Texts, Decoded(bytes, ends, c, n, buffer),
         NEW fed, fed = Fed([buffer |-> buffer, str |-> str], tokens[n + 1])
  PROVE  Advanced(bytes, ends, c, n, fed, str)
<1> DEFINE rest == Piece(bytes, c, ends[n])
           token == tokens[n + 1]
           v == Piece(bytes, c, ends[n + 1])
           front == Upto(bytes, c)
<1>1. /\ Len(tokens) \in Nat /\ Len(bytes) \in Nat /\ n \in Nat /\ n + 1 \in 1..Len(tokens)
      /\ (n + 1) - 1 = n /\ n \in 0..Len(tokens) /\ n + 1 \in 0..Len(tokens)
      /\ token \in Tokens
  <2>1. Len(tokens) \in Nat /\ Len(bytes) \in Nat
    BY LenProperties, TextFacts
  <2>2. n + 1 \in 1..Len(tokens)
    BY <2>1
  <2> QED
    BY <2>1, <2>2, ElementOfSeq
<1>2. /\ ends[n] \in Nat /\ ends[n + 1] \in Nat /\ ends[n] <= ends[n + 1]
      /\ ends[n + 1] <= Len(bytes) /\ token = Piece(bytes, ends[n], ends[n + 1])
  <2>1. ends[n] \in Nat /\ ends[n + 1] \in Nat /\ Len(tokens) \in 0..Len(tokens)
    BY <1>1
  <2>2. ends[n] <= ends[n + 1] /\ ends[n + 1] <= ends[Len(tokens)]
    BY <1>1, <2>1 DEF Marks
  <2>3. ends[Len(tokens)] = Len(bytes)
    BY DEF Marks
  <2>4. tokens[n + 1] = Piece(bytes, ends[(n + 1) - 1], ends[n + 1])
    BY <1>1 DEF Marks
  <2> QED
    BY <1>1, <2>1, <2>2, <2>3, <2>4
<1>3. /\ c \in Nat /\ c <= ends[n] /\ c \in 0..Len(bytes) /\ ends[n + 1] \in c..Len(bytes)
      /\ ends[n] \in c..Len(bytes) /\ ends[n + 1] \in 0..Len(bytes)
  BY <1>1, <1>2
<1>4. /\ rest \in Texts /\ Len(rest) = ends[n] - c
      /\ v \in Texts /\ Len(v) = ends[n + 1] - c
      /\ front \in Texts /\ rest \o token = v
  <2>1. rest \in Texts /\ Len(rest) = ends[n] - c
    BY <1>3, PieceFacts
  <2>2. v \in Texts /\ Len(v) = ends[n + 1] - c
    BY <1>3, PieceFacts
  <2>3. front \in Texts
    BY <1>3, UptoFacts
  <2>4. Piece(bytes, c, ends[n]) \o Piece(bytes, ends[n], ends[n + 1]) = v
    BY <1>2, <1>3, PieceHalves
  <2> QED
    BY <1>2, <2>1, <2>2, <2>3, <2>4
<1>5. Whole(front) /\ Unbroken(v)
  <2>1. Whole(front)
    BY DEF Decoded
  <2>2. Unbroken(Upto(bytes, ends[n + 1]))
    BY <1>3, UnbrokenFront
  <2>3. front \o v = Upto(bytes, ends[n + 1])
    BY <1>3, Halves
  <2> QED
    BY <1>4, <2>1, <2>2, <2>3, WholeJoined
<1>6. \/ buffer = rest /\ (rest = <<>> \/ BrokenEnd(rest))
      \/ buffer = rest /\ SpaceBroken(rest) /\ \E k \in 0..(n - 1) : c = ends[k]
      \/ buffer = <<>> /\ rest = <<Cont>>
  BY DEF Decoded
<1>0. fed = Fed([buffer |-> buffer, str |-> str], token) /\ ~Severs(token)
  OBVIOUS
<1> HIDE DEF rest, token, v, front
<1>7. /\ fed.buffer \in Texts /\ fed.str \in Texts
      /\ \E m \in 0..Len(v) :
           LET left == Piece(v, m, Len(v))
           IN  /\ fed.str = str \o Upto(v, m) /\ Whole(Upto(v, m))
               /\ \/ fed.buffer = left /\ (left = <<>> \/ BrokenEnd(left))
                  \/ /\ fed.buffer = left /\ SpaceBroken(left)
                     /\ m = 0 /\ (rest = <<>> \/ SpaceBroken(rest))
                  \/ fed.buffer = <<>> /\ left = <<Cont>>
  <2>1. Unbroken(rest \o token)
    BY <1>4, <1>5
  <2>2. \/ buffer = rest /\ (rest = <<>> \/ BrokenEnd(rest) \/ SpaceBroken(rest))
        \/ buffer = <<>> /\ rest = <<Cont>>
    BY <1>6
  <2>3. rest \in Texts /\ token \in Tokens /\ ~Severs(token)
    BY <1>1, <1>4, <1>0
  <2>4. FedFine(rest, token, buffer, str)
    BY <2>1, <2>2, <2>3, FedText
  <2> QED
    BY <1>0, <1>4, <2>4 DEF FedFine
<1>8. PICK m \in 0..Len(v) :
        /\ fed.str = str \o Upto(v, m) /\ Whole(Upto(v, m))
        /\ \/ /\ fed.buffer = Piece(v, m, Len(v))
              /\ (Piece(v, m, Len(v)) = <<>> \/ BrokenEnd(Piece(v, m, Len(v))))
           \/ /\ fed.buffer = Piece(v, m, Len(v)) /\ SpaceBroken(Piece(v, m, Len(v)))
              /\ m = 0 /\ (rest = <<>> \/ SpaceBroken(rest))
           \/ fed.buffer = <<>> /\ Piece(v, m, Len(v)) = <<Cont>>
  BY <1>7
<1> DEFINE e == c + m
<1>9. e \in c..ends[n + 1] /\ e \in Nat /\ m \in Nat /\ m <= Len(v) /\ e \in c..Len(bytes)
  BY <1>2, <1>3, <1>4
<1>10. Piece(bytes, c, e) = Upto(v, m)
  <2>1. Piece(Piece(bytes, c, ends[n + 1]), 0, m) = Piece(bytes, c + 0, c + m)
    <3>1. 0 \in Nat /\ m \in 0..(ends[n + 1] - c)
      BY <1>4, <1>9
    <3> QED
      BY <1>3, <3>1, PieceOfPiece
  <2>2. c + 0 = c /\ Piece(v, 0, m) = Upto(v, m)
    BY <1>3 DEF Piece, Upto
  <2> QED
    BY <2>1, <2>2 DEF v
<1>11. Piece(bytes, e, ends[n + 1]) = Piece(v, m, Len(v))
  <2>1. Piece(Piece(bytes, c, ends[n + 1]), m, Len(v)) = Piece(bytes, c + m, c + Len(v))
    <3>1. Len(v) \in m..(ends[n + 1] - c)
      BY <1>4, <1>9
    <3> QED
      BY <1>3, <1>9, <3>1, PieceOfPiece
  <2>2. c + Len(v) = ends[n + 1]
    BY <1>2, <1>3, <1>4
  <2> QED
    BY <2>1, <2>2 DEF v
<1>12. Whole(Upto(bytes, e))
  <2>1. Upto(bytes, e) = front \o Upto(v, m)
    BY <1>3, <1>9, <1>10, Halves DEF front
  <2>2. Upto(v, m) \in Texts
    BY <1>4, UptoFacts
  <2> QED
    BY <1>4, <1>5, <1>8, <2>1, <2>2, WholeJoined
<1> DEFINE left == Piece(bytes, e, ends[n + 1])
<1>13. \/ fed.buffer = left /\ (left = <<>> \/ BrokenEnd(left))
       \/ fed.buffer = left /\ SpaceBroken(left) /\ \E k \in 0..((n + 1) - 1) : e = ends[k]
       \/ fed.buffer = <<>> /\ left = <<Cont>>
  <2>1. CASE /\ fed.buffer = Piece(v, m, Len(v)) /\ SpaceBroken(Piece(v, m, Len(v)))
             /\ m = 0 /\ (rest = <<>> \/ SpaceBroken(rest))
    <3>1. e = c
      BY <1>3, <2>1
    <3>2. CASE rest = <<>>
      <4>1. Len(rest) = 0
        BY <3>2, EmptyText
      <4>2. c = ends[n]
        <5>1. Len(rest) = ends[n] - c
          BY <1>4
        <5> HIDE DEF rest
        <5> QED
          BY <1>2, <1>3, <4>1, <5>1
      <4>3. n \in 0..((n + 1) - 1)
        BY <1>1
      <4> QED
        BY <1>11, <2>1, <3>1, <4>2, <4>3
    <3>3. CASE SpaceBroken(rest)
      <4>1. rest # <<>> /\ ~BrokenEnd(rest) /\ rest # <<Cont>>
        BY <1>4, <3>3, OneEnd
      <4>2. PICK k \in 0..(n - 1) : c = ends[k]
        BY <1>6, <4>1
      <4>3. k \in 0..((n + 1) - 1)
        BY <1>1
      <4> QED
        BY <1>11, <2>1, <3>1, <4>2, <4>3
    <3> QED
      BY <2>1, <3>2, <3>3
  <2> QED
    BY <1>8, <1>11, <2>1
<1>14. Decoded(bytes, ends, e, n + 1, fed.buffer)
  BY <1>12, <1>13, Zenon DEF Decoded
<1>15. fed.str = str \o Piece(bytes, c, e)
  BY <1>8, <1>10
<1>16. \E f \in c..ends[n + 1] : /\ Decoded(bytes, ends, f, n + 1, fed.buffer)
                                 /\ fed.str = str \o Piece(bytes, c, f)
  <2> HIDE DEF e
  <2> QED
    BY <1>9, <1>14, <1>15
<1> QED
  BY <1>7, <1>16 DEF Advanced

\* One more token, however it ends
LEMMA LossyNext ==
  ASSUME NEW bytes \in Texts, NEW tokens \in Seq(Tokens),
         NEW ends \in [0..Len(tokens) -> Nat], Marks(tokens, bytes, ends),
         NEW n \in 0..(Len(tokens) - 1), NEW out \in Texts, NEW buffer \in Texts,
         NEW str \in Texts, Lossy(bytes, ends, n, out \o str, buffer),
         NEW fed, fed = Fed([buffer |-> buffer, str |-> str], tokens[n + 1])
  PROVE  Lossy(bytes, ends, n + 1, out \o fed.str, fed.buffer)
<1>0. PICK c \in 0..ends[n] :
        \E B \in SUBSET (0..c) : LossyAt(bytes, ends, n, c, B, out \o str, buffer)
  BY DEF Lossy
<1>1. PICK B \in SUBSET (0..c) : LossyAt(bytes, ends, n, c, B, out \o str, buffer)
  BY <1>0
<1> DEFINE token == tokens[n + 1]
           e == ends[n + 1]
           v == Piece(bytes, c, e)
           front == Upto(bytes, c)
           seg == Decode(v)
<1>2. /\ Len(tokens) \in Nat /\ Len(bytes) \in Nat /\ n \in Nat /\ n + 1 \in 1..Len(tokens)
      /\ (n + 1) - 1 = n /\ n \in 0..Len(tokens) /\ n + 1 \in 0..Len(tokens)
      /\ token \in Tokens
  <2>1. Len(tokens) \in Nat /\ Len(bytes) \in Nat
    BY LenProperties, TextFacts
  <2>2. n + 1 \in 1..Len(tokens)
    BY <2>1
  <2> QED
    BY <2>1, <2>2, ElementOfSeq
<1>3. /\ ends[n] \in Nat /\ e \in Nat /\ ends[n] <= e
      /\ e <= Len(bytes) /\ token = Piece(bytes, ends[n], e)
  <2>1. ends[n] \in Nat /\ e \in Nat /\ Len(tokens) \in 0..Len(tokens)
    BY <1>2
  <2>2. ends[n] <= e /\ e <= ends[Len(tokens)]
    BY <1>2, <2>1 DEF Marks
  <2>3. ends[Len(tokens)] = Len(bytes)
    BY DEF Marks
  <2>4. tokens[n + 1] = Piece(bytes, ends[(n + 1) - 1], ends[n + 1])
    BY <1>2 DEF Marks
  <2> QED
    BY <1>2, <2>1, <2>2, <2>3, <2>4
<1>4. /\ c \in Nat /\ c <= ends[n] /\ c \in 0..Len(bytes) /\ e \in c..Len(bytes)
      /\ e \in 0..Len(bytes) /\ c \in 0..e
  BY <1>2, <1>3
<1>5. /\ v \in Texts /\ Len(v) = e - c /\ front \in Texts /\ Len(front) = c
      /\ buffer \o token = v /\ front \o v = Upto(bytes, e)
  <2>1. v \in Texts /\ Len(v) = e - c
    BY <1>4, PieceFacts
  <2>2. front \in Texts /\ Len(front) = c
    BY <1>4, UptoFacts
  <2>3. Piece(bytes, c, ends[n]) \o Piece(bytes, ends[n], e) = v
    BY <1>3, <1>4, PieceHalves
  <2>4. buffer = Piece(bytes, c, ends[n])
    BY <1>1 DEF LossyAt
  <2>5. front \o v = Upto(bytes, e)
    BY <1>4, Halves
  <2> QED
    BY <1>3, <2>1, <2>2, <2>3, <2>4, <2>5
<1>6. /\ c \in B /\ \A b \in B : \E k \in 0..n : b = ends[k]
      /\ out \o str = Remains(front, B)
  BY <1>1 DEF LossyAt
<1>7. \A b \in B : \E k \in 0..(n + 1) : b = ends[k]
  <2>1. \A k \in 0..n : k \in 0..(n + 1)
    BY <1>2
  <2> QED
    BY <1>6, <2>1
<1>8. /\ Remains(front, B) \in Texts /\ seg \in Texts
      /\ Remains(front \o v, B) = Remains(front, B) \o seg
  <2>1. B \in SUBSET (0..Len(front)) /\ Len(front) \in B
    BY <1>5, <1>6
  <2> HIDE DEF front, v
  <2> QED
    BY <1>5, <2>1, RemainsJoined
<1> DEFINE waits == seg = <<>> \/ (seg = <<Space>> /\ Len(v) > 1)
<1>9. /\ waits => fed.buffer = v /\ fed.str = str
      /\ ~waits => fed.buffer = <<>> /\ fed.str = str \o seg
  <2>1. buffer \o token = v
    BY <1>5
  <2> HIDE DEF v
  <2> QED
    BY <2>1 DEF Fed
<1>10. CASE waits
  <2>1. LossyAt(bytes, ends, n + 1, c, B, out \o fed.str, fed.buffer)
    <3>1. Decode(fed.buffer) \in {<<>>, <<Space>>}
      BY <1>9, <1>10
    <3>2. fed.buffer = Piece(bytes, c, ends[n + 1]) /\ fed.str = str
      BY <1>9, <1>10
    <3> HIDE DEF front, v, seg, waits
    <3> QED
      BY <1>6, <1>7, <3>1, <3>2, Zenon DEF LossyAt, front
  <2> QED
    BY <1>4, <2>1 DEF Lossy
<1>11. CASE ~waits
  <2> DEFINE C == B \union {e}
             text == Upto(bytes, e)
  <2>1. C \in SUBSET (0..e) /\ e \in C
    BY <1>4
  <2>2. Remains(text, C) = Remains(text, B)
    <3>1. text \in Texts /\ Len(text) = e
      BY <1>4, UptoFacts
    <3> HIDE DEF text
    <3> QED
      BY <3>1, RemainsMore
  <2>3. out \o fed.str = Remains(text, C)
    <3>1. (out \o str) \o seg = out \o (str \o seg)
      <4> HIDE DEF seg
      <4> QED
        BY <1>8, Assoc
    <3>2. front \o v = text
      BY <1>5
    <3> HIDE DEF front, v, text, seg, waits
    <3>3. fed.str = str \o seg
      BY <1>9, <1>11
    <3>4. Remains(text, B) = (out \o str) \o seg
      BY <1>6, <1>8, <3>2
    <3> QED
      BY <2>2, <3>1, <3>3, <3>4
  <2>4. \A b \in C : \E k \in 0..(n + 1) : b = ends[k]
    <3>1. n + 1 \in 0..(n + 1)
      BY <1>2
    <3> QED
      BY <1>7, <3>1
  <2>5. Piece(bytes, e, e) = <<>> /\ Decode(<<>>) = <<>>
    <3>1. Piece(bytes, e, e) = <<>>
      BY <1>3, SubSeqEmpty DEF Piece
    <3>2. Decode(<<>>) = <<>>
      BY EmptyText, DecodeWhole DEF Whole
    <3> QED
      BY <3>1, <3>2
  <2>6. LossyAt(bytes, ends, n + 1, e, C, out \o fed.str, fed.buffer)
    <3>1. fed.buffer = <<>>
      BY <1>9, <1>11
    <3> HIDE DEF C
    <3> QED
      BY <2>1, <2>3, <2>4, <2>5, <3>1 DEF LossyAt
  <2>7. e \in 0..ends[n + 1]
    BY <1>3
  <2> HIDE DEF C, e
  <2> QED
    BY <2>1, <2>6, <2>7 DEF Lossy
<1> QED
  BY <1>10, <1>11

-----------------------------------------------------------------------------
(* Sending, and a token more                                               *)

LEMMA CutIsText ==
  ASSUME NEW text \in Texts
  PROVE  Cut(text) \in Texts /\ Len(Cut(text)) \in 0..Len(text)
<1>1. PICK n \in 0..Len(text) : Cut(text) = Upto(text, n)
  BY CutFront
<1> QED
  BY <1>1, UptoFacts

\* What is sent after all of the front was kept: the front again when nothing was cut off.
LEMMA SentFront ==
  ASSUME NEW front \in Texts, NEW out \in Texts, NEW reserve \in Texts, NEW str \in Texts,
         Uncut(front, out, reserve, str)
  PROVE  /\ reserve \o str \in Texts
         /\ Uncut(front, out \o (reserve \o str), <<>>, <<>>)
         /\ Clean(front) => Cut(reserve \o str) = reserve \o str
         /\ WasCut(front, out \o Cut(reserve \o str), <<>>, <<>>)
<1> DEFINE v == reserve \o str
           c == Cut(v)
<1>1. v \in Texts /\ out \o v \in Texts /\ Len(out \o v) = Len(out) + Len(v)
      /\ Len(out) \in Nat /\ Len(v) \in Nat
  <2>1. v \in Texts
    BY Joined
  <2> QED
    BY <2>1, Joined
<1>2. front = out \o v
  BY Assoc DEF Uncut
<1> HIDE DEF v
<1>3. Uncut(front, out \o v, <<>>, <<>>)
  <2>1. (out \o v) \o <<>> = out \o v
    BY <1>1, EmptyText
  <2> QED
    BY <1>2, <2>1 DEF Uncut
<1>4. Clean(front) => c = v
  BY <1>1, <1>2, CleanParts, CutClean
<1>5. WasCut(front, out \o c, <<>>, <<>>)
  <2>1. PICK n \in 0..Len(v) : c = Upto(v, n)
    BY <1>1, CutFront
  <2>2. Upto(out \o v, Len(out) + n) = out \o Upto(v, n)
    BY <1>1, UptoJoined
  <2>3. Len(out) + n \in 0..Len(front)
    BY <1>1, <1>2
  <2>4. Len(c) = n
    BY <1>1, <2>1, UptoFacts
  <2>5. Len(Cut(front)) <= Len(out) + n
    <3>1. Len(Cut(out \o v)) <= Len(out) \/ Cut(out \o v) = out \o c
      BY <1>1, CutJoined
    <3>2. Len(out \o c) = Len(out) + Len(c)
      BY <1>1, CutIsText, Joined
    <3>3. Len(Cut(front)) \in Nat
      BY CutIsText, TextFacts
    <3> HIDE DEF c
    <3> QED
      BY <1>1, <1>2, <2>4, <3>1, <3>2, <3>3
  <2>6. out \o c = Upto(front, Len(out) + n)
    BY <1>2, <2>1, <2>2
  <2> QED
    BY <2>3, <2>5, <2>6 DEF WasCut
<1> QED
  BY <1>1, <1>3, <1>4, <1>5 DEF v

LEMMA NothingCut ==
  /\ <<>> \o <<>> = <<>> /\ Cut(<<>>) = <<>>
<1>1. <<>> \in Texts /\ <<>> \o <<>> = <<>>
  BY EmptyText
<1>2. Len(Cut(<<>>)) \in 0..Len(<<>>) /\ Cut(<<>>) \in Texts
  BY <1>1, CutIsText
<1>3. Len(Cut(<<>>)) = 0
  BY <1>2, EmptyText
<1> QED
  BY <1>1, <1>2, <1>3, EmptyText

\* The marks when token t comes
Marked(ends, n, e) == [k \in 0..(n + 1) |-> IF k <= n THEN ends[k] ELSE e]

LEMMA MarkedNext ==
  ASSUME NEW bytes \in Texts, NEW tokens \in Seq(Tokens),
         NEW ends \in [0..Len(tokens) -> Nat], Marks(tokens, bytes, ends),
         NEW t \in Tokens, NEW left \in Nat, NEW remaining \in Nat,
         Unstopped(bytes, ends, Len(tokens), left), left > 0,
         remaining > 0 => Clean(bytes \o t)
  PROVE  LET more == Marked(ends, Len(tokens), Len(bytes \o t))
         IN  /\ more \in [0..Len(Append(tokens, t)) -> Nat]
             /\ \A k \in 0..Len(tokens) : more[k] = ends[k]
             /\ Marks(Append(tokens, t), bytes \o t, more)
             /\ Unstopped(bytes \o t, more, Len(Append(tokens, t)), remaining)
<1> DEFINE n == Len(tokens)
           text == bytes \o t
           longer == Append(tokens, t)
           more == Marked(ends, n, Len(text))
<1>1. /\ n \in Nat /\ t \in Texts /\ text \in Texts /\ Len(text) = Len(bytes) + Len(t)
      /\ Len(bytes) \in Nat /\ Len(t) \in Nat
  BY LenProperties, TokenIsText, Joined
<1>2. /\ longer \in Seq(Tokens) /\ Len(longer) = n + 1 /\ longer[n + 1] = t
      /\ \A k \in 1..n : longer[k] = tokens[k]
  BY AppendProperties
<1>3. /\ more \in [0..(n + 1) -> Nat]
      /\ \A k \in 0..n : more[k] = ends[k]
      /\ more[n + 1] = Len(text)
  <2> HIDE DEF text
  <2>1. Len(text) \in Nat
    BY <1>1
  <2> QED
    BY <1>1, <2>1 DEF Marked
<1>4. /\ ends[0] = 0 /\ ends[n] = Len(bytes)
      /\ \A k, l \in 0..n : k <= l => ends[k] <= ends[l]
      /\ \A k \in 1..n : Piece(bytes, ends[k - 1], ends[k]) = tokens[k]
  BY DEF Marks
<1>5. \A k \in 0..n : ends[k] \in Nat /\ ends[k] <= Len(bytes)
  <2>1. ASSUME NEW k \in 0..n PROVE ends[k] \in Nat /\ ends[k] <= Len(bytes)
    <3>1. ends[k] \in Nat /\ k <= n /\ n \in 0..n
      BY <1>1
    <3> QED
      BY <1>4, <3>1
  <2> QED
    BY <2>1
<1> HIDE DEF more, longer
<1>6. \A k, l \in 0..(n + 1) : k <= l => more[k] <= more[l]
  <2>1. ASSUME NEW k \in 0..(n + 1), NEW l \in 0..(n + 1), k <= l
        PROVE  more[k] <= more[l]
    <3>1. CASE l \in 0..n
      <4>1. k \in 0..n
        BY <1>1, <2>1, <3>1
      <4>2. more[k] = ends[k] /\ more[l] = ends[l] /\ ends[k] <= ends[l]
        BY <1>3, <1>4, <2>1, <3>1, <4>1
      <4> QED
        BY <4>2
    <3>2. CASE l = n + 1 /\ k \in 0..n
      <4>1. more[k] = ends[k] /\ more[l] = Len(text) /\ ends[k] <= Len(bytes) /\ ends[k] \in Nat
        BY <1>3, <1>5, <3>2
      <4> QED
        BY <1>1, <4>1
    <3>3. CASE l = n + 1 /\ k = n + 1
      BY <1>1, <1>3, <3>3
    <3> QED
      BY <1>1, <3>1, <3>2, <3>3
  <2> QED
    BY <2>1
<1>7. \A k \in 1..(n + 1) : Piece(text, more[k - 1], more[k]) = longer[k]
  <2>1. ASSUME NEW k \in 1..(n + 1) PROVE Piece(text, more[k - 1], more[k]) = longer[k]
    <3>1. CASE k \in 1..n
      <4>1. k - 1 \in 0..n /\ k \in 0..n /\ k - 1 <= k
        BY <1>1, <3>1
      <4>2. more[k - 1] = ends[k - 1] /\ more[k] = ends[k]
        BY <1>3, <4>1
      <4>3. /\ ends[k - 1] \in Nat /\ ends[k] \in Nat /\ ends[k - 1] <= ends[k]
            /\ ends[k] <= Len(bytes)
        BY <1>4, <1>5, <4>1
      <4>4. Piece(bytes \o t, ends[k - 1], ends[k]) = Piece(bytes, ends[k - 1], ends[k])
        BY <1>1, <4>3, PieceJoined
      <4> QED
        BY <1>2, <1>4, <3>1, <4>2, <4>4
    <3>2. CASE k = n + 1
      <4>1. k - 1 = n /\ n \in 0..n
        BY <1>1, <3>2
      <4>2. more[k - 1] = Len(bytes) /\ more[k] = Len(text)
        BY <1>3, <1>4, <3>2, <4>1
      <4>3. Piece(bytes \o t, Len(bytes), Len(bytes \o t)) = t
        BY <1>1, UptoJoined
      <4> QED
        BY <1>2, <3>2, <4>2, <4>3
    <3> QED
      BY <1>1, <3>1, <3>2
  <2> QED
    BY <2>1
<1>8. Marks(longer, text, more)
  <2>1. more[0] = 0 /\ more[n + 1] = Len(text)
    BY <1>1, <1>3, <1>4
  <2> HIDE DEF text
  <2> QED
    BY <1>2, <1>6, <1>7, <2>1 DEF Marks
<1>9. Unstopped(text, more, n + 1, remaining)
  <2>1. ASSUME NEW k \in 0..(n + 1), k < n + 1 \/ remaining > 0
        PROVE  Clean(Upto(text, more[k]))
    <3>1. CASE k \in 0..n
      <4>1. Clean(Upto(bytes, ends[k]))
        BY <3>1 DEF Unstopped
      <4>2. ends[k] \in 0..Len(bytes)
        BY <1>1, <1>5, <3>1
      <4>3. Upto(bytes \o t, ends[k]) = Upto(bytes, ends[k])
        BY <1>1, <4>2, UptoJoined
      <4> QED
        BY <1>3, <3>1, <4>1, <4>3
    <3>2. CASE k = n + 1
      <4>1. remaining > 0
        BY <1>1, <2>1, <3>2
      <4>2. Clean(text) /\ Upto(text, Len(text)) = text
        BY <1>1, <4>1, UptoAll
      <4> QED
        BY <1>3, <3>2, <4>2
    <3> QED
      BY <1>1, <3>1, <3>2
  <2> HIDE DEF text
  <2> QED
    BY <2>1, Zenon DEF Unstopped
<1> QED
  BY <1>2, <1>3, <1>8, <1>9 DEF more, longer

-----------------------------------------------------------------------------
(* The steps                                                               *)

LEMMA FedTyped ==
  ASSUME NEW buffer \in Texts, NEW str \in Texts, NEW token \in Tokens
  PROVE  /\ Fed([buffer |-> buffer, str |-> str], token).buffer \in Texts
         /\ Fed([buffer |-> buffer, str |-> str], token).str \in Texts
<1> DEFINE bytes == buffer \o token
           seg == Decode(bytes)
           fed == Fed([buffer |-> buffer, str |-> str], token)
<1>1. bytes \in Texts
  BY TokenIsText, Joined
<1>2. seg \in Texts
  <2> HIDE DEF bytes
  <2>1. Len(bytes) \in 0..Len(bytes)
    BY <1>1, TextFacts
  <2> QED
    BY <1>1, <2>1, DecodeSteps
<1>3. str \o seg \in Texts /\ <<>> \in Texts
  BY <1>2, Joined, EmptyText
<1>4. \/ fed.buffer = bytes /\ fed.str = str
      \/ fed.buffer = <<>> /\ fed.str = str \o seg
  BY DEF Fed
<1> QED
  BY <1>1, <1>3, <1>4

LEMMA TrimmedTyped ==
  ASSUME NEW text \in Texts
  PROVE  Trimmed(text) \in Texts
BY CutIsText DEF Trimmed

\* The token that is fetched next is one of those generated.
LEMMA NextToken ==
  ASSUME Typed, InStep, current_token < streamcount
  PROVE  /\ Len(generated_tokens) \in Nat
         /\ current_token + 1 \in 1..Len(generated_tokens)
         /\ current_token \in 0..(Len(generated_tokens) - 1)
         /\ generated_tokens[current_token + 1] \in Tokens
<1>1. generated_tokens \in Seq(Tokens) /\ current_token \in Nat /\ streamcount \in Nat
  BY DEF Typed
<1>2. Len(generated_tokens) \in Nat
  BY <1>1, LenProperties
<1>3. current_token + 1 \in 1..Len(generated_tokens)
  BY <1>1, <1>2 DEF InStep
<1> QED
  BY <1>1, <1>2, <1>3, ElementOfSeq

LEMMA InitStreams ==
  ASSUME Init
  PROVE  StreamInv
<1>1. <<>> \in Texts /\ Len(<<>>) = 0 /\ <<>> \o <<>> = <<>> /\ MaxTokens \in Nat
  BY EmptyText, NothingCut, TokensAssumption
<1>2. Typed
  <2>1. <<>> \in Seq(Tokens)
    BY EmptySeq
  <2> QED
    BY <1>1, <2>1 DEF Init, Typed
<1>3. InStep
  BY <1>1 DEF Init, InStep
<1>4. Cutting
  <2> DEFINE ends == [k \in 0..0 |-> 0]
  <2>1. Len(generated_tokens) = 0 /\ Len(concat_output) = 0 /\ current_token = 0
    BY <1>1 DEF Init
  <2>2. ends \in [0..Len(generated_tokens) -> Nat] /\ ends[0] = 0 /\ \A k \in 0..0 : k = 0
    BY <2>1
  <2> HIDE DEF ends
  <2>3. Marks(generated_tokens, concat_output, ends)
    BY <2>1, <2>2 DEF Marks
  <2>4. Upto(<<>>, 0) = <<>> /\ Piece(<<>>, 0, 0) = <<>>
    BY SubSeqEmpty DEF Upto, Piece
  <2>5. concat_output = <<>>
    BY DEF Init
  <2>6. Unstopped(concat_output, ends, Len(generated_tokens), remaining_tokens)
    BY <2>1, <2>2, <2>4, <2>5, NothingClean DEF Unstopped
  <2>7. Whole(<<>>)
    BY <1>1 DEF Whole
  <2>8. Decoded(concat_output, ends, 0, current_token, incomplete_token_buffer)
    BY <2>1, <2>2, <2>4, <2>5, <2>7 DEF Decoded, Init
  <2>9. Delivered(ends, 0)
    <3>1. sent = <<>> /\ tokenReserve = <<>> /\ tokenStr = <<>>
      BY DEF Init
    <3> QED
      BY <1>1, <2>4, <2>5, <3>1, Zenon DEF Delivered, Uncut
  <2>10. Streaming(ends)
    BY <2>1, <2>2, <2>8, <2>9 DEF Streaming
  <2>11. Losing(ends)
    <3>1. sent = <<>> /\ tokenReserve = <<>> /\ tokenStr = <<>> /\ incomplete_token_buffer = <<>>
      BY DEF Init
    <3>2. (sent \o tokenReserve) \o tokenStr = <<>>
      BY <1>1, <3>1
    <3>3. Decode(<<>>) = <<>> /\ Remains(<<>>, {0}) = <<>>
      <4>1. Decode(<<>>) = <<>>
        BY <1>1, <2>7, DecodeWhole
      <4>2. Pieces(<<>>, {0}) = {} /\ Readable(<<>>) = {}
        BY <1>1 DEF Pieces, Readable
      <4> QED
        BY <4>1, <4>2 DEF Decode, Remains
    <3>4. LossyAt(<<>>, ends, 0, 0, {0}, <<>>, <<>>)
      BY <2>2, <2>4, <3>3 DEF LossyAt
    <3>5. 0 \in 0..ends[0] /\ {0} \in SUBSET (0..0)
      BY <2>2
    <3>6. Lossy(<<>>, ends, 0, <<>>, <<>>)
      BY <3>4, <3>5 DEF Lossy
    <3> QED
      BY <2>1, <2>5, <3>1, <3>2, <3>6 DEF Losing
  <2> QED
    BY <2>2, <2>3, <2>6, <2>10, <2>11 DEF Cutting
<1> QED
  BY <1>2, <1>3, <1>4 DEF StreamInv

LEMMA TypedStep ==
  ASSUME Typed, InStep, [Next]_vars
  PROVE  Typed'
<1>1. <<>> \in Texts
  BY EmptyText
<1>2. ASSUME NEW t \in Tokens, Generate(t) PROVE Typed'
  <2>1. Append(generated_tokens, t) \in Seq(Tokens)
    BY AppendProperties DEF Typed
  <2>2. concat_output \o t \in Texts
    BY TokenIsText, Joined DEF Typed
  <2>3. remaining_tokens' \in Nat
    <3>1. remaining_tokens' \in {remaining_tokens - 1, 0} /\ remaining_tokens > 0
      BY <1>2 DEF Generate
    <3> QED
      BY <3>1 DEF Typed
  <2> QED
    BY <1>2, <2>1, <2>2, <2>3 DEF Generate, Typed, flagVars, textVars
<1>3. CASE FinishGeneration
  BY <1>3 DEF FinishGeneration, Typed, flagVars, textVars
<1>4. CASE Abort
  BY <1>4 DEF Abort, StopGeneration, Typed, flagVars, textVars
<1>5. CASE ReadFlag
  BY <1>5 DEF ReadFlag, Typed, nativeVars, textVars
<1>6. CASE ReadCount
  <2>1. Len(generated_tokens) \in Nat
    BY LenProperties DEF Typed
  <2> QED
    BY <1>6, <2>1 DEF ReadCount, Typed, nativeVars, textVars
<1>7. CASE FetchToken
  <2>1. current_token < streamcount
    BY <1>7 DEF FetchToken
  <2>2. /\ incomplete_token_buffer' \in Texts /\ tokenStr' \in Texts
    BY <1>7, <2>1, NextToken, FedTyped DEF FetchToken, Typed
  <2> QED
    BY <1>7, <2>2 DEF FetchToken, Typed, nativeVars, flagVars
<1>8. CASE NothingNew
  BY <1>8 DEF NothingNew, Typed, nativeVars, flagVars, textVars
<1>9. CASE Hold
  <2>1. tokenReserve \o tokenStr \in Texts
    BY Joined DEF Typed
  <2> QED
    BY <1>1, <1>9, <2>1 DEF Hold, Typed, nativeVars, flagVars
<1>10. CASE Send
  <2>1. sent \o Trimmed(tokenReserve \o tokenStr) \in Texts
    <3>1. tokenReserve \o tokenStr \in Texts
      BY Joined DEF Typed
    <3> QED
      BY <3>1, TrimmedTyped, Joined DEF Typed
  <2> QED
    BY <1>1, <1>10, <2>1 DEF Send, Typed, nativeVars, flagVars
<1>11. CASE SendFails
  BY <1>11 DEF SendFails, StopGeneration, Typed, flagVars, textVars
<1>12. CASE UNCHANGED vars
  BY <1>12 DEF vars, Typed, nativeVars, flagVars, textVars
<1> QED
  BY <1>2, <1>3, <1>4, <1>5, <1>6, <1>7, <1>8, <1>9, <1>10, <1>11, <1>12
     DEF Next, Native, Stream

LEMMA InStepStep ==
  ASSUME Typed, InStep, [Next]_vars
  PROVE  InStep'
<1>1. /\ Len(generated_tokens) \in Nat /\ remaining_tokens \in Nat
      /\ current_token \in Nat /\ streamcount \in Nat
  BY LenProperties DEF Typed
<1>2. ASSUME NEW t \in Tokens, Generate(t) PROVE InStep'
  <2>1. /\ remaining_tokens > 0 /\ Len(generated_tokens') = Len(generated_tokens) + 1
        /\ ~generation_finished /\ ~streamDone /\ pc # "closed"
    <3>1. generated_tokens \in Seq(Tokens)
      BY DEF Typed
    <3>2. remaining_tokens > 0 /\ generated_tokens' = Append(generated_tokens, t)
      BY <1>2 DEF Generate
    <3>3. Len(generated_tokens') = Len(generated_tokens) + 1
      BY <3>1, <3>2, AppendProperties
    <3> QED
      BY <1>1, <3>2, <3>3 DEF InStep
  <2> QED
    BY <1>1, <1>2, <2>1 DEF Generate, InStep, flagVars, textVars
<1>3. CASE FinishGeneration
  BY <1>3 DEF FinishGeneration, InStep, flagVars, textVars
<1>4. CASE Abort
  BY <1>4 DEF Abort, StopGeneration, InStep, flagVars, textVars
<1>5. CASE ReadFlag
  BY <1>5 DEF ReadFlag, InStep, nativeVars, textVars
<1>6. CASE ReadCount
  BY <1>1, <1>6 DEF ReadCount, InStep, nativeVars, textVars
<1>7. CASE FetchToken
  BY <1>1, <1>7 DEF FetchToken, InStep, nativeVars, flagVars
<1>8. CASE NothingNew
  BY <1>8 DEF NothingNew, InStep, nativeVars, flagVars, textVars
<1>9. CASE Hold
  BY <1>9 DEF Hold, Fetched, InStep, nativeVars, flagVars
<1>10. CASE Send
  BY <1>10 DEF Send, Sending, Fetched, InStep, nativeVars, flagVars
<1>11. CASE SendFails
  BY <1>11 DEF SendFails, StopGeneration, InStep, flagVars, textVars
<1>12. CASE UNCHANGED vars
  BY <1>12 DEF vars, InStep, nativeVars, flagVars, textVars
<1> QED
  BY <1>2, <1>3, <1>4, <1>5, <1>6, <1>7, <1>8, <1>9, <1>10, <1>11, <1>12
     DEF Next, Native, Stream

LEMMA MarkFacts ==
  ASSUME Typed, InStep, NEW ends \in [0..Len(generated_tokens) -> Nat],
         Marks(generated_tokens, concat_output, ends)
  PROVE  /\ Len(generated_tokens) \in Nat /\ Len(concat_output) \in Nat
         /\ current_token \in 0..Len(generated_tokens)
         /\ \A k \in 0..Len(generated_tokens) : ends[k] \in 0..Len(concat_output)
         /\ ends[Len(generated_tokens)] = Len(concat_output)
<1>1. /\ Len(generated_tokens) \in Nat /\ Len(concat_output) \in Nat
      /\ current_token \in Nat /\ streamcount \in Nat
  BY LenProperties, TextFacts DEF Typed
<1>2. current_token \in 0..Len(generated_tokens)
  BY <1>1 DEF InStep
<1>3. ends[Len(generated_tokens)] = Len(concat_output)
  BY DEF Marks
<1>4. ASSUME NEW k \in 0..Len(generated_tokens) PROVE ends[k] \in 0..Len(concat_output)
  <2>1. k <= Len(generated_tokens) /\ Len(generated_tokens) \in 0..Len(generated_tokens)
    BY <1>1
  <2>2. ends[k] <= ends[Len(generated_tokens)] /\ ends[k] \in Nat
    BY <2>1 DEF Marks
  <2> QED
    BY <1>1, <1>3, <2>2
<1> QED
  BY <1>1, <1>2, <1>3, <1>4

\* Steps that only read, or stop the generation
LEMMA NothingMoved ==
  ASSUME Typed, InStep, Cutting,
         UNCHANGED <<trim, generated_tokens, concat_output, current_token, textVars>>,
         remaining_tokens' = remaining_tokens \/ remaining_tokens' = 0
  PROVE  Cutting'
<1>1. PICK ends \in [0..Len(generated_tokens) -> Nat] :
        /\ Marks(generated_tokens, concat_output, ends)
        /\ Unstopped(concat_output, ends, Len(generated_tokens), remaining_tokens)
        /\ Sound => Streaming(ends)
        /\ ~trim => Losing(ends)
  BY DEF Cutting
<1>2. /\ trim' = trim /\ generated_tokens' = generated_tokens
      /\ concat_output' = concat_output /\ current_token' = current_token
      /\ incomplete_token_buffer' = incomplete_token_buffer /\ tokenStr' = tokenStr
      /\ tokenReserve' = tokenReserve /\ sent' = sent
  BY DEF textVars
<1>3. Unstopped(concat_output, ends, Len(generated_tokens), remaining_tokens')
  <2>1. remaining_tokens' > 0 => remaining_tokens > 0
    OBVIOUS
  <2> QED
    BY <1>1, <2>1 DEF Unstopped
<1>4. Sound' => Sound
  BY <1>2 DEF Sound, WellFormed, NoneSevers
<1>5. ASSUME Streaming(ends) PROVE Streaming(ends)'
  <2>1. PICK c \in 0..ends[current_token] :
          /\ Decoded(concat_output, ends, c, current_token, incomplete_token_buffer)
          /\ Delivered(ends, c)
    BY <1>5 DEF Streaming
  <2>2. Delivered(ends, c)'
    BY <1>2, <2>1 DEF Delivered
  <2> QED
    BY <1>2, <2>1, <2>2 DEF Streaming
<1>6. Losing(ends) => Losing(ends)'
  BY <1>2 DEF Losing
<1> QED
  BY <1>1, <1>2, <1>3, <1>4, <1>5, <1>6 DEF Cutting

\* Another token changes nothing of what has been put out.
LEMMA LossyGrown ==
  ASSUME NEW bytes \in Texts, NEW t \in Texts, NEW n \in Nat, NEW ends, NEW more,
         \A k \in 0..n : ends[k] \in 0..Len(bytes) /\ more[k] = ends[k],
         NEW out, NEW buffer, Lossy(bytes, ends, n, out, buffer)
  PROVE  Lossy(bytes \o t, more, n, out, buffer)
<1>1. PICK c \in 0..ends[n] :
        \E B \in SUBSET (0..c) : LossyAt(bytes, ends, n, c, B, out, buffer)
  BY DEF Lossy
<1>2. PICK B \in SUBSET (0..c) : LossyAt(bytes, ends, n, c, B, out, buffer)
  BY <1>1
<1>3. /\ Len(bytes) \in Nat /\ n \in 0..n /\ ends[n] \in 0..Len(bytes) /\ more[n] = ends[n]
      /\ c \in Nat /\ ends[n] \in Nat /\ c <= ends[n] /\ c \in 0..Len(bytes)
      /\ ends[n] <= Len(bytes)
  <2>1. Len(bytes) \in Nat /\ n \in 0..n
    BY TextFacts
  <2>2. ends[n] \in 0..Len(bytes) /\ more[n] = ends[n]
    BY <2>1
  <2> QED
    BY <2>1, <2>2
<1>4. Upto(bytes \o t, c) = Upto(bytes, c)
  BY <1>3, UptoJoined
<1>5. Piece(bytes \o t, c, ends[n]) = Piece(bytes, c, ends[n])
  BY <1>3, PieceJoined
<1>6. \A b \in B : \E k \in 0..n : b = more[k]
  BY <1>2 DEF LossyAt
<1>7. LossyAt(bytes \o t, more, n, c, B, out, buffer)
  BY <1>2, <1>3, <1>4, <1>5, <1>6, Zenon DEF LossyAt
<1> QED
  BY <1>3, <1>7 DEF Lossy

LEMMA GenerateStep ==
  ASSUME Typed, InStep, Cutting, NEW t \in Tokens, Generate(t)
  PROVE  Cutting'
<1>1. PICK ends \in [0..Len(generated_tokens) -> Nat] :
        /\ Marks(generated_tokens, concat_output, ends)
        /\ Unstopped(concat_output, ends, Len(generated_tokens), remaining_tokens)
        /\ Sound => Streaming(ends)
        /\ ~trim => Losing(ends)
  BY DEF Cutting
<1> DEFINE n == Len(generated_tokens)
           text == concat_output \o t
<1>2. /\ Len(generated_tokens) \in Nat /\ current_token \in 0..Len(generated_tokens)
      /\ \A k \in 0..Len(generated_tokens) : ends[k] \in 0..Len(concat_output)
  BY <1>1, MarkFacts
<1>3. /\ remaining_tokens > 0 /\ generated_tokens' = Append(generated_tokens, t)
      /\ concat_output' = text
      /\ trim' = trim /\ current_token' = current_token
      /\ incomplete_token_buffer' = incomplete_token_buffer /\ tokenStr' = tokenStr
      /\ tokenReserve' = tokenReserve /\ sent' = sent
  BY DEF Generate, textVars
<1>4. /\ generated_tokens \in Seq(Tokens) /\ concat_output \in Texts /\ t \in Texts
      /\ remaining_tokens \in Nat /\ text \in Texts
  BY TokenIsText, Joined DEF Typed
<1>5. remaining_tokens' \in Nat
  <2>1. remaining_tokens' \in {remaining_tokens - 1, 0}
    BY DEF Generate
  <2> QED
    BY <1>3, <1>4, <2>1
<1>6. remaining_tokens' > 0 => Clean(text)
  <2> SUFFICES ASSUME remaining_tokens' > 0 PROVE Clean(text)
    OBVIOUS
  <2>1. ~(\E k \in DOMAIN StopSequences : Occurs(StopSequences[k], text))
    BY DEF Generate
  <2>2. DOMAIN StopSequences = 1..NStops
    BY StopFacts
  <2> HIDE DEF text
  <2> QED
    BY <2>1, <2>2 DEF Clean
<1>7. PICK more \in [0..Len(Append(generated_tokens, t)) -> Nat] :
        /\ \A k \in 0..n : more[k] = ends[k]
        /\ Marks(Append(generated_tokens, t), text, more)
        /\ Unstopped(text, more, Len(Append(generated_tokens, t)), remaining_tokens')
  <2> DEFINE m == Marked(ends, n, Len(text))
  <2>1. /\ m \in [0..Len(Append(generated_tokens, t)) -> Nat]
        /\ \A k \in 0..n : m[k] = ends[k]
        /\ Marks(Append(generated_tokens, t), text, m)
        /\ Unstopped(text, m, Len(Append(generated_tokens, t)), remaining_tokens')
    BY <1>1, <1>3, <1>4, <1>5, <1>6, MarkedNext
  <2> HIDE DEF m
  <2> QED
    BY <2>1
<1> HIDE DEF text
<1>8. ASSUME Sound' PROVE Streaming(more)'
  <2>1. Unbroken(text)
    BY <1>3, <1>8 DEF Sound, WellFormed, Unbroken
  <2>2. Sound
    <3>1. Len(concat_output) \in 0..Len(text) /\ Upto(text, Len(concat_output)) = concat_output
      <4>1. Len(text) = Len(concat_output) + Len(t) /\ Len(concat_output) \in Nat /\ Len(t) \in Nat
        BY <1>4, Joined DEF text
      <4>2. Len(concat_output) \in 0..Len(concat_output)
        BY <4>1
      <4>3. Upto(concat_output \o t, Len(concat_output)) = Upto(concat_output, Len(concat_output))
        BY <1>4, <4>2, UptoJoined
      <4>4. Upto(concat_output, Len(concat_output)) = concat_output
        BY <1>4, UptoAll
      <4> QED
        BY <4>1, <4>3, <4>4 DEF text
    <3>2. Unbroken(concat_output)
      BY <1>4, <2>1, <3>1, UnbrokenFront
    <3>3. NoneSevers
      <4>1. /\ DOMAIN generated_tokens = 1..n /\ DOMAIN generated_tokens' = 1..(n + 1)
            /\ \A k \in 1..n : generated_tokens'[k] = generated_tokens[k]
        BY <1>3, <1>4, AppendProperties, LenProperties
      <4>2. \A k \in 1..n : k \in 1..(n + 1)
        BY <1>2
      <4>3. NoneSevers'
        BY <1>8 DEF Sound
      <4> QED
        BY <4>1, <4>2, <4>3 DEF NoneSevers
    <3> QED
      BY <3>2, <3>3 DEF Sound, WellFormed, Unbroken
  <2>3. PICK c \in 0..ends[current_token] :
          /\ Decoded(concat_output, ends, c, current_token, incomplete_token_buffer)
          /\ Delivered(ends, c)
    BY <1>1, <2>2 DEF Streaming
  <2>4. /\ current_token \in Nat /\ ends[current_token] \in 0..Len(concat_output)
        /\ \A k \in 0..current_token : more[k] = ends[k]
    <3>1. \A k \in 0..current_token : k \in 0..n
      BY <1>2
    <3> QED
      BY <1>2, <1>7, <3>1
  <2>5. /\ Decoded(text, more, c, current_token, incomplete_token_buffer)
        /\ Upto(text, c) = Upto(concat_output, c)
        /\ Piece(text, c, more[current_token]) = Piece(concat_output, c, ends[current_token])
    <3>1. /\ c \in Nat /\ ends[current_token] \in Nat /\ c <= ends[current_token]
          /\ ends[current_token] <= Len(concat_output) /\ c \in 0..Len(concat_output)
          /\ current_token \in 0..current_token
      <4>1. Len(concat_output) \in Nat
        BY <1>4, TextFacts
      <4> QED
        BY <2>3, <2>4, <4>1
    <3>2. Upto(text, c) = Upto(concat_output, c)
      BY <1>4, <3>1, UptoJoined DEF text
    <3>3. more[current_token] = ends[current_token]
      BY <2>4, <3>1
    <3>4. Piece(text, c, ends[current_token]) = Piece(concat_output, c, ends[current_token])
      BY <1>4, <3>1, PieceJoined DEF text
    <3>5. (\E k \in 0..(current_token - 1) : c = ends[k])
          => \E k \in 0..(current_token - 1) : c = more[k]
      <4>1. \A k \in 0..(current_token - 1) : k \in 0..current_token
        BY <2>4
      <4> QED
        BY <2>4, <4>1
    <3> QED
      BY <2>3, <3>2, <3>3, <3>4, <3>5, Zenon DEF Decoded
  <2>6. Uncut(Upto(concat_output, c), sent, tokenReserve, tokenStr)
    BY <1>3, <2>3 DEF Delivered
  <2>7. Delivered(more, c)'
    BY <1>3, <2>5, <2>6 DEF Delivered
  <2>8. c \in 0..more[current_token]
    <3>1. current_token \in 0..current_token
      BY <2>4
    <3> QED
      BY <2>3, <2>4, <3>1
  <2> QED
    BY <1>3, <2>5, <2>7, <2>8 DEF Streaming
<1>9. ASSUME Losing(ends) PROVE Losing(more)'
  <2> DEFINE out == (sent \o tokenReserve) \o tokenStr
  <2>1. ASSUME NEW k \in 0..current_token
        PROVE  ends[k] \in 0..Len(concat_output) /\ more[k] = ends[k]
    <3>1. k \in 0..n
      BY <1>2
    <3> QED
      BY <1>2, <1>7, <3>1
  <2>2. Lossy(concat_output, ends, current_token, out, incomplete_token_buffer)
    BY <1>9 DEF Losing
  <2> HIDE DEF out
  <2>3. current_token \in Nat
    BY <1>2
  <2>4. Lossy(concat_output \o t, more, current_token, out, incomplete_token_buffer)
    BY <1>4, <2>1, <2>2, <2>3, LossyGrown
  <2> QED
    BY <1>3, <2>4 DEF Losing, out, text
<1> QED
  BY <1>1, <1>3, <1>7, <1>8, <1>9 DEF Cutting

LEMMA FetchStep ==
  ASSUME Typed, InStep, Cutting, FetchToken
  PROVE  Cutting'
<1>1. PICK ends \in [0..Len(generated_tokens) -> Nat] :
        /\ Marks(generated_tokens, concat_output, ends)
        /\ Unstopped(concat_output, ends, Len(generated_tokens), remaining_tokens)
        /\ Sound => Streaming(ends)
        /\ ~trim => Losing(ends)
  BY DEF Cutting
<1> DEFINE n == current_token
           fed == Fed([buffer |-> incomplete_token_buffer, str |-> tokenStr],
                      generated_tokens[n + 1])
<1>2. /\ n < streamcount /\ current_token' = n + 1
      /\ incomplete_token_buffer' = fed.buffer /\ tokenStr' = fed.str
      /\ trim' = trim /\ generated_tokens' = generated_tokens
      /\ concat_output' = concat_output /\ remaining_tokens' = remaining_tokens
      /\ tokenReserve' = tokenReserve /\ sent' = sent
  BY DEF FetchToken, nativeVars
<1>3. /\ Len(generated_tokens) \in Nat /\ n + 1 \in 1..Len(generated_tokens)
      /\ n \in 0..(Len(generated_tokens) - 1)
  BY <1>2, NextToken
<1>4. /\ generated_tokens \in Seq(Tokens) /\ concat_output \in Texts
      /\ incomplete_token_buffer \in Texts /\ tokenStr \in Texts
      /\ tokenReserve \in Texts /\ sent \in Texts
  BY DEF Typed
<1> HIDE DEF fed
<1>5. ASSUME Sound' PROVE Streaming(ends)'
  <2>1. Sound /\ Unbroken(concat_output) /\ ~Severs(generated_tokens[n + 1])
    <3>1. Sound
      BY <1>2, <1>5 DEF Sound, WellFormed, NoneSevers
    <3>2. n + 1 \in DOMAIN generated_tokens
      BY <1>3, <1>4, LenProperties
    <3> QED
      BY <3>1, <3>2 DEF Sound, WellFormed, Unbroken, NoneSevers
  <2>2. PICK c \in 0..ends[n] :
          /\ Decoded(concat_output, ends, c, n, incomplete_token_buffer)
          /\ Delivered(ends, c)
    BY <1>1, <2>1 DEF Streaming
  <2>3. Advanced(concat_output, ends, c, n, fed, tokenStr)
    <3>1. fed = Fed([buffer |-> incomplete_token_buffer, str |-> tokenStr],
                    generated_tokens[n + 1])
      BY DEF fed
    <3>2. /\ concat_output \in Texts /\ generated_tokens \in Seq(Tokens)
          /\ incomplete_token_buffer \in Texts /\ tokenStr \in Texts
      BY <1>4
    <3>3. /\ Marks(generated_tokens, concat_output, ends) /\ Unbroken(concat_output)
          /\ Decoded(concat_output, ends, c, n, incomplete_token_buffer)
          /\ ~Severs(generated_tokens[n + 1])
      BY <1>1, <2>1, <2>2
    <3>4. n \in 0..(Len(generated_tokens) - 1)
      BY <1>3
    <3> QED
      BY <3>1, <3>2, <3>3, <3>4, DecodedNext
  <2>4. PICK e \in c..ends[n + 1] : /\ Decoded(concat_output, ends, e, n + 1, fed.buffer)
                                    /\ fed.str = tokenStr \o Piece(concat_output, c, e)
    BY <2>3 DEF Advanced
  <2>5. /\ c \in Nat /\ e \in Nat /\ c <= e /\ e \in c..Len(concat_output)
        /\ e \in 0..ends[n + 1] /\ c \in 0..Len(concat_output)
    <3>1. ends[n] \in 0..Len(concat_output) /\ ends[n + 1] \in 0..Len(concat_output)
          /\ Len(concat_output) \in Nat
      <4>1. n \in 0..Len(generated_tokens) /\ n + 1 \in 0..Len(generated_tokens)
        BY <1>3
      <4> QED
        BY <1>1, <4>1, MarkFacts
    <3> QED
      BY <2>2, <2>4, <3>1
  <2>6. Uncut(Upto(concat_output, c), sent, tokenReserve, tokenStr)
    <3>1. n # Len(generated_tokens)
      BY <1>3
    <3> QED
      BY <2>2, <3>1 DEF Delivered
  <2>7. Uncut(Upto(concat_output, e), sent, tokenReserve, fed.str)
    <3> DEFINE p == Piece(concat_output, c, e)
               u == sent \o tokenReserve
    <3>1. p \in Texts /\ u \in Texts
      BY <1>4, <2>5, PieceFacts, Joined
    <3>2. (u \o tokenStr) \o p = u \o (tokenStr \o p)
      <4>1. tokenStr \in Texts
        BY <1>4
      <4> HIDE DEF u, p
      <4> QED
        BY <3>1, <4>1, Assoc, Zenon
    <3>3. Upto(concat_output, c) \o p = Upto(concat_output, e)
      BY <1>4, <2>5, Halves
    <3>4. u \o tokenStr = Upto(concat_output, c)
      BY <2>6 DEF Uncut
    <3> QED
      BY <2>4, <3>2, <3>3, <3>4 DEF Uncut
  <2>8. Delivered(ends, e)'
    BY <1>2, <2>7 DEF Delivered
  <2> QED
    BY <1>2, <2>4, <2>5, <2>8 DEF Streaming
<1>6. ASSUME Losing(ends) PROVE Losing(ends)'
  <2> DEFINE out == sent \o tokenReserve
  <2>1. out \in Texts
    BY <1>4, Joined
  <2>2. Lossy(concat_output, ends, n, out \o tokenStr, incomplete_token_buffer)
    BY <1>6 DEF Losing
  <2> HIDE DEF out
  <2>3. Lossy(concat_output, ends, n + 1, out \o fed.str, fed.buffer)
    <3>1. fed = Fed([buffer |-> incomplete_token_buffer, str |-> tokenStr],
                    generated_tokens[n + 1])
      BY DEF fed
    <3>2. Marks(generated_tokens, concat_output, ends)
      BY <1>1
    <3> QED
      BY <1>3, <1>4, <2>1, <2>2, <3>1, <3>2, LossyNext
  <2> QED
    BY <1>2, <2>3 DEF Losing, out
<1> QED
  BY <1>1, <1>2, <1>5, <1>6 DEF Cutting

LEMMA HoldStep ==
  ASSUME Typed, InStep, Cutting, Hold
  PROVE  Cutting'
<1>1. PICK ends \in [0..Len(generated_tokens) -> Nat] :
        /\ Marks(generated_tokens, concat_output, ends)
        /\ Unstopped(concat_output, ends, Len(generated_tokens), remaining_tokens)
        /\ Sound => Streaming(ends)
        /\ ~trim => Losing(ends)
  BY DEF Cutting
<1>2. /\ current_token' = current_token /\ incomplete_token_buffer' = incomplete_token_buffer
      /\ tokenStr' = <<>> /\ tokenReserve' = tokenReserve \o tokenStr /\ sent' = sent
      /\ trim' = trim /\ generated_tokens' = generated_tokens
      /\ concat_output' = concat_output /\ remaining_tokens' = remaining_tokens
  BY DEF Hold, nativeVars
<1>3. tokenStr \in Texts /\ tokenReserve \in Texts /\ sent \in Texts
  BY DEF Typed
<1>4. ASSUME Streaming(ends) PROVE Streaming(ends)'
  <2>1. PICK c \in 0..ends[current_token] :
          /\ Decoded(concat_output, ends, c, current_token, incomplete_token_buffer)
          /\ Delivered(ends, c)
    BY <1>4 DEF Streaming
  <2>2. ASSUME NEW front, Uncut(front, sent, tokenReserve, tokenStr)
        PROVE  Uncut(front, sent, tokenReserve \o tokenStr, <<>>)
    <3>1. /\ (sent \o tokenReserve) \o tokenStr = sent \o (tokenReserve \o tokenStr)
          /\ tokenReserve \o tokenStr \in Texts
      BY <1>3, Assoc, Joined
    <3>2. sent \o (tokenReserve \o tokenStr) \in Texts
      BY <1>3, <3>1, Joined
    <3>3. (sent \o (tokenReserve \o tokenStr)) \o <<>> = sent \o (tokenReserve \o tokenStr)
      BY <3>2, EmptyText
    <3> QED
      BY <2>2, <3>1, <3>3 DEF Uncut
  <2>3. ASSUME NEW front, WasCut(front, sent, tokenReserve, tokenStr)
        PROVE  WasCut(front, sent, tokenReserve \o tokenStr, <<>>)
    BY <2>3, NothingCut DEF WasCut
  <2>4. Delivered(ends, c)'
    BY <1>2, <2>1, <2>2, <2>3 DEF Delivered
  <2> QED
    BY <1>2, <2>1, <2>4 DEF Streaming
<1>5. Sound' => Sound
  BY <1>2 DEF Sound, WellFormed, NoneSevers
<1>6. trim
  BY DEF Hold, Held
<1> QED
  BY <1>1, <1>2, <1>4, <1>5, <1>6 DEF Cutting

\* A front that holds a stop sequence is all there is, and no space is held back behind it.
LEMMA NotClean ==
  ASSUME Typed, InStep, NEW ends \in [0..Len(generated_tokens) -> Nat],
         Marks(generated_tokens, concat_output, ends),
         Unstopped(concat_output, ends, Len(generated_tokens), remaining_tokens),
         NEW c \in 0..ends[current_token],
         Decoded(concat_output, ends, c, current_token, incomplete_token_buffer),
         ~Clean(Upto(concat_output, c))
  PROVE  /\ current_token = Len(generated_tokens) /\ remaining_tokens = 0
         /\ ~SpaceBroken(Piece(concat_output, c, ends[current_token]))
<1> DEFINE n == Len(generated_tokens)
           rest == Piece(concat_output, c, ends[current_token])
<1>1. /\ n \in Nat /\ Len(concat_output) \in Nat /\ current_token \in 0..n
      /\ ends[current_token] \in 0..Len(concat_output)
      /\ concat_output \in Texts /\ remaining_tokens \in Nat
  BY MarkFacts DEF Typed
<1>2. ~(current_token < n \/ remaining_tokens > 0)
  <2> SUFFICES ASSUME current_token < n \/ remaining_tokens > 0 PROVE FALSE
    OBVIOUS
  <2>1. Clean(Upto(concat_output, ends[current_token]))
    BY <1>1 DEF Unstopped
  <2>2. Clean(Upto(concat_output, c))
    BY <1>1, <2>1, CleanFront
  <2> QED
    BY <2>2
<1>3. ASSUME SpaceBroken(rest) PROVE FALSE
  <2>1. rest \in Texts
    <3>1. c \in Nat /\ ends[current_token] \in c..Len(concat_output)
      BY <1>1
    <3> QED
      BY <1>1, <3>1, PieceFacts
  <2>2. rest # <<>> /\ ~BrokenEnd(rest) /\ rest # <<Cont>>
    BY <1>3, <2>1, OneEnd
  <2>3. PICK k \in 0..(current_token - 1) : c = ends[k]
    BY <2>2 DEF Decoded
  <2>4. k \in 0..n /\ k < n
    BY <1>1
  <2>5. Clean(Upto(concat_output, ends[k]))
    BY <2>4 DEF Unstopped
  <2> QED
    BY <2>3, <2>5
<1> QED
  BY <1>1, <1>2, <1>3

LEMMA SendStep ==
  ASSUME Typed, InStep, Cutting, Send
  PROVE  Cutting'
<1>1. PICK ends \in [0..Len(generated_tokens) -> Nat] :
        /\ Marks(generated_tokens, concat_output, ends)
        /\ Unstopped(concat_output, ends, Len(generated_tokens), remaining_tokens)
        /\ Sound => Streaming(ends)
        /\ ~trim => Losing(ends)
  BY DEF Cutting
<1> DEFINE v == tokenReserve \o tokenStr
<1>2. /\ current_token' = current_token /\ incomplete_token_buffer' = incomplete_token_buffer
      /\ tokenStr' = <<>> /\ tokenReserve' = <<>> /\ sent' = sent \o Trimmed(v)
      /\ trim' = trim /\ generated_tokens' = generated_tokens
      /\ concat_output' = concat_output /\ remaining_tokens' = remaining_tokens
  BY DEF Send, nativeVars
<1>3. /\ tokenStr \in Texts /\ tokenReserve \in Texts /\ sent \in Texts
      /\ concat_output \in Texts
  BY DEF Typed
<1> HIDE DEF v
<1>4. ASSUME Streaming(ends) PROVE Streaming(ends)'
  <2>1. PICK c \in 0..ends[current_token] :
          /\ Decoded(concat_output, ends, c, current_token, incomplete_token_buffer)
          /\ Delivered(ends, c)
    BY <1>4 DEF Streaming
  <2> DEFINE front == Upto(concat_output, c)
             rest == Piece(concat_output, c, ends[current_token])
  <2>2. front \in Texts
    <3>1. ends[current_token] \in 0..Len(concat_output) /\ Len(concat_output) \in Nat
      BY <1>1, MarkFacts
    <3>2. c \in 0..Len(concat_output)
      BY <3>1
    <3> QED
      BY <1>3, <3>2, UptoFacts
  <2>3. \/ Uncut(front, sent, tokenReserve, tokenStr)
        \/ /\ WasCut(front, sent, tokenReserve, tokenStr)
           /\ trim /\ current_token = Len(generated_tokens) /\ remaining_tokens = 0
           /\ ~SpaceBroken(rest)
    BY <2>1 DEF Delivered
  <2>4. ASSUME ~Clean(front)
        PROVE  /\ current_token = Len(generated_tokens) /\ remaining_tokens = 0
               /\ ~SpaceBroken(rest)
    BY <1>1, <2>1, <2>4, NotClean
  <2> HIDE DEF front, rest
  <2>5. \/ Uncut(front, sent \o Trimmed(v), <<>>, <<>>)
        \/ /\ WasCut(front, sent \o Trimmed(v), <<>>, <<>>)
           /\ trim /\ current_token = Len(generated_tokens) /\ remaining_tokens = 0
           /\ ~SpaceBroken(rest)
    <3>1. CASE Uncut(front, sent, tokenReserve, tokenStr)
      <4>1. /\ Uncut(front, sent \o v, <<>>, <<>>)
            /\ Clean(front) => Cut(v) = v
            /\ WasCut(front, sent \o Cut(v), <<>>, <<>>)
        BY <1>3, <2>2, <3>1, SentFront DEF v
      <4>2. CASE ~trim \/ Clean(front)
        <5>1. Trimmed(v) = v
          BY <4>1, <4>2 DEF Trimmed
        <5> QED
          BY <4>1, <5>1
      <4>3. CASE trim /\ ~Clean(front)
        <5>1. Trimmed(v) = Cut(v)
          BY <4>3 DEF Trimmed
        <5> QED
          BY <2>4, <4>1, <4>3, <5>1
      <4> QED
        BY <4>2, <4>3
    <3>2. CASE /\ WasCut(front, sent, tokenReserve, tokenStr)
               /\ trim /\ current_token = Len(generated_tokens) /\ remaining_tokens = 0
               /\ ~SpaceBroken(rest)
      <4>1. tokenReserve = <<>> /\ tokenStr = <<>>
        BY <3>2 DEF WasCut
      <4>2. Trimmed(v) = <<>>
        BY <4>1, NothingCut DEF Trimmed, v
      <4>3. sent \o Trimmed(v) = sent
        BY <1>3, <4>2, EmptyText
      <4> QED
        BY <3>2, <4>1, <4>3
    <3> QED
      BY <2>3, <3>1, <3>2
  <2>6. Delivered(ends, c)'
    BY <1>2, <2>5 DEF Delivered, front, rest
  <2> QED
    BY <1>2, <2>1, <2>6 DEF Streaming
<1>5. Sound' => Sound
  BY <1>2 DEF Sound, WellFormed, NoneSevers
<1>6. ASSUME ~trim, Losing(ends) PROVE Losing(ends)'
  <2> DEFINE out == sent \o v
  <2>1. v \in Texts /\ (sent \o tokenReserve) \o tokenStr = out
    BY <1>3, Assoc, Joined DEF v
  <2>2. Trimmed(v) = v
    BY <1>6 DEF Trimmed
  <2>3. out \in Texts /\ (out \o <<>>) \o <<>> = out
    <3>1. out \in Texts
      BY <1>3, <2>1, Joined
    <3> HIDE DEF out
    <3>2. out \o <<>> = out
      BY <3>1, EmptyText
    <3> QED
      BY <3>1, <3>2
  <2> QED
    BY <1>2, <1>6, <2>1, <2>2, <2>3 DEF Losing
<1> QED
  BY <1>1, <1>2, <1>4, <1>5, <1>6 DEF Cutting

LEMMA CuttingStep ==
  ASSUME Typed, InStep, Cutting, [Next]_vars
  PROVE  Cutting'
<1>1. ASSUME NEW t \in Tokens, Generate(t) PROVE Cutting'
  BY <1>1, GenerateStep
<1>2. CASE FetchToken
  BY <1>2, FetchStep
<1>3. CASE Hold
  BY <1>3, HoldStep
<1>4. CASE Send
  BY <1>4, SendStep
<1>5. CASE FinishGeneration \/ Abort \/ ReadFlag \/ ReadCount \/ NothingNew \/ SendFails
           \/ UNCHANGED vars
  <2>1. /\ UNCHANGED <<trim, generated_tokens, concat_output, current_token, textVars>>
        /\ remaining_tokens' = remaining_tokens \/ remaining_tokens' = 0
    BY <1>5 DEF FinishGeneration, Abort, StopGeneration, ReadFlag, ReadCount, NothingNew,
                SendFails, vars, nativeVars
  <2> QED
    BY <2>1, NothingMoved
<1> QED
  BY <1>1, <1>2, <1>3, <1>4, <1>5 DEF Next, Native, Stream

-----------------------------------------------------------------------------
(* What has been said, and what of it is sent                              *)

LEMMA UptoUpto ==
  ASSUME NEW text \in Texts, NEW n \in 0..Len(text), NEW m \in 0..n
  PROVE  Upto(Upto(text, n), m) = Upto(text, m)
<1>1. Len(text) \in Nat
  BY TextFacts
<1>2. 0 \in Nat /\ n \in 0..Len(text) /\ m \in 0..(n - 0) /\ 0 + 0 = 0 /\ 0 + m = m
  BY <1>1
<1>3. Piece(Piece(text, 0, n), 0, m) = Piece(text, 0 + 0, 0 + m)
  BY <1>2, PieceOfPiece
<1> QED
  BY <1>2, <1>3 DEF Upto, Piece

LEMMA FrontIsPrefix ==
  ASSUME NEW text \in Texts, NEW n \in 0..Len(text)
  PROVE  IsPrefix(Upto(text, n), text)
<1>1. Upto(text, n) \in Texts /\ Len(Upto(text, n)) = n /\ n <= Len(text)
  BY TextFacts, UptoFacts
<1>2. Upto(Upto(text, n), n) = Upto(text, n)
  BY <1>1, UptoAll
<1> QED
  BY <1>1, <1>2 DEF IsPrefix, Upto

\* The byte behind whole characters is one itself, or the text is broken there.
LEMMA BrokenBehind ==
  ASSUME NEW bytes \in Texts, NEW c \in Nat, c + 1 = Len(bytes), Whole(Upto(bytes, c)),
         NEW z \in {Lead, Cont}, bytes[Len(bytes)] = z
  PROVE  Broken(bytes)
<1> DEFINE front == Upto(bytes, c)
<1>1. /\ Len(bytes) \in Nat /\ c \in 0..Len(bytes) /\ front \in Texts /\ Len(front) = c
      /\ z \in Bytes /\ <<z>> \in Texts /\ Len(<<z>>) = 1 /\ <<z>>[1] = z
  <2>1. Len(bytes) \in Nat /\ c \in 0..Len(bytes)
    BY TextFacts
  <2>2. front \in Texts /\ Len(front) = c
    BY <2>1, UptoFacts
  <2>3. z \in Bytes
    BY BytesDiffer
  <2>4. <<z>> \in Texts /\ Len(<<z>>) = 1 /\ <<z>>[1] = z
    BY <2>3, ShortTexts
  <2> QED
    BY <2>1, <2>2, <2>3, <2>4
<1>2. bytes = front \o <<z>>
  <2>1. /\ front \o <<z>> \in Texts /\ Len(front \o <<z>>) = Len(bytes)
        /\ \A d \in 1..c : (front \o <<z>>)[d] = front[d]
        /\ (front \o <<z>>)[c + 1] = z
    <3> HIDE DEF front
    <3>1. 1 \in 1..Len(<<z>>)
      BY <1>1
    <3> QED
      BY <1>1, <3>1, Joined
  <2>2. \A d \in 1..c : front[d] = bytes[d]
    BY <1>1, UptoFacts
  <2>3. ASSUME NEW d \in 1..Len(bytes) PROVE bytes[d] = (front \o <<z>>)[d]
    <3>1. d \in 1..c \/ d = c + 1
      BY <1>1
    <3> HIDE DEF front
    <3> QED
      BY <2>1, <2>2, <3>1
  <2> HIDE DEF front
  <2> QED
    BY <2>1, <2>3, SameText
<1>3. ~InCharacter(<<z>>, 1)
  BY <1>1 DEF InCharacter
<1>4. InCharacter(front \o <<z>>, Len(front) + 1) <=> InCharacter(<<z>>, 1)
  <2> DEFINE w == <<z>>
  <2>1. 1 \in 1..Len(w) /\ w \in Texts /\ front \in Texts /\ Whole(front)
    BY <1>1
  <2> HIDE DEF front, w
  <2>2. InCharacter(front \o w, Len(front) + 1) <=> InCharacter(w, 1)
    BY <2>1, WholeBefore
  <2> QED
    BY <2>2 DEF w
<1>5. ~InCharacter(bytes, Len(bytes))
  BY <1>1, <1>2, <1>3, <1>4
<1> QED
  BY <1>1, <1>5, EmptyText DEF Broken

\* What is decoded of a text whose front is whole characters
LEMMA SaidEnds ==
  ASSUME NEW bytes \in Texts, Unbroken(bytes), NEW c \in 0..Len(bytes), Whole(Upto(bytes, c)),
         NEW rest, rest = Piece(bytes, c, Len(bytes))
  PROVE  /\ \E s \in c..Len(bytes) : Decode(bytes) = Upto(bytes, s)
         /\ rest = <<>> \/ BrokenEnd(rest) => Decode(bytes) = Upto(bytes, c)
         /\ SpaceBroken(rest) => Decode(bytes) = Upto(bytes, c) \o <<Space>>
<1>1. /\ Len(bytes) \in Nat /\ c \in Nat /\ Len(bytes) \in c..Len(bytes)
      /\ Upto(bytes, Len(bytes)) = bytes
  BY TextFacts, UptoAll
<1>2. /\ rest \in Texts /\ Len(rest) = Len(bytes) - c
      /\ \A d \in 1..(Len(bytes) - c) : rest[d] = bytes[c + d]
  BY <1>1, PieceFacts
<1>3. Broken(bytes) => Decode(bytes) = Upto(bytes, Len(bytes) - 1) /\ c <= Len(bytes) - 1
  <2> SUFFICES ASSUME Broken(bytes)
               PROVE  Decode(bytes) = Upto(bytes, Len(bytes) - 1) /\ c <= Len(bytes) - 1
    OBVIOUS
  <2>1. Decode(bytes) = Upto(bytes, Len(bytes) - 1) /\ Len(bytes) >= 1
    BY DecodeBroken
  <2>2. c # Len(bytes)
    <3> SUFFICES ASSUME c = Len(bytes) PROVE FALSE
      OBVIOUS
    <3>1. Whole(bytes) /\ Len(bytes) \in 1..Len(bytes)
      BY <1>1, <2>1
    <3> QED
      BY <3>1 DEF Whole, Broken
  <2> QED
    BY <1>1, <2>1, <2>2
<1>4. ~Broken(bytes) => Decode(bytes) = Upto(bytes, Len(bytes))
  <2> SUFFICES ASSUME ~Broken(bytes) PROVE Decode(bytes) = Upto(bytes, Len(bytes))
    OBVIOUS
  <2>1. Whole(bytes)
    <3>1. ASSUME NEW d \in 1..Len(bytes) PROVE InCharacter(bytes, d)
      <4>1. d \in 1..(Len(bytes) - 1) \/ (d = Len(bytes) /\ Len(bytes) # 0)
        BY <1>1
      <4>2. d = Len(bytes) /\ Len(bytes) # 0 => InCharacter(bytes, d)
        BY EmptyText DEF Broken
      <4> QED
        BY <4>1, <4>2 DEF Unbroken
    <3> QED
      BY <3>1 DEF Whole
  <2> QED
    BY <1>1, <2>1, DecodeWhole
<1>5. \E s \in c..Len(bytes) : Decode(bytes) = Upto(bytes, s)
  <2>1. CASE Broken(bytes)
    <3>1. Len(bytes) - 1 \in c..Len(bytes)
      BY <1>1, <1>3, <2>1
    <3> QED
      BY <1>3, <2>1, <3>1
  <2>2. CASE ~Broken(bytes)
    BY <1>1, <1>4, <2>2
  <2> QED
    BY <2>1, <2>2
<1>6. ASSUME rest = <<>> PROVE Decode(bytes) = Upto(bytes, c)
  <2>1. c = Len(bytes)
    BY <1>1, <1>2, <1>6, EmptyText
  <2>2. ~Broken(bytes)
    BY <1>1, <1>3, <2>1
  <2> QED
    BY <1>4, <2>1, <2>2
<1>7. ASSUME BrokenEnd(rest) PROVE Decode(bytes) = Upto(bytes, c)
  <2>1. Len(rest) = 1 /\ rest[1] \in {Lead, Cont}
    BY <1>2, <1>7, EndFacts
  <2>2. c + 1 = Len(bytes) /\ Len(bytes) - 1 = c /\ rest[1] = bytes[Len(bytes)]
    <3>1. Len(bytes) - c = 1
      BY <1>2, <2>1
    <3>2. c + 1 = Len(bytes) /\ 1 \in 1..(Len(bytes) - c)
      BY <1>1, <3>1
    <3> QED
      BY <1>1, <1>2, <3>2
  <2>3. Broken(bytes)
    BY <1>1, <2>1, <2>2, BrokenBehind
  <2> QED
    BY <1>3, <2>2, <2>3
<1>8. ASSUME SpaceBroken(rest) PROVE Decode(bytes) = Upto(bytes, c) \o <<Space>>
  <2>1. Len(rest) = 2 /\ rest[1] = Space /\ rest[2] \in {Lead, Cont}
    BY <1>2, <1>8, EndFacts
  <2>2. /\ c + 2 = Len(bytes) /\ Len(bytes) - 1 = c + 1 /\ rest[2] = bytes[Len(bytes)]
        /\ rest[1] = bytes[c + 1] /\ c + 1 \in 0..Len(bytes) /\ c + 1 \in c..Len(bytes)
    <3>1. Len(bytes) - c = 2
      BY <1>2, <2>1
    <3>2. c + 2 = Len(bytes) /\ 1 \in 1..(Len(bytes) - c) /\ 2 \in 1..(Len(bytes) - c)
      BY <1>1, <3>1
    <3> QED
      BY <1>1, <1>2, <3>2
  <2>3. Piece(bytes, c, c + 1) = <<Space>>
    <3>1. /\ Piece(bytes, c, c + 1) \in Texts /\ Len(Piece(bytes, c, c + 1)) = (c + 1) - c
          /\ \A d \in 1..((c + 1) - c) : Piece(bytes, c, c + 1)[d] = bytes[c + d]
      BY <1>1, <2>2, PieceFacts
    <3>2. /\ Len(Piece(bytes, c, c + 1)) = 1 /\ Piece(bytes, c, c + 1)[1] = Space
      <4>1. (c + 1) - c = 1 /\ 1 \in 1..((c + 1) - c)
        BY <1>1
      <4> QED
        BY <2>1, <2>2, <3>1, <4>1
    <3>3. <<Space>> \in Texts /\ Len(<<Space>>) = 1 /\ <<Space>>[1] = Space
      BY ShortTexts, BytesDiffer
    <3>4. \A d \in 1..1 : d = 1
      OBVIOUS
    <3> QED
      BY <3>1, <3>2, <3>3, <3>4, SameText
  <2>4. Upto(bytes, c) \o Piece(bytes, c, c + 1) = Upto(bytes, c + 1)
    BY <1>1, <2>2, Halves
  <2>5. Broken(bytes)
    <3>1. Whole(Upto(bytes, c + 1))
      <4>1. /\ Upto(bytes, c) \in Texts /\ <<Space>> \in Texts /\ Len(<<Space>>) = 1
            /\ <<Space>>[1] = Space
        BY <1>1, UptoFacts, ShortTexts, BytesDiffer
      <4>2. Whole(<<Space>>)
        <5>1. \A d \in 1..1 : d = 1
          OBVIOUS
        <5> QED
          BY <4>1, <5>1, BytesDiffer DEF Whole, InCharacter
      <4> QED
        BY <2>3, <2>4, <4>1, <4>2, WholeJoined
    <3>2. c + 1 \in Nat /\ (c + 1) + 1 = Len(bytes) /\ bytes[Len(bytes)] \in {Lead, Cont}
      BY <1>1, <2>1, <2>2
    <3> QED
      BY <3>1, <3>2, BrokenBehind
  <2> QED
    BY <1>3, <2>2, <2>3, <2>4, <2>5
<1> QED
  BY <1>5, <1>6, <1>7, <1>8

-----------------------------------------------------------------------------
(* The theorems                                                            *)

\* How far the client is behind what the model has said: it has a front of it, and when
\* the stream is closed all of it, but for what is cut off and a last space.
LEMMA ClientHas ==
  ASSUME StreamInv, Sound
  PROVE  /\ Said \in Texts /\ sent \in Texts
         /\ \E m \in 0..Len(Said) : sent = Upto(Said, m)
         /\ pc = "closed" => \/ Said \in {sent, sent \o <<Space>>}
                             \/ trim /\ Len(Cut(Said)) <= Len(sent)
<1>1. PICK ends \in [0..Len(generated_tokens) -> Nat] :
        Marks(generated_tokens, concat_output, ends) /\ Streaming(ends)
  BY DEF StreamInv, Cutting
<1>2. PICK c \in 0..ends[current_token] :
        /\ Decoded(concat_output, ends, c, current_token, incomplete_token_buffer)
        /\ Delivered(ends, c)
  BY <1>1 DEF Streaming
<1> DEFINE bytes == concat_output
           front == Upto(bytes, c)
           rest == Piece(bytes, c, ends[current_token])
           end == Piece(bytes, c, Len(bytes))
<1>3. /\ bytes \in Texts /\ sent \in Texts /\ tokenReserve \in Texts /\ tokenStr \in Texts
      /\ Len(bytes) \in Nat /\ c \in 0..Len(bytes) /\ front \in Texts /\ Len(front) = c
      /\ Unbroken(bytes) /\ Whole(front)
  <2>1. bytes \in Texts /\ sent \in Texts /\ tokenReserve \in Texts /\ tokenStr \in Texts
    BY DEF StreamInv, Typed
  <2>2. Len(bytes) \in Nat /\ ends[current_token] \in 0..Len(bytes)
    BY <1>1, MarkFacts DEF StreamInv
  <2>3. c \in 0..Len(bytes)
    BY <2>2
  <2>4. Unbroken(bytes) /\ Whole(front)
    BY <1>2 DEF Sound, WellFormed, Unbroken, Decoded
  <2>5. front \in Texts /\ Len(front) = c
    BY <2>1, <2>3, UptoFacts
  <2> QED
    BY <2>1, <2>2, <2>3, <2>4, <2>5
<1>4. PICK s \in c..Len(bytes) : Said = Upto(bytes, s)
  <2>1. \E s \in c..Len(bytes) : Decode(bytes) = Upto(bytes, s)
    BY <1>3, SaidEnds
  <2> QED
    BY <2>1 DEF Said
<1>5. /\ end = <<>> \/ BrokenEnd(end) => Said = front
      /\ SpaceBroken(end) => Said = front \o <<Space>>
  BY <1>3, SaidEnds DEF Said
<1>6. Said \in Texts /\ Len(Said) = s /\ s \in 0..Len(bytes) /\ c \in 0..s
  <2>1. s \in 0..Len(bytes) /\ c \in 0..s
    BY <1>3
  <2> QED
    BY <1>3, <1>4, <2>1, UptoFacts
<1>7. \/ Uncut(front, sent, tokenReserve, tokenStr)
      \/ WasCut(front, sent, tokenReserve, tokenStr) /\ trim /\ ~SpaceBroken(rest)
  BY <1>2 DEF Delivered
<1>8. PICK m \in 0..c : sent = Upto(front, m)
  <2>1. CASE Uncut(front, sent, tokenReserve, tokenStr)
    <3> DEFINE v == tokenReserve \o tokenStr
    <3>1. v \in Texts /\ sent \o v = front
      <4>1. v \in Texts
        BY <1>3, Joined
      <4>2. sent \in Texts /\ tokenReserve \in Texts /\ tokenStr \in Texts
        BY <1>3
      <4>3. (sent \o tokenReserve) \o tokenStr = sent \o v
        BY <4>2, Assoc, Zenon
      <4>4. (sent \o tokenReserve) \o tokenStr = front
        BY <2>1, Zenon DEF Uncut
      <4> HIDE DEF v, front
      <4> QED
        BY <4>1, <4>3, <4>4
    <3> HIDE DEF v, front
    <3>2. Len(sent) \in Nat /\ Len(v) \in Nat /\ Len(front) = Len(sent) + Len(v)
      BY <1>3, <3>1, Joined
    <3>3. Len(sent) \in 0..Len(sent) /\ Len(sent) \in 0..c
      BY <1>3, <3>2
    <3>4. Upto(sent \o v, Len(sent)) = Upto(sent, Len(sent))
      BY <1>3, <3>1, <3>3, UptoJoined
    <3>5. Upto(sent, Len(sent)) = sent
      BY <1>3, UptoAll
    <3> QED
      BY <3>1, <3>3, <3>4, <3>5
  <2>2. CASE WasCut(front, sent, tokenReserve, tokenStr)
    BY <1>3, <2>2 DEF WasCut
  <2> QED
    BY <1>7, <2>1, <2>2
<1>9. m \in 0..Len(Said) /\ sent = Upto(Said, m)
  <2>1. m \in 0..s /\ m \in 0..c
    BY <1>3, <1>6
  <2>2. Upto(Upto(bytes, s), m) = Upto(bytes, m)
    BY <1>3, <1>6, <2>1, UptoUpto
  <2>3. Upto(Upto(bytes, c), m) = Upto(bytes, m)
    BY <1>3, <2>1, UptoUpto
  <2> QED
    BY <1>4, <1>6, <1>8, <2>1, <2>2, <2>3
<1>10. ASSUME pc = "closed"
       PROVE  \/ Said \in {sent, sent \o <<Space>>}
              \/ trim /\ Len(Cut(Said)) <= Len(sent)
  <2>1. current_token = Len(generated_tokens) /\ tokenReserve = <<>> /\ tokenStr = <<>>
    BY <1>10 DEF StreamInv, InStep
  <2>2. rest = end
    BY <1>1, <2>1 DEF Marks
  <2>3. Said = front \/ (SpaceBroken(end) /\ Said = front \o <<Space>>)
    <3>1. rest = <<>> \/ BrokenEnd(rest) \/ SpaceBroken(rest) \/ rest = <<Cont>>
      BY <1>2 DEF Decoded
    <3>2. rest = <<Cont>> => BrokenEnd(rest)
      BY DEF BrokenEnd
    <3> HIDE DEF rest, end, front
    <3> QED
      BY <1>5, <2>2, <3>1, <3>2
  <2>4. CASE Uncut(front, sent, tokenReserve, tokenStr)
    <3>1. (sent \o <<>>) \o <<>> = sent
      BY <1>3, EmptyText
    <3>2. front = sent
      BY <2>1, <2>4, <3>1 DEF Uncut
    <3> HIDE DEF front
    <3> QED
      BY <2>3, <3>2
  <2>5. CASE WasCut(front, sent, tokenReserve, tokenStr) /\ trim /\ ~SpaceBroken(rest)
    <3>1. Said = front
      BY <2>2, <2>3, <2>5
    <3>2. PICK k \in 0..Len(front) : sent = Upto(front, k) /\ Len(Cut(front)) <= k
      BY <2>5 DEF WasCut
    <3>3. Len(sent) = k
      <4> HIDE DEF front
      <4> QED
        BY <1>3, <3>2, UptoFacts
    <3> QED
      BY <2>5, <3>1, <3>2, <3>3
  <2> QED
    BY <1>7, <2>4, <2>5
<1> QED
  BY <1>3, <1>6, <1>9, <1>10

\* The inductive invariant, of every step of the two threads: the tokens mark the text,
\* no stop sequence is complete in front of its last token, and what the stream has sent
\* or holds is what it has decoded, or a front of it that was cut at a stop sequence.
THEOREM StreamInvariance == Spec => []StreamInv
<1>1. Init => StreamInv
  BY InitStreams
<1>2. StreamInv /\ [Next]_vars => StreamInv'
  BY TypedStep, InStepStep, CuttingStep DEF StreamInv
<1> QED
  BY <1>1, <1>2, PTL DEF Spec

\* In a text of whole characters that no token severs, what the client has received is at
\* every moment a front of what the model has said, also with trim_stop, and when the
\* stream is closed nothing is missing that trimming the whole answer leaves, for all such
\* tokens, all stop sequences and all ways to poll.
THEOREM TextStaysWhole == Spec => []NothingIsLost
<1>1. StreamInv => NothingIsLost
  <2> SUFFICES ASSUME StreamInv, Sound
               PROVE  /\ IsPrefix(sent, Said)
                      /\ pc = "closed" => IsPrefix(Answer, sent \o <<Space>>)
    BY DEF NothingIsLost, Sound
  <2>1. /\ Said \in Texts /\ sent \in Texts
        /\ \E m \in 0..Len(Said) : sent = Upto(Said, m)
        /\ pc = "closed" => \/ Said \in {sent, sent \o <<Space>>}
                            \/ trim /\ Len(Cut(Said)) <= Len(sent)
    BY ClientHas
  <2>2. PICK m \in 0..Len(Said) : sent = Upto(Said, m)
    BY <2>1
  <2>3. IsPrefix(sent, Said)
    BY <2>1, <2>2, FrontIsPrefix
  <2> DEFINE longer == sent \o <<Space>>
  <2>4. /\ Len(Said) \in Nat /\ Len(sent) \in Nat /\ Len(sent) = m
        /\ longer \in Texts /\ Len(longer) = Len(sent) + 1
        /\ Upto(longer, Len(sent)) = sent
    <3>1. <<Space>> \in Texts /\ Len(<<Space>>) = 1
      BY ShortTexts, BytesDiffer
    <3>2. Len(sent) \in Nat /\ Len(Said) \in Nat /\ Len(sent) \in 0..Len(sent)
      BY <2>1, TextFacts
    <3>3. longer \in Texts /\ Len(longer) = Len(sent) + 1
      BY <2>1, <3>1, Joined
    <3>4. Upto(sent \o <<Space>>, Len(sent)) = Upto(sent, Len(sent))
      BY <2>1, <3>1, <3>2, UptoJoined
    <3>5. Upto(sent, Len(sent)) = sent
      BY <2>1, UptoAll
    <3>6. Len(sent) = m
      BY <2>1, <2>2, UptoFacts
    <3> QED
      BY <3>2, <3>3, <3>4, <3>5, <3>6
  <2>5. PICK k \in 0..Len(Said) : Answer = Upto(Said, k) /\ (trim => Answer = Cut(Said))
    <3>1. CASE trim
      BY <2>1, <3>1, CutFront DEF Answer, Trimmed
    <3>2. CASE ~trim
      <4>1. Answer = Said /\ Len(Said) \in 0..Len(Said)
        BY <2>4, <3>2 DEF Answer, Trimmed
      <4> QED
        BY <2>1, <3>2, <4>1, UptoAll
    <3> QED
      BY <3>1, <3>2
  <2> HIDE DEF longer
  <2>6. ASSUME pc = "closed" PROVE IsPrefix(Answer, longer)
    <3>1. ASSUME NEW j \in 0..Len(longer), Answer = Upto(longer, j) PROVE IsPrefix(Answer, longer)
      BY <2>4, <3>1, FrontIsPrefix
    <3>2. CASE Said = sent
      <4>1. k \in 0..Len(sent) /\ k \in 0..Len(longer) /\ Len(sent) \in 0..Len(longer)
        BY <2>4, <3>2
      <4>2. Upto(Upto(longer, Len(sent)), k) = Upto(longer, k)
        BY <2>4, <4>1, UptoUpto
      <4> QED
        BY <2>4, <2>5, <3>1, <3>2, <4>1, <4>2
    <3>3. CASE Said = longer
      BY <2>5, <3>1, <3>3
    <3>4. CASE trim /\ Len(Cut(Said)) <= Len(sent)
      <4>1. Len(Answer) = k
        BY <2>1, <2>5, UptoFacts
      <4>2. /\ k \in 0..Len(sent) /\ k \in 0..m /\ k \in 0..Len(longer)
            /\ Len(sent) \in 0..Len(longer)
        BY <2>4, <2>5, <3>4, <4>1
      <4>3. Upto(Upto(Said, m), k) = Upto(Said, k)
        BY <2>1, <2>2, <4>2, UptoUpto
      <4>4. Upto(Upto(longer, Len(sent)), k) = Upto(longer, k)
        BY <2>4, <4>2, UptoUpto
      <4> QED
        BY <2>2, <2>4, <2>5, <3>1, <4>2, <4>3, <4>4
    <3> QED
      BY <2>1, <2>6, <3>2, <3>3, <3>4 DEF longer
  <2> QED
    BY <2>3, <2>6 DEF longer
<1> QED
  BY <1>1, StreamInvariance, PTL

-----------------------------------------------------------------------------
(* The characters that are lost                                            *)

\* The places where tokens end are those that mark the text.
LEMMA EndsMark ==
  ASSUME generated_tokens \in Seq(Tokens), concat_output \in Texts,
         NEW ends \in [0..Len(generated_tokens) -> Nat],
         Marks(generated_tokens, concat_output, ends)
  PROVE  \A k \in 0..Len(generated_tokens) : Ends[k] = ends[k]
<1> DEFINE n == Len(generated_tokens)
           Is(f) == f = [k \in 0..n |-> IF k = 0 THEN 0
                                        ELSE f[k - 1] + Len(generated_tokens[k])]
<1>1. n \in Nat /\ Len(concat_output) \in Nat
  BY LenProperties, TextFacts
<1>2. ASSUME NEW k \in 1..n PROVE ends[k] = ends[k - 1] + Len(generated_tokens[k])
  <2>1. k - 1 \in 0..n /\ k \in 0..n /\ n \in 0..n /\ k - 1 <= k /\ k <= n
    BY <1>1
  <2>2. ends[k - 1] \in Nat /\ ends[k] \in Nat /\ ends[k - 1] <= ends[k] /\ ends[k] <= ends[n]
    BY <2>1 DEF Marks
  <2>3. ends[n] = Len(concat_output) /\ generated_tokens[k] = Piece(concat_output, ends[k - 1], ends[k])
    BY DEF Marks
  <2>4. ends[k] \in ends[k - 1]..Len(concat_output)
    BY <1>1, <2>2, <2>3
  <2>5. Len(Piece(concat_output, ends[k - 1], ends[k])) = ends[k] - ends[k - 1]
    BY <2>2, <2>4, PieceFacts
  <2> QED
    BY <2>2, <2>3, <2>5
<1>3. Is(ends)
  <2> DEFINE g == [k \in 0..n |-> IF k = 0 THEN 0 ELSE ends[k - 1] + Len(generated_tokens[k])]
  <2>1. ASSUME NEW k \in 0..n PROVE ends[k] = g[k]
    <3>1. CASE k = 0
      BY <3>1 DEF Marks
    <3>2. CASE k # 0
      <4>1. k \in 1..n
        BY <1>1, <3>2
      <4>2. ends[k] = ends[k - 1] + Len(generated_tokens[k])
        BY <1>2, <4>1
      <4>3. g[k] = ends[k - 1] + Len(generated_tokens[k])
        BY <3>2, Zenon
      <4> QED
        BY <4>2, <4>3, Zenon
    <3> QED
      BY <3>1, <3>2
  <2>2. ends = g
    BY <2>1, Zenon
  <2> QED
    BY <2>2, Zenon
<1> DEFINE upto == CHOOSE f : Is(f)
<1>4. Is(upto)
  BY <1>3, Zenon
<1>5. Ends = upto
  BY Zenon DEF Ends
<1> HIDE DEF upto
<1>6. upto[0] = 0 /\ \A k \in 1..n : upto[k] = upto[k - 1] + Len(generated_tokens[k])
  <2> DEFINE g == [k \in 0..n |-> IF k = 0 THEN 0 ELSE upto[k - 1] + Len(generated_tokens[k])]
  <2>1. upto = g
    BY <1>4, Zenon
  <2>2. g[0] = 0
    BY <1>1
  <2>3. ASSUME NEW k \in 1..n PROVE g[k] = upto[k - 1] + Len(generated_tokens[k])
    <3>1. k \in 0..n /\ k # 0
      BY <1>1
    <3> QED
      BY <3>1, Zenon
  <2> HIDE DEF g
  <2> QED
    BY <2>1, <2>2, <2>3
<1> DEFINE Same == {k \in 0..n : upto[k] = ends[k]}
<1>7. 0 \in Same
  BY <1>1, <1>6 DEF Marks
<1>8. ASSUME NEW k \in 0..(n - 1), k \in Same PROVE k + 1 \in Same
  <2>1. k + 1 \in 1..n /\ k + 1 \in 0..n /\ (k + 1) - 1 = k /\ upto[k] = ends[k]
    BY <1>1, <1>8
  <2>2. upto[k + 1] = upto[(k + 1) - 1] + Len(generated_tokens[k + 1])
    BY <1>6, <2>1
  <2>3. ends[k + 1] = ends[(k + 1) - 1] + Len(generated_tokens[k + 1])
    BY <1>2, <2>1
  <2> QED
    BY <2>1, <2>2, <2>3
<1> HIDE DEF Same
<1>9. \A k \in 0..n : k \in Same
  BY <1>1, <1>7, <1>8, AllNumbers
<1> QED
  BY <1>5, <1>9 DEF Same

\* Cutting a text at the places of B takes the characters that are split there.
LEMMA SplitAway ==
  ASSUME NEW bytes \in Texts, NEW B, NEW S,
         S = {d \in Readable(bytes) : bytes[d] = Lead /\ d \in B}
  PROVE  Readable(bytes) \ (S \union {d + 1 : d \in S}) = Pieces(bytes, B)
<1>1. Len(bytes) \in Nat /\ DOMAIN bytes = 1..Len(bytes)
  BY TextFacts
<1> DEFINE lost == S \union {d + 1 : d \in S}
<1>2. ASSUME NEW d \in 1..Len(bytes)
      PROVE  InCharacter(bytes, d) /\ d \notin lost <=> InPieces(bytes, B, d)
  <2>1. d \in Readable(bytes) <=> InCharacter(bytes, d)
    BY <1>1 DEF Readable
  <2>2. d \in lost <=> d \in S \/ d - 1 \in S
    BY <1>1 DEF Readable
  <2>3. d \in S <=> InCharacter(bytes, d) /\ bytes[d] = Lead /\ d \in B
    BY <2>1
  <2>4. d - 1 \in S <=> /\ d > 1 /\ InCharacter(bytes, d - 1)
                        /\ bytes[d - 1] = Lead /\ d - 1 \in B
    BY <1>1 DEF Readable
  <2>5. d > 1 /\ bytes[d - 1] = Lead => (InCharacter(bytes, d - 1) <=> bytes[d] = Cont)
    <3> SUFFICES ASSUME d > 1, bytes[d - 1] = Lead
                 PROVE  InCharacter(bytes, d - 1) <=> bytes[d] = Cont
      OBVIOUS
    <3>1. (d - 1) + 1 = d /\ d - 1 < Len(bytes)
      BY <1>1
    <3> QED
      BY <3>1, BytesDiffer DEF InCharacter
  <2> HIDE DEF lost
  <2> QED
    BY <2>2, <2>3, <2>4, <2>5, BytesDiffer DEF InCharacter, InPieces
<1>3. Readable(bytes) \ lost = {d \in 1..Len(bytes) : InCharacter(bytes, d) /\ d \notin lost}
  BY <1>1 DEF Readable
<1> HIDE DEF lost
<1>4. Readable(bytes) \ lost = Pieces(bytes, B)
  BY <1>2, <1>3 DEF Pieces
<1> QED
  BY <1>4 DEF lost

\* Without trim_stop the client of a closed stream has what it would have got without
\* streaming, less some characters whose bytes came in two tokens, and less a space at
\* the end: for all tokens, of whole characters or not, and all ways to poll.
THEOREM StreamGivesAnswer == Spec => []OnlySplitIsLost
<1>1. StreamInv => OnlySplitIsLost
  <2> SUFFICES ASSUME StreamInv, pc = "closed", ~trim
               PROVE  \E S \in SUBSET Split :
                        Picked(concat_output,
                               Readable(concat_output) \ (S \union {d + 1 : d \in S}))
                          \in {sent, sent \o <<Space>>}
    BY DEF OnlySplitIsLost
  <2> DEFINE bytes == concat_output
             n == Len(generated_tokens)
  <2>1. PICK ends \in [0..n -> Nat] :
          Marks(generated_tokens, bytes, ends) /\ Losing(ends)
    BY DEF StreamInv, Cutting
  <2>2. /\ bytes \in Texts /\ sent \in Texts /\ generated_tokens \in Seq(Tokens)
        /\ current_token = n /\ tokenReserve = <<>> /\ tokenStr = <<>>
    BY DEF StreamInv, Typed, InStep
  <2>3. n \in Nat /\ Len(bytes) \in Nat /\ ends[n] = Len(bytes)
    BY <2>1, MarkFacts DEF StreamInv
  <2>4. (sent \o tokenReserve) \o tokenStr = sent
    BY <2>2, EmptyText
  <2>5. PICK c \in 0..Len(bytes) : \E B \in SUBSET (0..c) :
          LossyAt(bytes, ends, n, c, B, sent, incomplete_token_buffer)
    BY <2>1, <2>2, <2>3, <2>4 DEF Losing, Lossy
  <2>6. PICK B \in SUBSET (0..c) : LossyAt(bytes, ends, n, c, B, sent, incomplete_token_buffer)
    BY <2>5
  <2> HIDE DEF bytes, n
  <2> DEFINE front == Upto(bytes, c)
             rest == Piece(bytes, c, Len(bytes))
             S == {d \in Readable(bytes) : bytes[d] = Lead /\ d \in B}
  <2>7. /\ c \in B /\ \A b \in B : \E k \in 0..n : b = ends[k]
        /\ sent = Remains(front, B) /\ Decode(rest) \in {<<>>, <<Space>>}
    BY <2>3, <2>6 DEF LossyAt
  <2>8. /\ front \in Texts /\ Len(front) = c /\ rest \in Texts /\ front \o rest = bytes
    <3>1. c \in Nat /\ Len(bytes) \in c..Len(bytes)
      BY <2>3
    <3>2. Upto(bytes, Len(bytes)) = bytes
      BY <2>2, UptoAll DEF bytes
    <3>3. bytes \in Texts
      BY <2>2 DEF bytes
    <3> QED
      BY <3>1, <3>2, <3>3, UptoFacts, PieceFacts, Halves
  <2>9. Remains(bytes, B) = sent \o Decode(rest)
    <3>1. B \in SUBSET (0..Len(front)) /\ Len(front) \in B
      BY <2>7, <2>8
    <3> HIDE DEF front, rest
    <3>2. Remains(front \o rest, B) = Remains(front, B) \o Decode(rest)
      BY <2>8, <3>1, RemainsJoined
    <3> QED
      BY <2>7, <2>8, <3>2
  <2>10. Remains(bytes, B) \in {sent, sent \o <<Space>>}
    <3> HIDE DEF rest
    <3>1. sent \o <<>> = sent
      BY <2>2, EmptyText
    <3> QED
      BY <2>7, <2>9, <3>1
  <2>11. Readable(bytes) \ (S \union {d + 1 : d \in S}) = Pieces(bytes, B)
    <3>1. bytes \in Texts
      BY <2>2 DEF bytes
    <3> HIDE DEF S
    <3>2. S = {d \in Readable(bytes) : bytes[d] = Lead /\ d \in B}
      BY DEF S
    <3> QED
      BY <3>1, <3>2, SplitAway
  <2>12. S \in SUBSET Split
    <3>1. \A k \in 0..n : Ends[k] = ends[k]
      BY <2>1, <2>2, EndsMark DEF n, bytes
    <3> SUFFICES ASSUME NEW d \in Readable(bytes), bytes[d] = Lead, d \in B PROVE d \in Split
      OBVIOUS
    <3>2. PICK k \in 0..n : d = ends[k]
      BY <2>7
    <3>3. d = Ends[k]
      BY <3>1, <3>2
    <3> QED
      BY <3>3 DEF Split, bytes, n
  <2>13. Picked(bytes, Readable(bytes) \ (S \union {d + 1 : d \in S})) \in {sent, sent \o <<Space>>}
    BY <2>10, <2>11, Zenon DEF Remains
  <2> HIDE DEF S
  <2> QED
    BY <2>12, <2>13 DEF bytes
<1> QED
  BY <1>1, StreamInvariance, PTL
=============================================================================
