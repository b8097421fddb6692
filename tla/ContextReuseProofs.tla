------------------------- MODULE ContextReuseProofs -------------------------
(***************************************************************************)
(* Proofs about ContextReuse, for every vocabulary, context length, batch  *)
(* size and set of requests.                                               *)
(***************************************************************************)
EXTENDS ContextReuse, NumberSets, SequenceTheorems, TLAPS

-----------------------------------------------------------------------------
(* Sequences of tokens                                                     *)

Texts == Seq(Tokens)
Caches == [Positions -> Tokens \cup {Empty}]

LEMMA DropText == \A s \in Texts, n \in Nat : Drop(s, n) \in Texts
  BY DEF Drop, Texts

LEMMA DropLength ==
  \A s \in Texts, n \in Nat : Len(Drop(s, n)) = IF n <= Len(s) THEN Len(s) - n ELSE 0
  BY DEF Drop, Texts

LEMMA DropShortens ==
  ASSUME NEW s \in Texts, NEW n \in 0..Len(s)
  PROVE  Drop(s, n) \in Texts /\ Len(Drop(s, n)) = Len(s) - n
  BY DropText, DropLength DEF Texts

LEMMA FrontText ==
  ASSUME NEW s \in Texts, NEW n \in 0..Len(s)
  PROVE  /\ SubSeq(s, 1, n) \in Texts
         /\ Len(SubSeq(s, 1, n)) = n
         /\ \A i \in 1..n : SubSeq(s, 1, n)[i] = s[i]
  BY DEF Texts

LEMMA JoinText ==
  ASSUME NEW s \in Texts, NEW t \in Texts
  PROVE  /\ s \o t \in Texts
         /\ Len(s \o t) = Len(s) + Len(t)
         /\ \A i \in 1..Len(s) : (s \o t)[i] = s[i]
  BY DEF Texts

LEMMA DropJoined ==
  ASSUME NEW s \in Texts, NEW t \in Texts
  PROVE  Drop(s \o t, Len(s)) = t
<1> DEFINE u == Drop(s \o t, Len(s))
<1>1. /\ s \in Seq(Tokens) /\ t \in Seq(Tokens) /\ u \in Seq(Tokens)
      /\ Len(u) = Len(t)
      /\ \A i \in 1..Len(t) : u[i] = t[i]
  BY DEF Texts, Drop
<1> QED
  BY <1>1

LEMMA DropAll == \A s \in Texts : Drop(s, Len(s)) = <<>>
  BY DEF Texts, Drop

\* Two pieces joined are s when each agrees with its part of s.
LEMMA JoinedIs ==
  ASSUME NEW f \in Texts, NEW g \in Texts, NEW s \in Texts, Len(f) + Len(g) = Len(s),
         \A i \in 1..Len(f) : f[i] = s[i],
         \A i \in 1..Len(g) : g[i] = s[Len(f) + i]
  PROVE  f \o g = s
<1>1. f \in Seq(Tokens) /\ g \in Seq(Tokens) /\ s \in Seq(Tokens)
  BY DEF Texts
<1>2. /\ f \o g \in Seq(Tokens) /\ Len(f \o g) = Len(s)
      /\ \A i \in 1..Len(f) : (f \o g)[i] = s[i]
  BY <1>1
<1>3. \A i \in 1..Len(s) : i > Len(f) => (f \o g)[i] = s[i]
  <2>1. \A i \in 1..Len(s) : i > Len(f) => i - Len(f) \in 1..Len(g) /\ Len(f) + (i - Len(f)) = i
    BY <1>1
  <2>2. \A i \in 1..Len(s) : i > Len(f) => (f \o g)[i] = g[i - Len(f)]
    BY <1>1
  <2> QED
    BY <1>1, <2>1, <2>2
<1> DEFINE h == f \o g
<1>4. /\ h \in Seq(Tokens) /\ Len(h) = Len(s)
      /\ \A i \in 1..Len(s) : h[i] = s[i]
  BY <1>1, <1>2, <1>3
<1> HIDE DEF h
<1>5. h = s
  BY <1>1, <1>4
<1> QED
  BY <1>5 DEF h

LEMMA KeepLastText ==
  ASSUME NEW s \in Texts, NEW n \in 0..Len(s)
  PROVE  KeepLast(s, n) \in Texts /\ Len(KeepLast(s, n)) = n
  BY DEF Texts, KeepLast

LEMMA EmptyText == <<>> \in Texts /\ Len(<<>>) = 0
  BY DEF Texts

\* What a drop leaves is the end of the text, also when more is dropped of it.
LEMMA DropIsEnd ==
  ASSUME NEW s \in Texts, NEW n \in 0..Len(s)
  PROVE  Drop(s, n) = KeepLast(s, Len(Drop(s, n)))
<1>1. Len(Drop(s, n)) = Len(s) - n /\ Len(s) \in Nat
  BY DropShortens DEF Texts
<1>2. Len(s) - (Len(s) - n) + 1 = n + 1
  BY <1>1
<1> QED
  BY <1>1, <1>2 DEF Drop, KeepLast

LEMMA DropTwice ==
  ASSUME NEW s \in Texts, NEW n \in 0..Len(s), NEW m \in 0..(Len(s) - n)
  PROVE  Drop(Drop(s, n), m) = Drop(s, n + m)
<1>1. /\ Len(s) \in Nat /\ n \in Nat /\ m \in Nat /\ n + m \in 0..Len(s)
      /\ Drop(s, n) \in Texts /\ Len(Drop(s, n)) = Len(s) - n
  BY DropShortens DEF Texts
<1> DEFINE f == Drop(Drop(s, n), m)
           g == Drop(s, n + m)
<1>2. /\ f \in Texts /\ Len(f) = Len(s) - n - m
      /\ g \in Texts /\ Len(g) = Len(s) - n - m
  <2>1. m \in 0..Len(Drop(s, n))
    BY <1>1
  <2>2. f \in Texts /\ Len(f) = Len(Drop(s, n)) - m
    BY <1>1, <2>1, DropShortens
  <2>3. g \in Texts /\ Len(g) = Len(s) - (n + m)
    BY <1>1, DropShortens
  <2> QED
    BY <1>1, <2>2, <2>3
<1>3. \A i \in 1..(Len(s) - n) : Drop(s, n)[i] = s[n + i]
  BY <1>1 DEF Drop, Texts
<1>4. \A i \in 1..Len(f) : f[i] = g[i]
  <2> SUFFICES ASSUME NEW i \in 1..Len(f) PROVE f[i] = g[i]
    OBVIOUS
  <2>1. i \in Nat /\ m + i \in 1..(Len(s) - n) /\ i \in 1..(Len(s) - (n + m))
    BY <1>1, <1>2
  <2>2. f[i] = Drop(s, n)[m + i]
    <3> DEFINE d == Drop(s, n)
    <3>1. /\ d \in Seq(Tokens) /\ Len(d) = Len(s) - n
          /\ i \in Nat /\ i <= Len(d) - m /\ i >= 1
      BY <1>1, <2>1 DEF Texts
    <3> HIDE DEF d
    <3>2. SubSeq(d, m + 1, Len(d))[i] = d[m + i]
      BY <1>1, <3>1
    <3> QED
      BY <3>2 DEF d, Drop
  <2>3. g[i] = s[n + m + i]
    BY <1>1, <2>1 DEF Drop, Texts
  <2>4. Drop(s, n)[m + i] = s[n + (m + i)]
    BY <1>3, <2>1
  <2>5. n + (m + i) = n + m + i
    BY <1>1, <2>1
  <2> QED
    BY <2>2, <2>3, <2>4, <2>5
<1> HIDE DEF f, g
<1>5. f \in Seq(Tokens) /\ g \in Seq(Tokens) /\ Len(f) = Len(g)
  BY <1>2 DEF Texts
<1>6. f = g
  BY <1>4, <1>5
<1> QED
  BY <1>6 DEF f, g

-----------------------------------------------------------------------------
(* The prompt that is evaluated                                            *)

LEMMA BosInFrontText ==
  ASSUME NEW s \in Texts
  PROVE  WithBosInFront(s) \in Texts /\ Len(WithBosInFront(s)) = Len(s)
  BY RequestsAssumption DEF RequestsOK, WithBosInFront, Texts

LEMMA WithoutBosText ==
  ASSUME NEW s \in Texts
  PROVE  WithoutBos(s) \in Texts /\ Len(WithoutBos(s)) <= Len(s)
  BY DEF WithoutBos, Texts

\* The prompt and its added memory, as cut to the context, leave room for what is
\* to be generated, as long as there is enough of them to be cut.
LEMMA EffectivePromptFits ==
  ASSUME NEW r \in Requests, ~Overruns(r)
  PROVE  LET cut == EffectivePrompt(r.prompt, r.memory, r.max_length, r.max_context_length)
         IN  /\ cut \in Texts
             /\ Len(cut) + r.max_length <= r.max_context_length
<1> DEFINE gen == r.max_length
           nctx == r.max_context_length
           fitted == FitPrompt(r.prompt, gen, nctx)
           mem == FitMemory(r.memory, gen, nctx)
           body == WithoutBos(fitted)
           excess == Len(mem) + Len(body) + gen - nctx
           cut == MaxOf(0, MinOf(excess, Len(body)))
<1>1. /\ r.prompt \in Texts /\ r.memory \in Texts
      /\ gen \in Nat /\ nctx \in Nat /\ MemoryMargin \in Nat /\ gen <= nctx
      /\ r.memory # <<>> => gen + MemoryMargin <= nctx
  BY RequestsAssumption DEF RequestsOK, Overruns, Texts
<1> HIDE DEF gen, nctx
<1>2. fitted \in Texts /\ Len(fitted) + gen <= nctx
  <2>1. CASE Len(r.prompt) + gen > nctx
    <3>1. nctx - gen \in 0..Len(r.prompt)
      BY <1>1, <2>1 DEF Texts
    <3> QED
      BY <2>1, <3>1, <1>1, KeepLastText, BosInFrontText DEF FitPrompt
  <2>2. CASE ~(Len(r.prompt) + gen > nctx)
    BY <2>2, <1>1 DEF FitPrompt, Texts
  <2> QED
    BY <2>1, <2>2
<1>3. ASSUME r.memory # <<>> PROVE mem \in Texts /\ Len(mem) + gen <= nctx
  <2>0. gen + MemoryMargin <= nctx
    BY <1>1, <1>3
  <2>1. CASE Len(r.memory) + gen + MemoryMargin > nctx
    <3>1. nctx - gen - MemoryMargin \in 0..Len(r.memory)
      BY <1>1, <2>0, <2>1 DEF Texts
    <3> QED
      BY <2>1, <3>1, <1>1, KeepLastText, BosInFrontText DEF FitMemory
  <2>2. CASE ~(Len(r.memory) + gen + MemoryMargin > nctx)
    BY <2>2, <1>1 DEF FitMemory, Texts
  <2> QED
    BY <2>1, <2>2
<1>4. body \in Texts /\ Len(body) \in Nat /\ (r.memory # <<>> => Len(mem) \in Nat)
  BY <1>2, <1>3, WithoutBosText DEF Texts
<1> HIDE DEF fitted, mem, body
<1>5. CASE r.memory = <<>>
  BY <1>2, <1>5 DEF EffectivePrompt, fitted, gen, nctx
<1>6. CASE r.memory # <<>>
  <2>1. cut \in Nat /\ cut <= Len(body) /\ (cut >= excess \/ cut = Len(body))
    BY <1>1, <1>4, <1>6 DEF MaxOf, MinOf
  <2> HIDE DEF cut
  <2>2. Drop(body, cut) \in Texts /\ Len(Drop(body, cut)) = Len(body) - cut
    BY <1>4, <2>1, DropText, DropLength
  <2>3. mem \o Drop(body, cut) \in Texts /\ Len(mem \o Drop(body, cut)) + gen <= nctx
    BY <1>1, <1>3, <1>4, <1>6, <2>1, <2>2, JoinText
  <2> QED
    BY <1>6, <2>3 DEF EffectivePrompt, fitted, mem, body, cut, gen, nctx
<1> QED
  BY <1>5, <1>6

-----------------------------------------------------------------------------
(* What a generation takes over                                            *)

Typed ==
  /\ mode \in ContextModes
  /\ pc \in {"idle", "crashed", "reuse", "budget"} \cup Looping
  /\ request \in Requests
  /\ {embd_inp, embd, current_context_tokens, smartcontext, prompt} \subseteq Texts
  /\ kv \in Caches
  /\ n_past \in Nat /\ skewed \subseteq Positions

LEMMA FoundWithin ==
  ASSUME NEW s \in Texts, NEW shared
  PROVE  ArrFindIndexOf(s, shared) \in -1..(Len(s) - 1)
<1> DEFINE at == {i \in 1..Len(s) : OccursAt(shared, s, i)}
           first == CHOOSE i \in at : \A j \in at : i <= j
<1>1. CASE at = {}
  BY <1>1 DEF ArrFindIndexOf, Texts
<1>2. CASE at # {}
  <2>1. \E i \in at : \A j \in at : i <= j
    <3>1. at \in SUBSET Nat
      BY DEF Texts
    <3> QED
      BY <1>2, <3>1, LeastNumber
  <2>2. first \in 1..Len(s)
    BY <2>1
  <2> QED
    BY <1>2, <2>2 DEF ArrFindIndexOf, Texts
<1> QED
  BY <1>1, <1>2

\* What two texts share is a text.
LEMMA SharedText ==
  ASSUME NEW s \in Texts, NEW t \in Texts
  PROVE  LongestCommonSubseq(s, t) \in Texts
<1> DEFINE Ends(l) == {i \in l..Len(s) :
                         \E j \in l..Len(t) : \A n \in 0..(l - 1) : s[i - n] = t[j - n]}
           Length(l) == Ends(l) # {} /\ Ends(l + 1) = {}
           longest == CHOOSE l \in 0..Len(s) : Length(l)
           First(e) == \A f \in Ends(longest) : e <= f
           end == CHOOSE e \in Ends(longest) : First(e)
<1>0. Len(s) \in Nat /\ Len(t) \in Nat
  BY DEF Texts
<1>1. \E l \in 0..Len(s) : Length(l)
  <2> DEFINE Shared == {l \in 0..Len(s) : Ends(l) # {}}
  <2>1. 0 \in Ends(0)
    <3>1. 0 \in 0..Len(s) /\ 0 \in 0..Len(t) /\ \A n \in 0..(0 - 1) : FALSE
      BY <1>0
    <3> QED
      BY <3>1
  <2>2. Shared \in SUBSET (0..Len(s)) /\ Shared # {}
    BY <1>0, <2>1
  <2>3. PICK l \in Shared : \A k \in Shared : k <= l
    <3> HIDE DEF Shared
    <3> QED
      BY <1>0, <2>2, GreatestNumber
  <2>4. l \in 0..Len(s) /\ Ends(l) # {} /\ l + 1 \notin Shared
    <3>1. l \in 0..Len(s) /\ Ends(l) # {}
      OBVIOUS
    <3> HIDE DEF Shared
    <3>2. ~(l + 1 <= l)
      BY <1>0, <3>1
    <3> QED
      BY <2>3, <3>1, <3>2
  <2>5. Ends(l + 1) # {} => l + 1 \in 0..Len(s)
    BY <1>0, <2>4
  <2>6. Ends(l + 1) = {}
    BY <2>4, <2>5
  <2> QED
    BY <2>4, <2>6
<1>2. longest \in 0..Len(s) /\ Length(longest)
  BY <1>1
<1>3. \E e \in Ends(longest) : First(e)
  <2>1. Ends(longest) \in SUBSET Nat /\ Ends(longest) # {}
    <3>1. \A l \in Nat : Ends(l) \in SUBSET Nat
      BY <1>0
    <3>2. longest \in Nat
      <4> HIDE DEF longest
      <4> QED
        BY <1>0, <1>2
    <3> HIDE DEF Ends, longest
    <3> QED
      BY <1>2, <3>1, <3>2
  <2> HIDE DEF Ends, longest
  <2> QED
    BY <2>1, LeastNumber
<1>4. end \in Ends(longest)
  <2> HIDE DEF Ends, First
  <2> QED
    BY <1>3
<1>5. end \in longest..Len(s)
  <2> HIDE DEF longest, end
  <2> QED
    BY <1>4
<1>6. LongestCommonSubseq(s, t) = SubSeq(s, end - longest + 1, end)
  BY DEF LongestCommonSubseq
<1> HIDE DEF longest, end
<1>7. SubSeq(s, end - longest + 1, end) \in Texts
  BY <1>0, <1>2, <1>5 DEF Texts
<1> QED
  BY <1>6, <1>7

\* Where a text is found there is room for it.
LEMMA FoundFits ==
  ASSUME NEW s \in Texts, NEW shared \in Texts, ArrFindIndexOf(s, shared) >= 0
  PROVE  ArrFindIndexOf(s, shared) + Len(shared) <= Len(s)
<1> DEFINE at == {i \in 1..Len(s) : OccursAt(shared, s, i)}
           first == CHOOSE i \in at : \A j \in at : i <= j
<1>0. Len(s) \in Nat /\ Len(shared) \in Nat
  BY DEF Texts
<1>1. at # {}
  BY DEF ArrFindIndexOf
<1>2. \E i \in at : \A j \in at : i <= j
  <2>1. at \in SUBSET Nat
    BY <1>0
  <2> QED
    BY <1>1, <2>1, LeastNumber
<1>3. first \in 1..Len(s) /\ OccursAt(shared, s, first)
  BY <1>2
<1>4. ArrFindIndexOf(s, shared) = first - 1
  BY <1>1 DEF ArrFindIndexOf
<1> HIDE DEF first
<1> QED
  BY <1>0, <1>3, <1>4 DEF OccursAt

\* A loop of matching tokens passes no more tokens than there are to be matched, and
\* one less when there are two.
LEMMA MatchLength ==
  ASSUME NEW old \in Texts, NEW new \in Texts, new # <<>>, NEW from \in Nat,
         NEW off \in {0, from}, NEW count \in Nat, MatchStops(old, new, from, off, count)
  PROVE  count <= Len(new) /\ (Len(new) >= 2 => count < Len(new))
<1>1. Len(new) \in Nat \ {0}
  BY DEF Texts
<1>2. CASE count >= 2
  <2>1. ~LeavesNoMore(new, from + (count - 2) - off)
    BY <1>2 DEF MatchStops
  <2> QED
    BY <1>1, <1>2, <2>1 DEF LeavesNoMore
<1> QED
  BY <1>1, <1>2

\* The input is the end of the prompt, and not empty when the prompt has a token to
\* spare.
EndOf(input, new) ==
  /\ input = KeepLast(new, Len(input)) /\ Len(input) <= Len(new)
  /\ Len(new) >= 2 => input # <<>>

LEMMA DropEnds ==
  ASSUME NEW new \in Texts, NEW n \in 0..Len(new), Len(new) >= 2 => n < Len(new)
  PROVE  EndOf(Drop(new, n), new)
<1>1. Len(Drop(new, n)) = Len(new) - n /\ Len(new) \in Nat
  BY DropShortens DEF Texts
<1>2. Len(new) >= 2 => Drop(new, n) # <<>>
  BY <1>1, EmptyText
<1> QED
  BY <1>1, <1>2, DropIsEnd DEF EndOf

\* The matching tokens of old, followed by the rest of new, are new.
LEMMA MatchedTokens ==
  ASSUME NEW old \in Texts, NEW new \in Texts, NEW n \in Matches(old, new)
  PROVE  /\ n \in 0..Len(old) /\ n <= Len(new)
         /\ Drop(new, n) \in Texts /\ n + Len(Drop(new, n)) = Len(new)
         /\ SubSeq(old, 1, n) \o Drop(new, n) = new
         /\ EndOf(Drop(new, n), new)
<1>1. /\ n \in 0..Len(old) /\ n \in Nat /\ n <= Len(new)
      /\ MatchStops(old, new, 0, 0, n)
  BY DEF Matches, MinOf, Texts
<1>2. n <= Len(new) /\ (Len(new) >= 2 => n < Len(new))
  <2>1. Len(new) >= 2 => new # <<>>
    BY EmptyText
  <2> QED
    BY <1>1, <2>1, MatchLength
<1>3. /\ Drop(new, n) \in Texts /\ n + Len(Drop(new, n)) = Len(new)
      /\ SubSeq(old, 1, n) \in Texts /\ Len(SubSeq(old, 1, n)) = n
  <2>1. Drop(new, n) \in Texts /\ Len(Drop(new, n)) = Len(new) - n
    BY <1>1, <1>2, DropText, DropLength
  <2>2. Len(new) \in Nat
    BY DEF Texts
  <2>3. SubSeq(old, 1, n) \in Texts /\ Len(SubSeq(old, 1, n)) = n
    BY <1>1, FrontText
  <2> QED
    BY <1>1, <2>1, <2>2, <2>3
<1>4. \A i \in 1..n : old[i] = new[i]
  <2>1. \A j \in 0..(n - 1) : j < Len(new) => old[j + 1] = new[j + 1]
    BY <1>1 DEF MatchStops, Texts
  <2>2. ASSUME NEW i \in 1..n PROVE old[i] = new[i]
    <3>1. i - 1 \in 0..(n - 1) /\ i - 1 < Len(new) /\ (i - 1) + 1 = i
      BY <1>1, <1>2 DEF Texts
    <3> QED
      BY <2>1, <3>1
  <2> QED
    BY <2>2
<1>5. \A i \in 1..n : SubSeq(old, 1, n)[i] = new[i]
  BY <1>1, <1>4, FrontText
<1>6. \A i \in 1..(Len(new) - n) : Drop(new, n)[i] = new[n + i]
  BY <1>1, <1>2 DEF Drop, Texts
<1>7. SubSeq(old, 1, n) \o Drop(new, n) = new
  <2> DEFINE f == SubSeq(old, 1, n)
             g == Drop(new, n)
  <2>1. /\ f \in Texts /\ g \in Texts /\ Len(f) + Len(g) = Len(new)
        /\ \A i \in 1..Len(f) : f[i] = new[i]
        /\ \A i \in 1..Len(g) : g[i] = new[Len(f) + i]
    <3>1. Len(f) = n /\ Len(g) = Len(new) - n
      <4>1. n \in Nat /\ Len(new) \in Nat /\ Len(g) \in Nat
        BY <1>1, <1>3 DEF Texts
      <4> QED
        BY <1>3, <4>1
    <3> HIDE DEF f, g
    <3>2. /\ \A i \in 1..n : f[i] = new[i]
          /\ \A i \in 1..(Len(new) - n) : g[i] = new[n + i]
          /\ f \in Texts /\ g \in Texts /\ n + Len(g) = Len(new)
      BY <1>3, <1>5, <1>6 DEF f, g
    <3> QED
      BY <3>1, <3>2
  <2> HIDE DEF f, g
  <2>2. f \o g = new
    BY <2>1, JoinedIs
  <2> QED
    BY <2>2 DEF f, g
<1>8. EndOf(Drop(new, n), new)
  <2>1. n \in 0..Len(new)
    BY <1>1, <1>2 DEF Texts
  <2> QED
    BY <1>2, <2>1, DropEnds
<1> QED
  BY <1>1, <1>2, <1>3, <1>7, <1>8

\* A shift erases no more tokens than there are behind the matching ones.
LEMMA ErasedWithin ==
  ASSUME NEW old \in Texts, NEW new \in Texts, NEW trimstart \in 0..Len(old),
         NEW shared, NEW gen, NEW nctx
  PROVE  ErasedTokens(old, new, trimstart, shared, gen, nctx) \in 0..(Len(old) - trimstart)
BY FoundWithin DEF ErasedTokens, Texts

\* A remembered part is taken up only where two tokens or more are left.
LEMMA ResumeWithin ==
  ASSUME NEW smart, NEW left \in Texts, NEW shared \in Texts, NEW nctx \in Nat
  PROVE  /\ SmartResume(smart, left, shared, nctx) \in Int
         /\ SmartResume(smart, left, shared, nctx) < Len(left)
         /\ SmartResume(smart, left, shared, nctx) >= 0
              => SmartResume(smart, left, shared, nctx) + 2 <= Len(left)
<1> DEFINE found == SmartResume(smart, left, shared, nctx)
<1>1. Len(left) \in Nat /\ Len(shared) \in Nat
  BY DEF Texts
<1>2. ASSUME found # -1 PROVE found \in Nat /\ found + 2 <= Len(left)
  <2>1. found = ArrFindIndexOf(left, shared) /\ Len(shared) > SmartTokThreshold(nctx)
    BY <1>2 DEF SmartResume
  <2>2. SmartTokThreshold(nctx) \in Nat \ {0}
    BY SmartAssumption DEF SmartTokThreshold
  <2>3. found \in Int /\ found >= 0
    BY <1>1, <1>2, <2>1, FoundWithin
  <2>4. found + Len(shared) <= Len(left)
    BY <2>1, <2>3, FoundFits
  <2> HIDE DEF found
  <2> QED
    BY <1>1, <2>1, <2>2, <2>3, <2>4
<1>3. found \in Int /\ found < Len(left) /\ (found >= 0 => found + 2 <= Len(left))
  <2> HIDE DEF found
  <2> QED
    BY <1>1, <1>2
<1> QED
  BY <1>3

LEMMA ShiftedText ==
  ASSUME NEW old \in Texts, NEW trimstart \in 0..Len(old), NEW diff \in 0..(Len(old) - trimstart)
  PROVE  ShiftTokens(old, trimstart, diff) \in Texts
<1>1. Len(old) - diff \in Nat
  BY DEF Texts
<1>2. \A i \in 1..(Len(old) - diff) :
        (IF i > trimstart /\ i + diff < Len(old) THEN old[i + diff] ELSE old[i]) \in Tokens
  BY DEF Texts
<1> QED
  BY <1>1, <1>2 DEF ShiftTokens, Texts

\* Tokens in the middle of the context were erased from the array and from the cache,
\* which leaves the positions in wrong skewed.
ShiftedBoth(old, cells, wrong) ==
  \E trimstart \in 0..Len(current_context_tokens) :
  \E diff \in 1..(Len(current_context_tokens) - trimstart) :
    /\ old = ShiftTokens(current_context_tokens, trimstart, diff)
    /\ cells = SeqAdd(SeqRm(kv, trimstart, trimstart + diff), trimstart + diff, -diff)
    /\ wrong = SkewedByShift(trimstart, diff)

\* A generation goes on with the first kept tokens of old and their cells, of which
\* those in wrong are skewed, and has input left to evaluate.
TakesOver(old, cells, wrong, kept, input) ==
  /\ Reuse /\ Keep(old, cells, kept, input) /\ KeepSkewed(wrong)
  /\ smartcontext' \in Texts
  /\ kept + Len(input) <= Len(embd_inp)
  /\ EndOf(input, embd_inp)
  /\ \/ kept = 0
     \/ cells = kv /\ old = current_context_tokens /\ wrong = skewed
     \/ ShiftedBoth(old, cells, wrong)
  /\ mode # "smart" => SubSeq(old, 1, kept) \o input = embd_inp

\* This is so in every mode, the tokens and cells being the old ones or nothing
\* where nothing is shifted, and no token of the prompt being lost without smart
\* context.
LEMMA ReuseKeeps ==
  ASSUME Typed, ReuseNothing \/ ReusePrefix \/ ReuseShifted \/ ReuseSmart
  PROVE  \E old, input \in Texts, cells \in Caches, wrong \in SUBSET Positions :
         \E kept \in 0..Len(old) : TakesOver(old, cells, wrong, kept, input)
<1> DEFINE ctx == current_context_tokens
<1>0. /\ ctx \in Texts /\ embd_inp \in Texts /\ smartcontext \in Texts /\ kv \in Caches
      /\ skewed \in SUBSET Positions /\ {} \in SUBSET Positions
      /\ Len(embd_inp) \in Nat /\ Len(ctx) \in Nat
  BY DEF Typed, Texts
<1>1. CASE ReuseNothing
  <2>1. SubSeq(<<>>, 1, 0) \o embd_inp = embd_inp
    BY <1>0 DEF Texts
  <2>2. EndOf(embd_inp, embd_inp)
    <3>1. Drop(embd_inp, 0) = embd_inp
      BY <1>0 DEF Drop, Texts
    <3>2. 0 \in 0..Len(embd_inp) /\ (Len(embd_inp) >= 2 => 0 < Len(embd_inp))
      BY <1>0
    <3>3. EndOf(Drop(embd_inp, 0), embd_inp)
      BY <1>0, <3>2, DropEnds
    <3> QED
      BY <3>1, <3>3
  <2>3. TakesOver(<<>>, kv, {}, 0, embd_inp)
    BY <1>0, <1>1, <2>1, <2>2 DEF ReuseNothing, TakesOver
  <2> QED
    BY <1>0, <2>3, EmptyText
<1>2. CASE ReusePrefix
  <2>1. PICK n \in Matches(ctx, embd_inp) : Keep(ctx, kv, n, Drop(embd_inp, n))
    BY <1>2 DEF ReusePrefix
  <2>2. /\ n \in 0..Len(ctx) /\ Drop(embd_inp, n) \in Texts
        /\ n + Len(Drop(embd_inp, n)) = Len(embd_inp)
        /\ SubSeq(ctx, 1, n) \o Drop(embd_inp, n) = embd_inp
        /\ EndOf(Drop(embd_inp, n), embd_inp)
    BY <1>0, <1>2, MatchedTokens DEF ReusePrefix
  <2>3. TakesOver(ctx, kv, skewed, n, Drop(embd_inp, n))
    BY <1>0, <1>2, <2>1, <2>2, EmptyText DEF ReusePrefix, TakesOver
  <2> QED
    BY <1>0, <2>2, <2>3
<1>3. CASE ReuseShifted
  <2> DEFINE Shifted(trimstart, diff) ==
               \E old \in {ShiftTokens(ctx, trimstart, diff)} :
               \E n \in Matches(old, embd_inp) :
                 /\ Keep(old, SeqAdd(SeqRm(kv, trimstart, trimstart + diff),
                                     trimstart + diff, -diff),
                         n, Drop(embd_inp, n))
                 /\ KeepSkewed(SkewedByShift(trimstart, diff))
             Plainly(trimstart) ==
               /\ Keep(ctx, kv, trimstart, Drop(embd_inp, trimstart))
               /\ KeepSkewed(skewed)
  <2>1. Reuse /\ smartcontext' = <<>> /\ mode = "shift"
    BY <1>3 DEF ReuseShifted
  <2>2. PICK trimstart \in Matches(ctx, embd_inp) :
          \E diff \in 0..(Len(ctx) - trimstart) :
            IF diff = 0 THEN Plainly(trimstart) ELSE Shifted(trimstart, diff)
    <3>1. \A trimstart \in Matches(ctx, embd_inp) : trimstart \in 0..Len(ctx)
      BY <1>0 DEF Matches, MinOf, Texts
    <3>2. \A trimstart \in Matches(ctx, embd_inp) : \A shared :
            ErasedTokens(ctx, embd_inp, trimstart, shared, request.max_length,
                         request.max_context_length) \in 0..(Len(ctx) - trimstart)
      BY <1>0, <3>1, ErasedWithin
    <3> QED
      BY <1>3, <3>2 DEF ReuseShifted
  <2>3. /\ trimstart \in 0..Len(ctx) /\ Drop(embd_inp, trimstart) \in Texts
        /\ trimstart + Len(Drop(embd_inp, trimstart)) = Len(embd_inp)
        /\ SubSeq(ctx, 1, trimstart) \o Drop(embd_inp, trimstart) = embd_inp
        /\ EndOf(Drop(embd_inp, trimstart), embd_inp)
    BY <1>0, <2>1, MatchedTokens
  <2> HIDE DEF Shifted, Plainly
  <2>4. PICK diff \in 0..(Len(ctx) - trimstart) :
          IF diff = 0 THEN Plainly(trimstart) ELSE Shifted(trimstart, diff)
    BY <2>2
  <2>5. CASE diff = 0
    <3>1. TakesOver(ctx, kv, skewed, trimstart, Drop(embd_inp, trimstart))
      BY <1>0, <2>1, <2>3, <2>4, <2>5, EmptyText DEF TakesOver, Plainly
    <3> QED
      BY <1>0, <2>3, <3>1
  <2>6. CASE diff # 0
    <3> DEFINE old == ShiftTokens(ctx, trimstart, diff)
               cells == SeqAdd(SeqRm(kv, trimstart, trimstart + diff), trimstart + diff, -diff)
               wrong == SkewedByShift(trimstart, diff)
    <3>1. old \in Texts /\ cells \in Caches
      BY <1>0, <2>3, ShiftedText DEF SeqAdd, SeqRm, Caches
    <3>6. wrong \in SUBSET Positions
      BY DEF SkewedByShift
    <3>2. PICK n \in Matches(old, embd_inp) :
            Keep(old, cells, n, Drop(embd_inp, n)) /\ KeepSkewed(wrong)
      BY <2>4, <2>6 DEF Shifted
    <3>3. ShiftedBoth(old, cells, wrong)
      <4>1. diff \in 1..(Len(ctx) - trimstart)
        BY <1>0, <2>3, <2>6
      <4> QED
        BY <2>3, <4>1 DEF ShiftedBoth
    <3> HIDE DEF old, cells, wrong
    <3>4. /\ n \in 0..Len(old) /\ Drop(embd_inp, n) \in Texts
          /\ n + Len(Drop(embd_inp, n)) = Len(embd_inp)
          /\ SubSeq(old, 1, n) \o Drop(embd_inp, n) = embd_inp
          /\ EndOf(Drop(embd_inp, n), embd_inp)
      BY <1>0, <2>1, <3>1, MatchedTokens
    <3>5. TakesOver(old, cells, wrong, n, Drop(embd_inp, n))
      BY <1>0, <2>1, <3>2, <3>4, <3>3, EmptyText DEF TakesOver
    <3> QED
      BY <3>1, <3>4, <3>5, <3>6
  <2> QED
    BY <2>5, <2>6
<1>4. CASE ReuseSmart
  <2> DEFINE Resumed(n, left, found) ==
               /\ found >= 0
               /\ \E trimmed \in {Drop(left, found)} : \E m \in 0..(Len(ctx) - n) :
                    /\ MatchStops(ctx, trimmed, n, OffsetFix(ctx, trimmed, n), m)
                    /\ Keep(ctx, kv, n + m, Drop(trimmed, m))
               /\ UNCHANGED smartcontext
             Halved(n, left) ==
               \E half \in {Drop(left, Len(left) \div 2)} :
                 Keep(ctx, kv, n, half) /\ smartcontext' = half
             Plainly(n, left) == Keep(ctx, kv, n, left) /\ smartcontext' = <<>>
  <2>1. Reuse /\ mode = "smart" /\ KeepSkewed(skewed)
    BY <1>4 DEF ReuseSmart
  <2>2. PICK n \in 0..Len(ctx), left \in Texts, found \in Int :
          /\ n + Len(left) = Len(embd_inp) /\ left = Drop(embd_inp, n)
          /\ EndOf(left, embd_inp)
          /\ found < Len(left) /\ (found >= 0 => found + 2 <= Len(left))
          /\ Resumed(n, left, found) \/ Halved(n, left) \/ Plainly(n, left)
    <3>1. \E n \in Matches(ctx, embd_inp) :
          \E left \in {Drop(embd_inp, n)} :
          \E shared \in {LongestCommonSubseq(smartcontext, left)} :
          \E found \in {SmartResume(smartcontext, left, shared, request.max_context_length)} :
            Resumed(n, left, found) \/ Halved(n, left) \/ Plainly(n, left)
      BY <1>4 DEF ReuseSmart
    <3>2. \A n \in Matches(ctx, embd_inp) :
            /\ n \in 0..Len(ctx) /\ Drop(embd_inp, n) \in Texts
            /\ n + Len(Drop(embd_inp, n)) = Len(embd_inp)
            /\ EndOf(Drop(embd_inp, n), embd_inp)
      BY <1>0, <2>1, MatchedTokens
    <3>3. \A left \in Texts, shared \in Texts :
            LET found == SmartResume(smartcontext, left, shared, request.max_context_length)
            IN  /\ found \in Int /\ found < Len(left)
                /\ found >= 0 => found + 2 <= Len(left)
      <4>1. request.max_context_length \in Nat
        BY RequestsAssumption DEF Typed, RequestsOK
      <4> QED
        BY <4>1, ResumeWithin
    <3>4. \A left \in Texts : LongestCommonSubseq(smartcontext, left) \in Texts
      BY <1>0, SharedText
    <3> HIDE DEF Resumed, Halved, Plainly
    <3> QED
      BY <3>1, <3>2, <3>3, <3>4
  <2>3. Len(left) \in Nat /\ n \in Nat
    BY <1>0 DEF Texts
  <2>4. CASE Resumed(n, left, found)
    <3> DEFINE trimmed == Drop(left, found)
    <3>1. PICK m \in 0..(Len(ctx) - n) :
            /\ MatchStops(ctx, trimmed, n, OffsetFix(ctx, trimmed, n), m)
            /\ Keep(ctx, kv, n + m, Drop(trimmed, m))
      BY <2>4
    <3>2. found \in Nat /\ trimmed \in Texts /\ Len(trimmed) = Len(left) - found
      <4>1. found \in 0..Len(left) /\ found \in Nat
        BY <2>2, <2>3, <2>4
      <4> QED
        BY <4>1, DropShortens
    <3> HIDE DEF trimmed
    <3>3. m \in Nat /\ m <= Len(trimmed) /\ (Len(trimmed) >= 2 => m < Len(trimmed))
      <4>1. trimmed # <<>> /\ m \in Nat
        BY <2>2, <2>3, <3>2, EmptyText
      <4>2. OffsetFix(ctx, trimmed, n) \in {0, n}
        BY DEF OffsetFix
      <4> QED
        BY <1>0, <2>3, <3>1, <3>2, <4>1, <4>2, MatchLength
    <3>4. EndOf(Drop(trimmed, m), embd_inp)
      <4>1. /\ found \in 0..(Len(embd_inp) - n) /\ n \in 0..Len(embd_inp)
            /\ n + found \in 0..Len(embd_inp) /\ m \in 0..(Len(embd_inp) - (n + found))
            /\ n + found + m \in 0..Len(embd_inp) /\ n + found + m < Len(embd_inp)
        BY <1>0, <2>2, <2>3, <2>4, <3>2, <3>3
      <4>2. trimmed = Drop(embd_inp, n + found)
        BY <1>0, <2>2, <4>1, DropTwice DEF trimmed
      <4>3. Drop(trimmed, m) = Drop(embd_inp, n + found + m)
        BY <1>0, <4>1, <4>2, DropTwice
      <4> QED
        BY <1>0, <4>1, <4>3, DropEnds
    <3>5. /\ Drop(trimmed, m) \in Texts
          /\ n + m + Len(Drop(trimmed, m)) <= Len(embd_inp)
      <4>1. m \in 0..Len(trimmed)
        BY <2>2, <2>3, <3>2, <3>3
      <4>2. Drop(trimmed, m) \in Texts /\ Len(Drop(trimmed, m)) = Len(trimmed) - m
        BY <3>2, <4>1, DropShortens
      <4> QED
        BY <1>0, <2>2, <2>3, <3>2, <3>3, <4>2
    <3>6. TakesOver(ctx, kv, skewed, n + m, Drop(trimmed, m))
      BY <1>0, <2>1, <2>4, <3>1, <3>5, <3>4 DEF TakesOver
    <3>7. n + m \in 0..Len(ctx)
      BY <1>0, <2>3
    <3> QED
      BY <1>0, <3>5, <3>6, <3>7
  <2>5. CASE Halved(n, left)
    <3> DEFINE half == Drop(left, Len(left) \div 2)
    <3>1. half \in Texts /\ n + Len(half) <= Len(embd_inp)
      <4>1. Len(left) \div 2 \in 0..Len(left)
        BY <2>3
      <4>2. half \in Texts /\ Len(half) = Len(left) - Len(left) \div 2
        BY <4>1, DropShortens
      <4> QED
        BY <1>0, <2>2, <2>3, <4>1, <4>2
    <3>2. Keep(ctx, kv, n, half) /\ smartcontext' = half
      BY <2>5
    <3>3. EndOf(half, embd_inp)
      <4> DEFINE skip == Len(left) \div 2
      <4>1. /\ n \in 0..Len(embd_inp) /\ skip \in 0..(Len(embd_inp) - n)
            /\ n + skip \in 0..Len(embd_inp)
            /\ Len(embd_inp) >= 2 => n + skip < Len(embd_inp)
        <5>1. Len(embd_inp) >= 2 => Len(left) > 0
          BY <2>2, <2>3, EmptyText DEF EndOf
        <5> QED
          BY <1>0, <2>2, <2>3, <5>1
      <4> HIDE DEF skip
      <4>2. Drop(left, skip) = Drop(embd_inp, n + skip)
        BY <1>0, <2>2, <4>1, DropTwice
      <4> QED
        BY <1>0, <4>1, <4>2, DropEnds DEF skip
    <3> HIDE DEF half
    <3>4. TakesOver(ctx, kv, skewed, n, half)
      BY <1>0, <2>1, <3>1, <3>2, <3>3 DEF TakesOver
    <3> QED
      BY <1>0, <3>1, <3>4
  <2>6. CASE Plainly(n, left)
    <3>1. TakesOver(ctx, kv, skewed, n, left)
      BY <1>0, <2>1, <2>2, <2>3, <2>6, EmptyText DEF TakesOver
    <3> QED
      BY <1>0, <3>1
  <2> QED
    BY <2>2, <2>4, <2>5, <2>6
<1> QED
  BY <1>1, <1>2, <1>3, <1>4

-----------------------------------------------------------------------------
(* Tokens, batch and cells move together                                   *)

\* What makes BatchIsContextTail and NoCellBeyondPast inductive: both hold as soon
\* as a generation has taken over what it keeps, and nothing is in the batch when
\* the next one is about to be filled.
InStep ==
  /\ Typed
  /\ pc \in {"reuse", "budget", "fill"} => embd = <<>>
  /\ pc = "budget" => Len(current_context_tokens) = n_past
  /\ BatchIsContextTail
  /\ pc \in {"budget"} \cup Looping =>
       \A p \in Positions : p >= n_past => kv[p] = Empty

LEMMA InStepInit == Init => InStep
<1> SUFFICES ASSUME Init PROVE InStep
  OBVIOUS
<1>1. kv \in Caches
  <2>1. PICK warmup \in [0..3 -> Tokens] :
          kv = [p \in Positions |-> IF p \in 0..3 THEN warmup[p] ELSE Empty]
    BY DEF Init
  <2> QED
    BY <2>1 DEF Caches
<1> QED
  BY <1>1, EmptyText DEF Init, InStep, Typed, BatchIsContextTail, Looping

\* The process ends.
Crash == ReadBeyondPrompt \/ \E r \in Requests : StartOverruns(r)

LEMMA CrashStops ==
  ASSUME Crash
  PROVE  /\ pc \in {"idle", "reuse"} /\ pc' = "crashed"
         /\ UNCHANGED <<mode, threadVars, keptVars, sharedVars, outVars, abort_pc, historyVars>>
BY DEF Crash, ReadBeyondPrompt, StartOverruns

\* A step of the loop that leaves the tokens, the batch and the cells alone.
Counting == SetBudget \/ TestBudget \/ Decrement \/ StopCheck

LEMMA InStepNext == InStep /\ [Next]_vars => InStep'
<1> SUFFICES ASSUME InStep, [Next]_vars PROVE InStep'
  OBVIOUS
<1> USE DEF InStep
<1>1. ASSUME NEW r \in Requests, StartGeneration(r) PROVE InStep'
  <2>1. embd_inp' \in Texts /\ prompt' \in Texts
    BY <1>1, EffectivePromptFits DEF StartGeneration
  <2> QED
    BY <1>1, <2>1, EmptyText
    DEF StartGeneration, Typed, BatchIsContextTail, Looping, keptVars
<1>2. ASSUME ReuseNothing \/ ReusePrefix \/ ReuseShifted \/ ReuseSmart PROVE InStep'
  <2>1. PICK old \in Texts, input \in Texts, cells \in Caches, wrong \in SUBSET Positions :
          \E kept \in 0..Len(old) : TakesOver(old, cells, wrong, kept, input)
    BY <1>2, ReuseKeeps DEF ReuseNothing, ReusePrefix, ReuseShifted, ReuseSmart, Reuse
  <2>2. PICK kept \in 0..Len(old) :
          /\ Reuse /\ Keep(old, cells, kept, input) /\ smartcontext' \in Texts
          /\ skewed' \subseteq Positions
    BY <2>1 DEF TakesOver, KeepSkewed
  <2>3. current_context_tokens' \in Texts /\ Len(current_context_tokens') = kept
    BY <2>2, FrontText DEF Keep
  <2>4. /\ kv' \in Caches
        /\ \A p \in Positions : p >= kept => kv'[p] = Empty
    BY <2>2, RequestsAssumption DEF Keep, SeqRm, Caches, Positions, RequestsOK, Texts
  <2>5. n_past' = kept /\ kept \in Nat
    BY <2>2 DEF Keep, Texts
  <2>6. Typed'
    BY <2>2, <2>3, <2>4, <2>5 DEF Typed, Reuse, Keep, historyVars
  <2> QED
    BY <2>2, <2>3, <2>4, <2>5, <2>6 DEF Reuse, BatchIsContextTail, Looping
<1>3. ASSUME Counting PROVE InStep'
  <2>1. /\ pc \in {"budget", "test", "decrement", "stopcheck"}
        /\ pc' \in Looping
        /\ pc' = "fill" => embd = <<>>
        /\ UNCHANGED <<mode, threadVars, keptVars, historyVars>>
    BY <1>3 DEF Counting, SetBudget, TestBudget, Decrement, StopCheck, Looping
  <2>2. /\ Len(current_context_tokens) = n_past + Len(embd)
        /\ Drop(current_context_tokens, n_past) = embd
    BY <2>1, DropAll, EmptyText DEF Typed, BatchIsContextTail, Looping
  <2> QED
    BY <2>1, <2>2 DEF Typed, BatchIsContextTail, Looping, threadVars, keptVars, historyVars
<1>4. ASSUME FinishGeneration \/ EvaluateFails PROVE InStep'
  BY <1>4, EmptyText
  DEF FinishGeneration, EvaluateFails, Return, Typed, BatchIsContextTail, Looping,
      keptVars, historyVars
<1>5. CASE Evaluate
  <2>1. embd \in Texts /\ Len(embd) \in Nat
    BY DEF Typed, Texts
  <2>2. /\ kv' \in Caches
        /\ \A p \in Positions : p >= n_past + Len(embd) => kv'[p] = Empty
    <3>1. \A p \in Positions : n_past <= p /\ p < n_past + Len(embd) =>
            embd[p - n_past + 1] \in Tokens
      BY <2>1 DEF Texts, Typed, Positions
    <3>2. \A p \in Positions : p >= n_past + Len(embd) => kv[p] = Empty
      BY <1>5, <2>1 DEF Evaluate, Typed, Looping, Positions
    <3> QED
      BY <1>5, <2>1, <3>1, <3>2 DEF Evaluate, Stored, Caches, Typed, Positions
  <2>3. /\ current_context_tokens \in Texts
        /\ Len(current_context_tokens) = n_past + Len(embd)
    BY <1>5 DEF Evaluate, Typed, BatchIsContextTail, Looping
  <2>4. Drop(current_context_tokens, n_past + Len(embd)) = <<>>
    BY <2>3, DropAll
  <2> QED
    BY <1>5, <2>1, <2>2, <2>3, <2>4, EmptyText
    DEF Evaluate, Typed, BatchIsContextTail, Looping
<1>6. CASE FillBatch
  <2> DEFINE count == MinOf(NBatch, Len(embd_inp))
             batch == SubSeq(embd_inp, 1, count)
  <2>1. embd_inp \in Texts /\ count \in 0..Len(embd_inp)
    BY RequestsAssumption DEF Typed, RequestsOK, MinOf, Texts
  <2>2. batch \in Texts /\ Drop(embd_inp, count) \in Texts
    BY <2>1, FrontText, DropText DEF Texts
  <2>3. current_context_tokens \in Texts /\ Len(current_context_tokens) = n_past
    BY <1>6, EmptyText DEF FillBatch, Typed, BatchIsContextTail, Looping
  <2> HIDE DEF count, batch
  <2>4. /\ current_context_tokens \o batch \in Texts
        /\ Len(current_context_tokens \o batch) = n_past + Len(batch)
        /\ Drop(current_context_tokens \o batch, n_past) = batch
    BY <2>2, <2>3, JoinText, DropJoined
  <2>5. /\ pc = "fill" /\ pc' = "test"
        /\ embd' = batch
        /\ current_context_tokens' = current_context_tokens \o batch
        /\ embd_inp' = Drop(embd_inp, count)
        /\ UNCHANGED <<mode, request, n_past, smartcontext, kv, skewed, prompt>>
    BY <1>6 DEF FillBatch, count, batch, historyVars
  <2> QED
    BY <2>2, <2>4, <2>5 DEF Typed, BatchIsContextTail, Looping
<1>7. ASSUME NEW id \in Sampled, Sample(id) PROVE InStep'
  <2>1. <<id>> \in Texts
    BY RequestsAssumption DEF RequestsOK, Texts
  <2>2. current_context_tokens \in Texts /\ Len(current_context_tokens) = n_past
    BY <1>7, EmptyText DEF Sample, Typed, BatchIsContextTail, Looping
  <2>3. Append(current_context_tokens, id) = current_context_tokens \o <<id>>
    BY <2>2, RequestsAssumption DEF RequestsOK, Texts
  <2>4. /\ Append(current_context_tokens, id) \in Texts
        /\ Len(Append(current_context_tokens, id)) = n_past + Len(<<id>>)
        /\ Drop(Append(current_context_tokens, id), n_past) = <<id>>
    BY <2>1, <2>2, <2>3, JoinText, DropJoined
  <2> QED
    BY <1>7, <2>1, <2>4 DEF Sample, Typed, BatchIsContextTail, Looping
<1>8. CASE Abort
  BY <1>8 DEF Abort, AbortSavesUnused, AbortClearsBudget, Typed, BatchIsContextTail,
              Looping, threadVars, keptVars, historyVars
<1>9. CASE UNCHANGED vars
  BY <1>9 DEF vars, Typed, BatchIsContextTail, Looping, threadVars, keptVars, historyVars
<1>10. CASE Crash
  BY <1>10, CrashStops DEF Typed, BatchIsContextTail, Looping, threadVars, keptVars, historyVars
<1> QED
  BY <1>1, <1>2, <1>3, <1>4, <1>5, <1>6, <1>7, <1>8, <1>9, <1>10
  DEF Next, Generate, Loop, Counting, Crash

\* In every mode and whatever fails or is aborted, the token array runs exactly one
\* batch ahead of n_past.
THEOREM BatchInStep == Spec => []BatchIsContextTail
<1>1. Spec => []InStep
  BY InStepInit, InStepNext, PTL DEF Spec
<1>2. InStep => BatchIsContextTail
  BY DEF InStep
<1> QED
  BY <1>1, <1>2, PTL

\* The cache never holds a cell where the next batch is going to be stored.
THEOREM PastIsEmpty == Spec => []NoCellBeyondPast
<1>1. Spec => []InStep
  BY InStepInit, InStepNext, PTL DEF Spec
<1>2. InStep => NoCellBeyondPast
  BY DEF InStep, NoCellBeyondPast
<1> QED
  BY <1>1, <1>2, PTL

-----------------------------------------------------------------------------
(* Everything fits                                                         *)

Used == Len(current_context_tokens) + Len(embd_inp)

\* TypeOK and FitsContext as an inductive invariant.  A token is sampled only after
\* the budget was seen positive, and it was positive in a context with room for it;
\* an abort can lower the budget in between, but never below what is subtracted.
Bounded ==
  /\ abort_pc \in {"none", "clear"}
  /\ {n_past, sampled} \subseteq 0..NCtx /\ last_token_count \in 0..(NCtx + 1)
  /\ {loaded, remaining_tokens, stopper_unused_tokens} \subseteq -1..NCtx
  /\ pc = "reuse" => Len(embd_inp) + request.max_length <= request.max_context_length
  /\ pc = "budget" => Used + request.max_length <= request.max_context_length
  /\ pc \in {"reuse", "budget"} => sampled = 0
  /\ pc \in Looping =>
       /\ Used <= request.max_context_length /\ request.max_length <= NCtx
       /\ sampled <= Len(current_context_tokens)
       /\ remaining_tokens <= request.max_length
       /\ stopper_unused_tokens <= request.max_length
  /\ pc \in Looping \ {"decrement"} => Used + remaining_tokens <= request.max_context_length
  /\ pc = "decrement" =>
       /\ loaded \in 0..request.max_length
       /\ Used + loaded - 1 <= request.max_context_length
  /\ pc \in {"eval", "fill"} =>
       /\ Used + 1 <= request.max_context_length
       /\ remaining_tokens >= 0

LEMMA BoundedInit == Init => Bounded
BY RequestsAssumption DEF Init, Bounded, Looping, RequestsOK

LEMMA BoundedNext == InStep /\ InStep' /\ Bounded /\ [Next]_vars => Bounded'
<1> SUFFICES ASSUME InStep, InStep', Bounded, [Next]_vars PROVE Bounded'
  OBVIOUS
<1>0. /\ \A r \in Requests : r.max_length \in Nat /\ r.max_context_length \in 1..NCtx
      /\ NCtx \in Nat /\ request \in Requests
      /\ Len(embd_inp) \in Nat /\ Len(current_context_tokens) \in Nat
      /\ Len(embd_inp') \in Nat /\ Len(current_context_tokens') \in Nat
  <2>1. \A r \in Requests : r.max_length \in Nat /\ r.max_context_length \in 1..NCtx
    BY RequestsAssumption DEF RequestsOK
  <2> QED
    BY <2>1, RequestsAssumption DEF InStep, Typed, Texts, RequestsOK
<1>1. ASSUME NEW r \in Requests, StartGeneration(r) PROVE Bounded'
  <2>1. Len(embd_inp') + r.max_length <= r.max_context_length
    BY <1>1, EffectivePromptFits DEF StartGeneration
  <2> QED
    BY <1>0, <1>1, <2>1 DEF StartGeneration, Bounded, Looping, keptVars, sharedVars
<1>2. ASSUME ReuseNothing \/ ReusePrefix \/ ReuseShifted \/ ReuseSmart PROVE Bounded'
  <2>1. PICK old \in Texts, input \in Texts, cells \in Caches, wrong \in SUBSET Positions :
          \E kept \in 0..Len(old) : TakesOver(old, cells, wrong, kept, input)
    BY <1>2, ReuseKeeps
    DEF InStep, ReuseNothing, ReusePrefix, ReuseShifted, ReuseSmart, Reuse
  <2>2. PICK kept \in 0..Len(old) : TakesOver(old, cells, wrong, kept, input)
    BY <2>1
  <2>3. Len(current_context_tokens') = kept /\ kept \in Nat
    BY <2>2, FrontText DEF TakesOver, Keep, Texts
  <2>4. /\ Reuse /\ n_past' = kept /\ embd_inp' = input
        /\ Len(current_context_tokens') + Len(embd_inp') <= Len(embd_inp)
    BY <2>2, <2>3 DEF TakesOver, Keep
  <2>5. Used' <= Len(embd_inp) /\ Used' \in Nat
    BY <1>0, <2>3, <2>4 DEF Used
  <2>6. /\ pc = "reuse" /\ pc' = "budget"
        /\ UNCHANGED <<request, loaded, sharedVars, last_token_count, abort_pc, sampled>>
    BY <2>4 DEF Reuse, outVars, historyVars
  <2>7. Len(embd_inp) + request.max_length <= request.max_context_length
    BY <2>6 DEF Bounded
  <2>8. Used' + request.max_length <= request.max_context_length
    BY <1>0, <2>5, <2>7
  <2>9. kept \in 0..NCtx
    BY <1>0, <2>3, <2>4, <2>7
  <2> QED
    BY <2>4, <2>6, <2>8, <2>9 DEF Bounded, Looping, sharedVars
<1>3. CASE SetBudget
  BY <1>0, <1>3 DEF SetBudget, Bounded, Used, Looping, threadVars, keptVars, outVars, historyVars
<1>4. CASE TestBudget
  BY <1>0, <1>4
  DEF TestBudget, Bounded, Used, Looping, threadVars, keptVars, sharedVars, outVars, historyVars
<1>5. CASE FinishGeneration
  <2>1. last_token_count' \in 0..(NCtx + 1)
    <3>1. /\ stopper_unused_tokens \in -1..NCtx /\ request.max_length <= NCtx
          /\ stopper_unused_tokens <= request.max_length
          /\ last_token_count' = request.max_length - stopper_unused_tokens
      BY <1>0, <1>5 DEF FinishGeneration, Bounded, Looping
    <3> QED
      BY <1>0, <3>1
  <2> QED
    BY <1>0, <1>5, <2>1
    DEF FinishGeneration, Return, Bounded, Looping, keptVars, sharedVars, historyVars
<1>6. CASE EvaluateFails
  BY <1>0, <1>6 DEF EvaluateFails, Return, Bounded, Looping, keptVars, sharedVars, historyVars
<1>7. CASE Evaluate
  <2>1. n_past' = Len(current_context_tokens) /\ n_past' <= NCtx
    BY <1>0, <1>7 DEF Evaluate, InStep, BatchIsContextTail, Bounded, Used, Looping
  <2> QED
    BY <1>0, <1>7, <2>1 DEF Evaluate, Bounded, Used, Looping, sharedVars, outVars
<1>8. CASE FillBatch
  <2> DEFINE count == MinOf(NBatch, Len(embd_inp))
             batch == SubSeq(embd_inp, 1, count)
  <2>1. /\ current_context_tokens \in Texts /\ embd_inp \in Texts
        /\ count \in 0..Len(embd_inp) /\ count \in Nat
    BY <1>0, RequestsAssumption DEF InStep, Typed, RequestsOK, MinOf
  <2>2. batch \in Texts /\ Len(batch) = count
    BY <2>1, FrontText
  <2>3. Len(Drop(embd_inp, count)) = Len(embd_inp) - count
    BY <2>1, DropShortens
  <2>4. /\ embd_inp' = Drop(embd_inp, count)
        /\ current_context_tokens' = current_context_tokens \o batch
        /\ pc = "fill" /\ pc' = "test"
        /\ UNCHANGED <<request, n_past, loaded, sharedVars, outVars, abort_pc, historyVars>>
    BY <1>8 DEF FillBatch
  <2> HIDE DEF count, batch
  <2>5. /\ Len(current_context_tokens') = Len(current_context_tokens) + count
        /\ Used' = Used
    <3>1. Len(current_context_tokens \o batch) = Len(current_context_tokens) + Len(batch)
      BY <2>1, <2>2, JoinText
    <3>2. Len(current_context_tokens') = Len(current_context_tokens) + count
      BY <2>2, <2>4, <3>1
    <3>3. Len(embd_inp') = Len(embd_inp) - count
      BY <2>3, <2>4
    <3> QED
      BY <1>0, <2>1, <3>2, <3>3 DEF Used
  <2>6. /\ pc = "fill" /\ pc' = "test"
        /\ UNCHANGED <<request, n_past, loaded, remaining_tokens, stopper_unused_tokens,
                       last_token_count, sampled, abort_pc>>
    BY <2>4 DEF sharedVars, outVars, historyVars
  <2>7. sampled <= Len(current_context_tokens') /\ sampled \in 0..NCtx
    BY <1>0, <2>1, <2>5, <2>6 DEF Bounded, Looping
  <2> QED
    BY <2>5, <2>6, <2>7 DEF Bounded, Looping
<1>9. ASSUME NEW id \in Sampled, Sample(id) PROVE Bounded'
  <2>1. /\ Len(current_context_tokens') = Len(current_context_tokens) + 1
        /\ Used' = Used + 1
    BY <1>0, <1>9 DEF Sample, Used, InStep, Typed, Texts
  <2>2. /\ pc = "fill" /\ pc' = "decrement"
        /\ loaded' = remaining_tokens /\ sampled' = sampled + 1
        /\ UNCHANGED <<request, n_past, remaining_tokens, stopper_unused_tokens,
                       last_token_count, abort_pc>>
    BY <1>9 DEF Sample, sharedVars, outVars
  <2>3. /\ Used \in Nat /\ request.max_length \in Nat
        /\ request.max_context_length \in 1..NCtx
    BY <1>0 DEF Used
  <2>4. /\ remaining_tokens \in 0..request.max_length
        /\ stopper_unused_tokens \in -1..NCtx /\ stopper_unused_tokens <= request.max_length
        /\ Used + 1 <= request.max_context_length
        /\ Used + remaining_tokens <= request.max_context_length
        /\ sampled \in Nat /\ sampled <= Len(current_context_tokens)
        /\ n_past \in 0..NCtx /\ last_token_count \in 0..(NCtx + 1)
        /\ remaining_tokens \in -1..NCtx
        /\ abort_pc \in {"none", "clear"} /\ NCtx \in Nat
    BY <1>0, <2>2, <2>3 DEF Bounded, Looping
  <2>5. Len(current_context_tokens) <= Used /\ Len(current_context_tokens) \in Nat
    BY <1>0 DEF Used
  <2>6. /\ Used' <= request'.max_context_length
        /\ sampled' \in 0..NCtx /\ sampled' <= Len(current_context_tokens')
        /\ loaded' \in -1..NCtx /\ loaded' \in 0..request'.max_length
        /\ Used' + loaded' - 1 <= request'.max_context_length
    BY <2>1, <2>2, <2>3, <2>4, <2>5
  <2> QED
    BY <2>2, <2>4, <2>6 DEF Bounded, Looping
<1>10. CASE Decrement
  BY <1>0, <1>10
  DEF Decrement, Bounded, Used, Looping, threadVars, keptVars, outVars, historyVars
<1>11. CASE StopCheck
  BY <1>0, <1>11
  DEF StopCheck, Bounded, Used, Looping, threadVars, keptVars, sharedVars, outVars, historyVars
<1>12. CASE AbortSavesUnused
  BY <1>0, <1>12
  DEF AbortSavesUnused, Bounded, Used, Looping, threadVars, keptVars, outVars, historyVars
<1>13. CASE AbortClearsBudget
  BY <1>0, <1>13
  DEF AbortClearsBudget, Bounded, Used, Looping, threadVars, keptVars, outVars
<1>14. CASE UNCHANGED vars
  BY <1>0, <1>14
  DEF vars, Bounded, Used, Looping, threadVars, keptVars, sharedVars, outVars, historyVars
<1>15. CASE Crash
  BY <1>0, <1>15, CrashStops
  DEF Bounded, Looping, threadVars, keptVars, sharedVars, outVars, historyVars
<1> QED
  BY <1>1, <1>2, <1>3, <1>4, <1>5, <1>6, <1>7, <1>8, <1>9, <1>10, <1>11, <1>12, <1>13, <1>14,
     <1>15
  DEF Next, Generate, Loop, Abort, Crash

LEMMA BoundedAlways == Spec => [](InStep /\ Bounded)
<1>1. Spec => []InStep
  BY InStepInit, InStepNext, PTL DEF Spec
<1> QED
  BY <1>1, BoundedInit, BoundedNext, PTL DEF Spec

\* The context of a generation, what is left of its prompt and what it may still
\* sample fit into the context length it asked for, in every mode and whenever it
\* is aborted.
THEOREM ContextFits == Spec => []FitsContext
<1>1. InStep /\ Bounded => FitsContext
  <2> SUFFICES ASSUME InStep, Bounded, pc \in Looping
               PROVE  FitsContext
    BY DEF FitsContext
  <2>1. loaded \in Int /\ remaining_tokens \in Int
    BY RequestsAssumption DEF Bounded, RequestsOK
  <2>2. Len(embd_inp) \in Nat /\ Len(current_context_tokens) \in Nat
    BY DEF InStep, Typed, Texts
  <2>3. request \in Requests
    BY DEF InStep, Typed
  <2>4. request.max_context_length \in Nat
    BY <2>3, RequestsAssumption DEF RequestsOK
  <2> QED
    BY <2>1, <2>2, <2>4 DEF Bounded, FitsContext, Used
<1> QED
  BY <1>1, BoundedAlways, PTL

-----------------------------------------------------------------------------
(* Types                                                                   *)

\* The flags, which neither invariant above needs.
Flagged == {generation_finished, evaluated, aborted} \subseteq BOOLEAN

LEMMA FlaggedNext == Flagged /\ [Next]_vars => Flagged'
<1> SUFFICES ASSUME Flagged, [Next]_vars PROVE Flagged'
  OBVIOUS
<1> USE DEF Flagged
<1> DEFINE Change ==
             /\ generation_finished' \in {generation_finished, TRUE, FALSE}
             /\ evaluated' \in {evaluated, TRUE, FALSE}
             /\ aborted' \in {aborted, FALSE} \/ aborted' = (aborted \/ ~generation_finished)
<1>1. Change
  <2>1. ASSUME NEW r \in Requests, StartGeneration(r) PROVE Change
    BY <2>1 DEF StartGeneration
  <2>2. ASSUME ReuseNothing \/ ReusePrefix \/ ReuseShifted \/ ReuseSmart PROVE Change
    BY <2>2 DEF ReuseNothing, ReusePrefix, ReuseShifted, ReuseSmart, Reuse, outVars, historyVars
  <2>3. ASSUME Counting \/ FinishGeneration \/ EvaluateFails \/ FillBatch PROVE Change
    BY <2>3 DEF Counting, SetBudget, TestBudget, Decrement, StopCheck, FinishGeneration,
                EvaluateFails, FillBatch, Return, outVars, historyVars
  <2>4. ASSUME Evaluate \/ \E id \in Sampled : Sample(id) PROVE Change
    BY <2>4 DEF Evaluate, Sample, outVars
  <2>5. ASSUME Abort PROVE Change
    BY <2>5 DEF Abort, AbortSavesUnused, AbortClearsBudget, outVars, historyVars
  <2>6. CASE UNCHANGED vars
    BY <2>6 DEF vars, outVars, historyVars
  <2>7. CASE Crash
    BY <2>7, CrashStops DEF outVars, historyVars
  <2> QED
    BY <2>1, <2>2, <2>3, <2>4, <2>5, <2>6, <2>7 DEF Next, Generate, Loop, Counting, Crash
<1>2. generation_finished' \in BOOLEAN /\ evaluated' \in BOOLEAN
  BY <1>1
<1>3. aborted' \in BOOLEAN
  <2>1. (aborted \/ ~generation_finished) \in BOOLEAN
    BY Zenon
  <2> QED
    BY <1>1, <2>1
<1> QED
  BY <1>2, <1>3

\* Every variable keeps to its type: no count leaves the context, and the budget,
\* which two threads write, is at worst one below zero.
THEOREM TypeCorrect == Spec => []TypeOK
<1>1. Init => Flagged
  BY DEF Init, Flagged
<1>2. Spec => []Flagged
  BY <1>1, FlaggedNext, PTL DEF Spec
<1>3. InStep /\ Bounded /\ Flagged => TypeOK
  BY DEF InStep, Typed, Texts, Caches, Bounded, Flagged, TypeOK
<1> QED
  BY <1>2, <1>3, BoundedAlways, PTL

-----------------------------------------------------------------------------
(* Nothing stale                                                           *)

\* CellsAgreeWithContext between generations, when the cache may hold cells beyond
\* the context, from a failed evaluation or from loading the model.
Agreeing ==
  \A p \in Positions : kv[p] # Empty /\ p < Len(current_context_tokens) /\ p \notin skewed =>
    kv[p] = current_context_tokens[p + 1]

\* Tokens and cells are moved alike, but for the last token.
LEMMA ShiftAgrees ==
  ASSUME InStep, Agreeing, NEW old, NEW cells, NEW wrong, ShiftedBoth(old, cells, wrong),
         NEW p \in Positions, cells[p] # Empty, p < Len(old), p \notin wrong
  PROVE  cells[p] = old[p + 1]
<1> DEFINE ctx == current_context_tokens
<1>1. ctx \in Texts /\ Len(ctx) \in Nat /\ p \in Nat /\ NCtx \in Nat
  BY RequestsAssumption DEF InStep, Typed, Texts, Positions, RequestsOK
<1>2. PICK trimstart \in 0..Len(ctx) : \E diff \in 1..(Len(ctx) - trimstart) :
        /\ old = ShiftTokens(ctx, trimstart, diff)
        /\ cells = SeqAdd(SeqRm(kv, trimstart, trimstart + diff), trimstart + diff, -diff)
        /\ wrong = SkewedByShift(trimstart, diff)
  BY DEF ShiftedBoth
<1>3. PICK diff \in 1..(Len(ctx) - trimstart) :
        /\ old = ShiftTokens(ctx, trimstart, diff)
        /\ cells = SeqAdd(SeqRm(kv, trimstart, trimstart + diff), trimstart + diff, -diff)
        /\ wrong = SkewedByShift(trimstart, diff)
  BY <1>2
<1>4. /\ trimstart \in Nat /\ diff \in Nat \ {0} /\ trimstart + diff <= Len(ctx)
      /\ p - (-diff) = p + diff
  BY <1>1, <1>3
<1>5. Len(old) = Len(ctx) - diff /\ p + 1 \in 1..(Len(ctx) - diff)
  <2>1. Len(ctx) - diff \in Nat
    BY <1>1, <1>4
  <2>2. Len(old) = Len(ctx) - diff
    BY <1>3, <2>1 DEF ShiftTokens
  <2> QED
    BY <1>1, <1>4, <2>2
<1> HIDE DEF ctx
<1>6. old[p + 1] = IF p + 1 > trimstart /\ p + 1 + diff < Len(ctx) THEN ctx[p + 1 + diff]
                                                              ELSE ctx[p + 1]
  BY <1>3, <1>5 DEF ShiftTokens
<1>7. CASE p < trimstart
  <2>1. cells[p] = kv[p]
    BY <1>1, <1>3, <1>4, <1>7 DEF SeqAdd, SeqRm
  <2>2. p < Len(ctx)
    BY <1>1, <1>4, <1>5
  <2>0. p \notin skewed
    BY <1>3, <1>7 DEF SkewedByShift
  <2>3. kv[p] = ctx[p + 1]
    BY <2>0, <2>1, <2>2 DEF Agreeing, ctx
  <2> QED
    BY <1>1, <1>4, <1>6, <1>7, <2>1, <2>3
<1>8. CASE p >= trimstart
  <2>1. p + diff \in Positions /\ cells[p] = kv[p + diff]
    <3>1. p + diff >= trimstart + diff
      BY <1>1, <1>4, <1>8
    <3>2. cells[p] = IF p + diff \in Positions
                     THEN SeqRm(kv, trimstart, trimstart + diff)[p + diff] ELSE Empty
      BY <1>3, <1>4, <3>1 DEF SeqAdd
    <3>3. p + diff \in Positions
      BY <3>2
    <3>4. SeqRm(kv, trimstart, trimstart + diff)[p + diff] = kv[p + diff]
      BY <1>1, <1>4, <3>1, <3>3 DEF SeqRm
    <3> QED
      BY <3>2, <3>3, <3>4
  <2>2. p + diff + 1 # Len(ctx) /\ p + diff \notin skewed
    BY <1>3, <1>8, <2>1 DEF SkewedByShift, ctx
  <2>3. p + diff < Len(ctx) /\ p + 1 + diff < Len(ctx) /\ p + diff + 1 = p + 1 + diff
    BY <1>1, <1>4, <1>5, <2>2
  <2>4. kv[p + diff] = ctx[p + diff + 1]
    BY <2>1, <2>2, <2>3 DEF Agreeing, ctx
  <2> QED
    BY <1>1, <1>4, <1>6, <1>8, <2>1, <2>3, <2>4
<1> QED
  BY <1>1, <1>4, <1>7, <1>8

LEMMA AgreeingNext == InStep /\ Agreeing /\ [Next]_vars => Agreeing'
<1> SUFFICES ASSUME InStep, Agreeing, [Next]_vars PROVE Agreeing'
  OBVIOUS
<1>0. /\ current_context_tokens \in Texts /\ Len(current_context_tokens) \in Nat
      /\ n_past \in Nat
      /\ \A p \in Positions : p \in Nat /\ p + 1 \in Nat
  BY DEF InStep, Typed, Texts, Positions
<1>1. ASSUME ReuseNothing \/ ReusePrefix \/ ReuseShifted \/ ReuseSmart PROVE Agreeing'
  <2>1. PICK old \in Texts, input \in Texts, cells \in Caches, wrong \in SUBSET Positions :
          \E kept \in 0..Len(old) : TakesOver(old, cells, wrong, kept, input)
    BY <1>1, ReuseKeeps
    DEF InStep, ReuseNothing, ReusePrefix, ReuseShifted, ReuseSmart, Reuse
  <2>2. PICK kept \in 0..Len(old) : TakesOver(old, cells, wrong, kept, input)
    BY <2>1
  <2>3. /\ kv' = SeqRm(cells, kept, NCtx) /\ current_context_tokens' = SubSeq(old, 1, kept)
        /\ skewed' = {p \in wrong : p < kept}
        /\ \/ kept = 0
           \/ cells = kv /\ old = current_context_tokens /\ wrong = skewed
           \/ ShiftedBoth(old, cells, wrong)
    BY <2>2 DEF TakesOver, Keep, KeepSkewed
  <2>4. /\ Len(current_context_tokens') = kept /\ kept \in Nat /\ Len(old) \in Nat
        /\ \A i \in 1..kept : current_context_tokens'[i] = old[i]
    BY <2>3, FrontText DEF Texts
  <2>5. \A p \in Positions : kv'[p] # Empty => p < kept /\ kv'[p] = cells[p]
    BY <1>0, <2>3, <2>4, RequestsAssumption DEF SeqRm, Positions, RequestsOK
  <2>6. \A p \in Positions : p < kept => p + 1 \in 1..kept /\ p < Len(old)
    BY <1>0, <2>3, <2>4
  <2>7. \A p \in Positions : p < kept /\ cells[p] # Empty /\ p \notin wrong =>
          cells[p] = old[p + 1]
    <3>1. CASE kept = 0
      BY <1>0, <3>1
    <3>2. CASE cells = kv /\ old = current_context_tokens /\ wrong = skewed
      BY <2>6, <3>2 DEF Agreeing
    <3>3. CASE ShiftedBoth(old, cells, wrong)
      BY <2>6, <3>3, ShiftAgrees
    <3> QED
      BY <2>3, <3>1, <3>2, <3>3
  <2>8. \A p \in Positions : p < kept /\ p \notin skewed' => p \notin wrong
    BY <2>3
  <2> QED
    BY <2>4, <2>5, <2>6, <2>7, <2>8 DEF Agreeing
<1>2. CASE Evaluate
  <2>1. /\ embd \in Texts /\ Len(embd) \in Nat
        /\ Len(current_context_tokens) = n_past + Len(embd)
        /\ embd = Drop(current_context_tokens, n_past)
        /\ current_context_tokens' = current_context_tokens /\ skewed' = skewed
        /\ kv' = Stored(kv, n_past, embd)
    BY <1>2 DEF Evaluate, InStep, Typed, BatchIsContextTail, Looping, Texts
  <2>2. \A i \in 1..Len(embd) : embd[i] = current_context_tokens[n_past + i]
    BY <1>0, <2>1 DEF Drop, Texts
  <2>3. ASSUME NEW p \in Positions, n_past <= p, p < n_past + Len(embd)
        PROVE  kv'[p] = current_context_tokens[p + 1]
    <3>1. p - n_past + 1 \in 1..Len(embd) /\ n_past + (p - n_past + 1) = p + 1
      BY <1>0, <2>1, <2>3
    <3>2. kv'[p] = embd[p - n_past + 1]
      BY <2>1, <2>3 DEF Stored
    <3> QED
      BY <2>2, <3>1, <3>2
  <2>4. \A p \in Positions : ~(n_past <= p /\ p < n_past + Len(embd)) => kv'[p] = kv[p]
    BY <2>1 DEF Stored
  <2> QED
    BY <1>0, <2>1, <2>3, <2>4 DEF Agreeing
<1>3. ASSUME FillBatch \/ \E id \in Sampled : Sample(id) PROVE Agreeing'
  <2>1. PICK more \in Texts :
          /\ current_context_tokens' = current_context_tokens \o more
          /\ kv' = kv /\ skewed' = skewed
    <3>1. CASE FillBatch
      <4>1. MinOf(NBatch, Len(embd_inp)) \in 0..Len(embd_inp) /\ embd_inp \in Texts
        BY RequestsAssumption DEF InStep, Typed, Texts, RequestsOK, MinOf
      <4>2. SubSeq(embd_inp, 1, MinOf(NBatch, Len(embd_inp))) \in Texts
        BY <4>1, FrontText
      <4> QED
        BY <3>1, <4>2 DEF FillBatch
    <3>2. CASE \E id \in Sampled : Sample(id)
      <4>1. PICK id \in Sampled : Sample(id)
        BY <3>2
      <4>2. <<id>> \in Texts
        BY RequestsAssumption DEF RequestsOK, Texts
      <4>3. Append(current_context_tokens, id) = current_context_tokens \o <<id>>
        BY <1>0, RequestsAssumption DEF RequestsOK, Texts
      <4> QED
        BY <4>1, <4>2, <4>3 DEF Sample
    <3> QED
      BY <1>3, <3>1, <3>2
  <2>2. /\ Len(current_context_tokens') = Len(current_context_tokens) + Len(more)
        /\ \A i \in 1..Len(current_context_tokens) :
             current_context_tokens'[i] = current_context_tokens[i]
        /\ Len(more) \in Nat
    BY <1>0, <2>1, JoinText DEF Texts
  <2>3. \A p \in Positions : p < Len(current_context_tokens) =>
          p + 1 \in 1..Len(current_context_tokens)
    BY <1>0
  <2>4. \A p \in Positions : p >= Len(current_context_tokens) => kv[p] = Empty
    <3>1. pc = "fill"
      BY <1>3 DEF FillBatch, Sample
    <3>2. Len(current_context_tokens) = n_past
      BY <1>0, <3>1, EmptyText DEF InStep, BatchIsContextTail, Looping
    <3> QED
      BY <3>1, <3>2 DEF InStep, Looping
  <2> QED
    BY <1>0, <2>1, <2>2, <2>3, <2>4 DEF Agreeing
<1>4. ASSUME UNCHANGED <<current_context_tokens, kv, skewed>> PROVE Agreeing'
  BY <1>4 DEF Agreeing
<1>5. ASSUME NEW r \in Requests, StartGeneration(r)
      PROVE  UNCHANGED <<current_context_tokens, kv, skewed>>
  BY <1>5 DEF StartGeneration, keptVars
<1>6. ASSUME Counting \/ FinishGeneration \/ EvaluateFails \/ Abort \/ Crash \/ UNCHANGED vars
      PROVE  UNCHANGED <<current_context_tokens, kv, skewed>>
  BY <1>6, CrashStops DEF Counting, SetBudget, TestBudget, Decrement, StopCheck, FinishGeneration,
              EvaluateFails, Return, Abort, AbortSavesUnused, AbortClearsBudget, vars,
              keptVars
<1> QED
  BY <1>1, <1>2, <1>3, <1>4, <1>5, <1>6 DEF Next, Generate, Loop, Counting, Crash

\* In every mode, whatever fails and whoever aborts, no generation attends to a cell
\* that was computed from another token than its context has there, outside the
\* positions at which a shift has lost its last token.
THEOREM CellsAgree == Spec => []CellsAgreeWithContext
<1>1. Init => Agreeing
  BY EmptyText DEF Init, Agreeing, Positions
<1>2. Spec => []InStep
  BY InStepInit, InStepNext, PTL DEF Spec
<1>3. Spec => []Agreeing
  BY <1>1, <1>2, AgreeingNext, PTL DEF Spec
<1>4. InStep /\ Agreeing => CellsAgreeWithContext
  <2> SUFFICES ASSUME InStep, Agreeing, pc \in Looping, NEW p \in Positions, kv[p] # Empty
               PROVE  /\ p < Len(current_context_tokens)
                      /\ p \notin skewed => kv[p] = current_context_tokens[p + 1]
    BY DEF CellsAgreeWithContext
  <2>1. /\ n_past \in Nat /\ Len(embd) \in Nat /\ p \in Nat
        /\ Len(current_context_tokens) = n_past + Len(embd)
        /\ ~(p >= n_past)
    BY DEF InStep, Typed, Texts, BatchIsContextTail, Positions
  <2>2. p < Len(current_context_tokens)
    BY <2>1
  <2> QED
    BY <2>2 DEF Agreeing
<1> QED
  BY <1>2, <1>3, <1>4, PTL

-----------------------------------------------------------------------------
(* The prompt is what is evaluated                                         *)

\* ContextIsPrompt from the moment the prompt is tokenized.
Whole ==
  mode # "smart" =>
    /\ pc = "reuse" => embd_inp = prompt
    /\ pc \in {"budget"} \cup Looping /\ sampled = 0 =>
         current_context_tokens \o embd_inp = prompt

LEMMA SplitText ==
  ASSUME NEW s \in Texts, NEW n \in 0..Len(s)
  PROVE  SubSeq(s, 1, n) \o Drop(s, n) = s
<1>1. /\ SubSeq(s, 1, n) \in Texts /\ Len(SubSeq(s, 1, n)) = n
      /\ \A i \in 1..n : SubSeq(s, 1, n)[i] = s[i]
  BY FrontText
<1>2. Drop(s, n) \in Texts /\ Len(Drop(s, n)) = Len(s) - n
  BY DropShortens
<1>3. \A i \in 1..(Len(s) - n) : Drop(s, n)[i] = s[n + i]
  BY DEF Texts, Drop
<1> DEFINE f == SubSeq(s, 1, n)
           g == Drop(s, n)
<1>4. /\ f \in Texts /\ g \in Texts /\ Len(f) + Len(g) = Len(s)
      /\ \A i \in 1..Len(f) : f[i] = s[i]
      /\ \A i \in 1..Len(g) : g[i] = s[Len(f) + i]
  BY <1>1, <1>2, <1>3 DEF Texts
<1> HIDE DEF f, g
<1>5. f \o g = s
  BY <1>4, JoinedIs
<1> QED
  BY <1>5 DEF f, g

LEMMA JoinThree ==
  ASSUME NEW s \in Texts, NEW t \in Texts, NEW u \in Texts
  PROVE  (s \o t) \o u = s \o (t \o u)
BY ConcatAssociative DEF Texts

LEMMA WholeNext == InStep /\ Bounded /\ Whole /\ [Next]_vars => Whole'
<1> SUFFICES ASSUME InStep, Bounded, Whole, [Next]_vars PROVE Whole'
  OBVIOUS
<1>1. ASSUME NEW r \in Requests, StartGeneration(r) PROVE Whole'
  BY <1>1 DEF StartGeneration, Whole, Looping
<1>2. ASSUME ReuseNothing \/ ReusePrefix \/ ReuseShifted \/ ReuseSmart PROVE Whole'
  <2>1. PICK old \in Texts, input \in Texts, cells \in Caches, wrong \in SUBSET Positions :
          \E kept \in 0..Len(old) : TakesOver(old, cells, wrong, kept, input)
    BY <1>2, ReuseKeeps
    DEF InStep, ReuseNothing, ReusePrefix, ReuseShifted, ReuseSmart, Reuse
  <2>2. PICK kept \in 0..Len(old) : TakesOver(old, cells, wrong, kept, input)
    BY <2>1
  <2> QED
    BY <2>2 DEF TakesOver, Reuse, Keep, Whole, Looping, historyVars
<1>3. CASE FillBatch
  <2> DEFINE count == MinOf(NBatch, Len(embd_inp))
             batch == SubSeq(embd_inp, 1, count)
  <2>1. /\ current_context_tokens \in Texts /\ embd_inp \in Texts
        /\ count \in 0..Len(embd_inp)
    BY RequestsAssumption DEF InStep, Typed, Texts, RequestsOK, MinOf
  <2>2. /\ batch \in Texts /\ Drop(embd_inp, count) \in Texts
        /\ batch \o Drop(embd_inp, count) = embd_inp
    BY <2>1, FrontText, DropShortens, SplitText
  <2>3. /\ pc = "fill" /\ embd_inp' = Drop(embd_inp, count)
        /\ current_context_tokens' = current_context_tokens \o batch
        /\ pc' = "test" /\ UNCHANGED <<mode, sampled, prompt>>
    BY <1>3 DEF FillBatch, historyVars
  <2> HIDE DEF count, batch
  <2>4. current_context_tokens' \o embd_inp' = current_context_tokens \o embd_inp
    <3>1. (current_context_tokens \o batch) \o Drop(embd_inp, count)
            = current_context_tokens \o (batch \o Drop(embd_inp, count))
      BY <2>1, <2>2, JoinThree
    <3> QED
      BY <2>2, <2>3, <3>1
  <2> QED
    BY <2>3, <2>4 DEF Whole, Looping
<1>4. ASSUME NEW id \in Sampled, Sample(id) PROVE Whole'
  <2>1. sampled' # 0 /\ pc' = "decrement"
    BY <1>4 DEF Sample, Bounded
  <2> QED
    BY <2>1 DEF Whole
<1>5. ASSUME Counting \/ Evaluate \/ FinishGeneration \/ EvaluateFails PROVE Whole'
  BY <1>5 DEF Counting, SetBudget, TestBudget, Decrement, StopCheck, Evaluate,
              FinishGeneration, EvaluateFails, Return, Whole, Looping, threadVars, keptVars,
              historyVars
<1>6. CASE Abort
  BY <1>6 DEF Abort, AbortSavesUnused, AbortClearsBudget, Whole, threadVars, keptVars,
              historyVars
<1>7. CASE UNCHANGED vars
  BY <1>7 DEF vars, Whole, threadVars, keptVars, historyVars
<1>8. CASE Crash
  BY <1>8, CrashStops DEF Whole, Looping
<1> QED
  BY <1>1, <1>2, <1>3, <1>4, <1>5, <1>6, <1>7, <1>8 DEF Next, Generate, Loop, Counting, Crash

\* Whatever a generation takes over, with or without a shift, the model is asked
\* for a continuation of exactly its prompt.
THEOREM PromptIsEvaluated == Spec => []ContextIsPrompt
<1>1. Init => Whole
  BY DEF Init, Whole, Looping
<1>2. Spec => []Whole
  BY <1>1, BoundedAlways, WholeNext, PTL DEF Spec
<1>3. Whole => ContextIsPrompt
  BY DEF Whole, ContextIsPrompt
<1> QED
  BY <1>2, <1>3, PTL

-----------------------------------------------------------------------------
(* The end of the prompt is evaluated, and sampled from                    *)

\* What makes EndOfPromptIsEvaluated and SamplesFreshLogits inductive: as long as
\* nothing was evaluated there is input left, or a batch, and so no token is sampled.
Fresh ==
  /\ pc = "reuse" => embd_inp = prompt
  /\ EndOfPromptIsEvaluated
  /\ Len(prompt) >= 2 =>
       /\ pc \in Looping /\ ~evaluated => embd_inp # <<>> \/ embd # <<>>
       /\ pc = "eval" => embd # <<>>
       /\ pc \in {"decrement", "stopcheck"} => evaluated

LEMMA FreshNext == InStep /\ Fresh /\ [Next]_vars => Fresh'
<1> SUFFICES ASSUME InStep, Fresh, [Next]_vars PROVE Fresh'
  OBVIOUS
<1>1. ASSUME NEW r \in Requests, StartGeneration(r) PROVE Fresh'
  BY <1>1 DEF StartGeneration, Fresh, EndOfPromptIsEvaluated, Looping
<1>2. ASSUME ReuseNothing \/ ReusePrefix \/ ReuseShifted \/ ReuseSmart PROVE Fresh'
  <2>1. PICK old \in Texts, input \in Texts, cells \in Caches, wrong \in SUBSET Positions :
          \E kept \in 0..Len(old) : TakesOver(old, cells, wrong, kept, input)
    BY <1>2, ReuseKeeps
    DEF InStep, ReuseNothing, ReusePrefix, ReuseShifted, ReuseSmart, Reuse
  <2>2. PICK kept \in 0..Len(old) : TakesOver(old, cells, wrong, kept, input)
    BY <2>1
  <2>3. /\ pc = "reuse" /\ pc' = "budget" /\ prompt' = prompt
        /\ embd_inp' = input /\ EndOf(input, prompt)
    BY <2>2 DEF TakesOver, Reuse, Keep, Fresh, historyVars
  <2>4. /\ Len(input) \in Nat /\ Len(prompt) \in Nat
        /\ input # <<>> => Len(input) > 0
    BY DEF InStep, Typed, Texts
  <2> QED
    BY <2>3, <2>4 DEF EndOf, Fresh, EndOfPromptIsEvaluated, Looping
<1>3. CASE SetBudget
  <2>1. Len(prompt) >= 2 => embd_inp # <<>>
    BY <1>3, EmptyText DEF SetBudget, Fresh, EndOfPromptIsEvaluated
  <2> QED
    BY <1>3, <2>1 DEF SetBudget, Fresh, EndOfPromptIsEvaluated, Looping, threadVars, historyVars
<1>4. CASE TestBudget \/ Decrement \/ StopCheck
  BY <1>4 DEF TestBudget, Decrement, StopCheck, Fresh, EndOfPromptIsEvaluated, Looping,
              threadVars, historyVars
<1>5. CASE FinishGeneration \/ EvaluateFails
  BY <1>5 DEF FinishGeneration, EvaluateFails, Return, Fresh, EndOfPromptIsEvaluated, Looping,
              historyVars
<1>6. CASE Evaluate
  BY <1>6 DEF Evaluate, Fresh, EndOfPromptIsEvaluated, Looping
<1>7. CASE FillBatch
  <2> DEFINE count == MinOf(NBatch, Len(embd_inp))
  <2>1. embd_inp \in Texts /\ count \in 0..Len(embd_inp) /\ count > 0
    BY <1>7, RequestsAssumption DEF FillBatch, InStep, Typed, Texts, RequestsOK, MinOf
  <2>2. Len(SubSeq(embd_inp, 1, count)) = count
    BY <2>1, FrontText
  <2>3. embd' # <<>>
    BY <1>7, <2>1, <2>2, EmptyText DEF FillBatch
  <2> QED
    BY <1>7, <2>3 DEF FillBatch, Fresh, EndOfPromptIsEvaluated, Looping
<1>8. ASSUME NEW id \in Sampled, Sample(id) PROVE Fresh'
  <2>1. Len(prompt) >= 2 => evaluated
    BY <1>8 DEF Sample, InStep, Fresh, Looping
  <2> QED
    BY <1>8, <2>1 DEF Sample, Fresh, EndOfPromptIsEvaluated, Looping
<1>9. CASE Abort \/ UNCHANGED vars
  BY <1>9 DEF Abort, AbortSavesUnused, AbortClearsBudget, vars, Fresh, EndOfPromptIsEvaluated,
              threadVars, historyVars
<1>10. CASE Crash
  BY <1>10, CrashStops DEF Fresh, EndOfPromptIsEvaluated, Looping
<1> QED
  BY <1>1, <1>2, <1>3, <1>4, <1>5, <1>6, <1>7, <1>8, <1>9, <1>10
  DEF Next, Generate, Loop, Crash

LEMMA FreshAlways == Spec => []Fresh
<1>1. Init => Fresh
  BY DEF Init, Fresh, EndOfPromptIsEvaluated, Looping
<1>2. Spec => []InStep
  BY InStepInit, InStepNext, PTL DEF Spec
<1> QED
  BY <1>1, <1>2, FreshNext, PTL DEF Spec

\* Fast-forwarding, a shift and smart context all leave the end of a prompt to be
\* evaluated, however much of it the previous context has already.
THEOREM EndIsEvaluated == Spec => []EndOfPromptIsEvaluated
<1>1. Fresh => EndOfPromptIsEvaluated
  BY DEF Fresh
<1> QED
  BY <1>1, FreshAlways, PTL

\* Every token is sampled from logits its own generation has computed, never from
\* those of the generation before, also when evaluations fail.
THEOREM LogitsAreFresh == Spec => []SamplesFreshLogits
<1>1. Fresh => SamplesFreshLogits
  BY DEF Fresh, SamplesFreshLogits
<1> QED
  BY <1>1, FreshAlways, PTL

-----------------------------------------------------------------------------
(* The count that is reported                                              *)

\* While no abort has come in between, the budget that is left, the tokens sampled
\* and those not used because of a stop are together what was asked for; and the
\* budget is positive when a token is about to be sampled.
Accounted ==
  /\ pc \notin {"idle", "crashed"} => ~generation_finished
  /\ pc \in Looping /\ ~aborted /\ abort_pc = "none" =>
       /\ pc # "decrement" =>
            /\ remaining_tokens >= 0
            /\ stopper_unused_tokens + remaining_tokens + sampled = request.max_length
       /\ stopper_unused_tokens = 0 \/ (pc = "test" /\ remaining_tokens = 0)
       /\ pc \in {"eval", "fill"} => remaining_tokens > 0
       /\ pc = "decrement" => loaded > 0 /\ loaded + sampled = request.max_length + 1

LEMMA AccountedNext ==
  InStep /\ Bounded /\ Flagged /\ Accounted /\ [Next]_vars => Accounted'
<1> SUFFICES ASSUME InStep, Bounded, Flagged, Accounted, [Next]_vars PROVE Accounted'
  OBVIOUS
<1>0. /\ request.max_length \in Nat /\ sampled \in Nat
      /\ loaded \in Int /\ remaining_tokens \in Int /\ stopper_unused_tokens \in Int
  BY RequestsAssumption DEF InStep, Typed, RequestsOK, Bounded
<1>1. ASSUME NEW r \in Requests, StartGeneration(r) PROVE Accounted'
  BY <1>1 DEF StartGeneration, Accounted, Looping
<1>2. ASSUME ReuseNothing \/ ReusePrefix \/ ReuseShifted \/ ReuseSmart PROVE Accounted'
  BY <1>2 DEF ReuseNothing, ReusePrefix, ReuseShifted, ReuseSmart, Reuse, Accounted, Looping,
              outVars
<1>3. CASE SetBudget
  BY <1>0, <1>3 DEF SetBudget, Accounted, Looping, Bounded, threadVars, outVars, historyVars
<1>4. CASE TestBudget
  BY <1>0, <1>4 DEF TestBudget, Accounted, Looping, threadVars, sharedVars, outVars, historyVars
<1>5. CASE FinishGeneration \/ EvaluateFails
  BY <1>5 DEF FinishGeneration, EvaluateFails, Return, Accounted, Looping
<1>6. CASE Evaluate
  BY <1>0, <1>6 DEF Evaluate, Accounted, Looping, sharedVars, outVars
<1>7. CASE FillBatch
  BY <1>0, <1>7 DEF FillBatch, Accounted, Looping, sharedVars, outVars, historyVars
<1>8. ASSUME NEW id \in Sampled, Sample(id) PROVE Accounted'
  BY <1>0, <1>8 DEF Sample, Accounted, Looping, sharedVars, outVars
<1>9. CASE Decrement
  BY <1>0, <1>9 DEF Decrement, Accounted, Looping, threadVars, outVars, historyVars
<1>10. CASE StopCheck
  BY <1>0, <1>10 DEF StopCheck, Accounted, Looping, threadVars, sharedVars, outVars, historyVars
<1>11. CASE AbortSavesUnused
  BY <1>11 DEF AbortSavesUnused, Accounted, outVars, historyVars
<1>12. CASE AbortClearsBudget
  <2>1. pc \in Looping => aborted'
    BY <1>12, Zenon DEF AbortClearsBudget, Accounted, Looping
  <2> QED
    BY <1>12, <2>1 DEF AbortClearsBudget, Accounted, outVars
<1>13. CASE UNCHANGED vars
  BY <1>0, <1>13 DEF vars, Accounted, Looping, threadVars, sharedVars, outVars, historyVars
<1>14. CASE Crash
  BY <1>14, CrashStops DEF Accounted, Looping
<1> QED
  BY <1>1, <1>2, <1>3, <1>4, <1>5, <1>6, <1>7, <1>8, <1>9, <1>10, <1>11, <1>12, <1>13, <1>14
  DEF Next, Generate, Loop, Abort, Crash

LEMMA FlaggedAlways == Spec => []Flagged
<1>1. Init => Flagged
  BY DEF Init, Flagged
<1> QED
  BY <1>1, FlaggedNext, PTL DEF Spec

\* The number of tokens a generation reports is the number it has sampled, whether
\* its budget ran out or a stop token or sequence ended it, unless an abort got in
\* the way.
THEOREM CountExact == Spec => CountIsExact
<1> DEFINE Exact == pc = "test" /\ pc' = "idle" /\ ~aborted /\ abort_pc = "none"
                      => last_token_count' = sampled
<1>1. Init => Accounted
  BY DEF Init, Accounted, Looping
<1>2. InStep /\ Bounded /\ Accounted /\ [Next]_vars => [Exact]_vars
  <2> SUFFICES ASSUME InStep, Bounded, Accounted, Next, pc = "test", pc' = "idle",
                      ~aborted, abort_pc = "none"
               PROVE  last_token_count' = sampled
    BY DEF vars
  <2>1. FinishGeneration
    BY DEF Next, Generate, Loop, Abort, StartGeneration, StartOverruns, ReadBeyondPrompt, ReuseNothing, ReusePrefix, ReuseShifted,
           ReuseSmart, Reuse, SetBudget, TestBudget, FinishGeneration, Evaluate, EvaluateFails,
           FillBatch, Sample, Decrement, StopCheck, AbortSavesUnused, AbortClearsBudget
  <2>2. /\ request.max_length \in Nat /\ sampled \in Nat
        /\ remaining_tokens \in Int /\ stopper_unused_tokens \in Int
    BY RequestsAssumption DEF InStep, Typed, RequestsOK, Bounded
  <2>3. /\ remaining_tokens >= 0 /\ remaining_tokens <= 0
        /\ stopper_unused_tokens + remaining_tokens + sampled = request.max_length
        /\ last_token_count' = request.max_length - stopper_unused_tokens
    BY <2>1 DEF FinishGeneration, Accounted, Looping
  <2> QED
    BY <2>2, <2>3
<1>3. Spec => [](InStep /\ Bounded /\ Flagged)
  BY BoundedAlways, FlaggedAlways, PTL
<1>4. Spec => []Accounted
  BY <1>1, <1>3, AccountedNext, PTL DEF Spec
<1> QED
  BY <1>2, <1>3, <1>4, PTL DEF Spec, CountIsExact
=============================================================================
