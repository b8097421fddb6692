--------------------------- MODULE ContextMatching ---------------------------
(***************************************************************************)
(* The pure functions with which koboldcpp decides how much of the context *)
(* of the previous generation the next one may keep: how the prompt is cut *)
(* to the context window, how far the old tokens match the new ones, and   *)
(* the two ways of dropping a middle part (context shift on the old        *)
(* context, smart context on the new prompt).                              *)
(*                                                                         *)
(* Tokens are opaque.  Sequences start at 1 here and at 0 in the code: a   *)
(* count of tokens, or a position of the KV cache, is the code's number.   *)
(***************************************************************************)
EXTENDS Integers, Sequences

CONSTANTS
  Bos,           \* the token TokenizeString("") yields
  HasBos,        \* FALSE for a model whose tokenizer adds no such token
  MemoryMargin,  \* tokens kept free next to an added memory (4 in the code)
  PurgeMinLen,   \* shorter contexts are never shifted (6 in the code)
  ShortfallBase, \* 200 in the code
  SlackBase,     \* 60 in the code
  SmartBase      \* 32 in the code

\* The remembered part is never taken up for a single token that is shared.
ASSUME SmartAssumption == SmartBase \in Nat \ {0}

MinOf(a, b) == IF a < b THEN a ELSE b
MaxOf(a, b) == IF a < b THEN b ELSE a

Drop(s, n) == SubSeq(s, n + 1, Len(s))
KeepLast(s, n) == SubSeq(s, Len(s) - n + 1, Len(s))

-----------------------------------------------------------------------------
(* The prompt that is evaluated                                            *)

WithBosInFront(s) == IF HasBos /\ s # <<>> THEN [s EXCEPT ![1] = Bos] ELSE s
WithoutBos(s) == IF HasBos /\ s # <<>> /\ s[1] = Bos THEN Tail(s) ELSE s

\* Truncation to the front of the prompt when it leaves no room for gen tokens.
FitPrompt(prompt, gen, nctx) ==
  IF Len(prompt) + gen > nctx THEN WithBosInFront(KeepLast(prompt, nctx - gen))
                              ELSE prompt

FitMemory(memory, gen, nctx) ==
  IF Len(memory) + gen + MemoryMargin > nctx
  THEN WithBosInFront(KeepLast(memory, nctx - gen - MemoryMargin))
  ELSE memory

\* The added memory goes before the prompt and the prompt is trimmed from its
\* front for it, down to nothing.
EffectivePrompt(prompt, memory, gen, nctx) ==
  LET fitted == FitPrompt(prompt, gen, nctx)
      mem    == FitMemory(memory, gen, nctx)
      body   == WithoutBos(fitted)
      excess == Len(mem) + Len(body) + gen - nctx
  IN  IF memory = <<>> THEN fitted
      ELSE mem \o Drop(body, MaxOf(0, MinOf(excess, Len(body))))

-----------------------------------------------------------------------------
(* Matching                                                                *)

\* Mutant: the whole prompt may match.
LeavesNothing(new, i) == i + 1 >= Len(new)

\* One token of new always stays for evaluation: a match at the 0-based index i is
\* the last one allowed.
LeavesNoMore(new, i) == i + 2 >= Len(new)

\* The loop that compares old[from + j] with new[from + j - off] for
\* j = 0, 1, ... stops after count matches: it has run out of old tokens, it
\* has come to the last token but one of new, or the next tokens differ.  A
\* comparison beyond the end of new reads whatever is there, so it may go
\* either way.
MatchStops(old, new, from, off, count) ==
  LET Same(j)  == old[from + j + 1] = new[from + j - off + 1]
      Known(j) == from + j - off < Len(new)
      AtEnd(j) == LeavesNoMore(new, from + j - off)
  IN  /\ from + count <= Len(old)
      /\ \A j \in 0..(count - 1) : Known(j) => Same(j)
      /\ \A j \in 0..(count - 2) : ~AtEnd(j)
      /\ (/\ from + count < Len(old)
          /\ count > 0 => ~AtEnd(count - 1)
          /\ Known(count)) => ~Same(count)

\* How many tokens at the front of old the prompt new takes over: one number,
\* the count at which the loop stops.  It is 0 when new is empty and the loop goes
\* on from that (see ReadBeyondPrompt in ContextReuse).
Matches(old, new) ==
  {n \in 0..MinOf(Len(old), Len(new)) : MatchStops(old, new, 0, 0, n)}

\* s occurs in t at the 1-based position i
OccursAt(s, t, i) ==
  i + Len(s) - 1 <= Len(t) /\ SubSeq(t, i, i + Len(s) - 1) = s

ArrStartWith(target, search) == OccursAt(search, target, 1)

ArrFindIndexOf(target, search) ==
  LET at == {i \in 1..Len(target) : OccursAt(search, target, i)}
  IN  IF at = {} THEN -1 ELSE (CHOOSE i \in at : \A j \in at : i <= j) - 1

\* The longest run of tokens that x and y share; of several, the one that ends
\* first in x (the table is scanned in that order and only a longer run
\* replaces the one found).  Ends(l): where shared runs of l tokens end in x.
LongestCommonSubseq(x, y) ==
  LET Ends(l) == {i \in l..Len(x) :
                    \E j \in l..Len(y) : \A n \in 0..(l - 1) : x[i - n] = y[j - n]}
      longest == CHOOSE l \in 0..Len(x) : Ends(l) # {} /\ Ends(l + 1) = {}
      end == CHOOSE e \in Ends(longest) : \A f \in Ends(longest) : e <= f
  IN  SubSeq(x, end - longest + 1, end)

-----------------------------------------------------------------------------
(* Context shift: PurgeMissingTokens                                       *)

ShortfallThreshold(nctx) == ShortfallBase + (nctx \div 30)
SlackAllowance(nctx) == SlackBase + (nctx \div 50)

LCSTokThreshold(unmatched, genamt, nctx) ==
  MaxOf(MinOf(unmatched - (genamt + SlackAllowance(nctx)), (nctx * 45) \div 100),
        ShortfallThreshold(nctx) - SlackAllowance(nctx))

\* How many tokens of old, after the first trimstart ones, are to be erased;
\* 0 when the contexts are left alone.
\* shared is their longest common run beyond the matching tokens.
ErasedTokens(old, new, trimstart, shared, genamt, nctx) ==
  LET unmatched == Len(new) - trimstart
      found  == ArrFindIndexOf(old, shared)
  IN  IF /\ ~(trimstart > 0 /\ trimstart + 1 >= Len(new))
         /\ Len(new) >= PurgeMinLen /\ Len(old) >= PurgeMinLen
         /\ unmatched >= ShortfallThreshold(nctx)
         /\ Len(shared) > LCSTokThreshold(unmatched, genamt, nctx)
         /\ ArrStartWith(Drop(new, trimstart), shared)
         /\ found > trimstart
      THEN found - trimstart ELSE 0

\* The token array after the erasure.  The loop that moves tokens down stops
\* before the last one, so the slot it should have filled keeps what it held.
ShiftTokens(old, trimstart, diff) ==
  [i \in 1..(Len(old) - diff) |->
     IF i > trimstart /\ i + diff < Len(old) THEN old[i + diff] ELSE old[i]]

-----------------------------------------------------------------------------
(* Smart context: the second half of ContextFastForward                    *)

SmartTokThreshold(nctx) == SmartBase + ((nctx * 5) \div 100)
LongInput(input, nctx) == Len(input) >= (nctx * 6) \div 10

\* The remembered part is still usable: where the prompt picks it up again.
\* shared is the longest run of tokens the two have in common.
SmartResume(smart, input, shared, nctx) ==
  IF /\ smart # <<>> /\ LongInput(input, nctx)
     /\ Len(shared) > SmartTokThreshold(nctx)
     /\ ArrStartWith(smart, shared)
  THEN ArrFindIndexOf(input, shared) ELSE -1

\* Where the second matching loop takes its tokens from: unless the next old
\* token is the first of the trimmed input, it forgets how many it has passed.
OffsetFix(old, trimmed, npast) ==
  IF npast < Len(old) /\ old[npast + 1] # trimmed[1] THEN 0 ELSE npast

\* The context is full and little of it was kept: remember half of the input.
SmartTriggers(old, input, npast, nctx) ==
  /\ Len(old) >= (nctx * 8) \div 10
  /\ LongInput(input, nctx)
  /\ Len(old) - npast > nctx \div 2
=============================================================================
