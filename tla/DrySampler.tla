----------------------------- MODULE DrySampler -----------------------------
(***************************************************************************)
(* sample_dry: which tokens are penalized because they would go on with a  *)
(* repetition, and how long that repetition is.  For every place in the    *)
(* last tokens of the context, a Z-algorithm that runs from the end to the *)
(* beginning counts how many tokens up to there are also the last ones of  *)
(* the context; a restart sequence (sequence breaker) limits the count.    *)
(*                                                                         *)
(* Places are named by their distance from the last token.  A step is one  *)
(* round of the loop over them; the penalty itself, a power, is left out.  *)
(***************************************************************************)
EXTENDS Integers, Sequences, FiniteSetsExt

CONSTANTS
  Tokens,
  MaxLen,    \* the longest context, at most n_ctx
  Settings   \* what a request may set (see SettingsAssumption)

ASSUME SettingsAssumption ==
  /\ MaxLen \in Nat
  /\ \A s \in Settings :
       /\ s.allowed_length \in Nat /\ s.penalty_range \in Int
       /\ \A r \in s.restart_sequences : r \in Seq(Tokens) /\ r # <<>>

VARIABLES
  current_context_tokens, settings,    \* never change
  pc,
  rep_limit, dry_repeat_count, lt, rt, k,
  dry_max_token_repeat,                \* the penalized tokens, with the longest repeat
  compared                             \* comparisons of tokens in the loop (history)

inputVars == <<current_context_tokens, settings>>
vars == <<inputVars, pc, rep_limit, dry_repeat_count, lt, rt, k, dry_max_token_repeat, compared>>

None == [t \in {} |-> 0]

MinOf(a, b) == IF a <= b THEN a ELSE b

-----------------------------------------------------------------------------
(* The last tokens                                                         *)

penalty_range == IF settings.penalty_range \in 1..MaxLen THEN settings.penalty_range ELSE MaxLen

last_n_repeat == MinOf(Len(current_context_tokens), penalty_range)

\* The token at distance d from the last one
Token(d) == current_context_tokens[Len(current_context_tokens) - d]

\* Restart sequence r begins at distance d.
BeginsAt(r, d) ==
  Len(r) - 1 <= d /\ \A n \in 1..Len(r) : r[n] = Token(d - (n - 1))

\* The restart sequences at the last place where one begins
Heads == {d \in 0..(last_n_repeat - 1) : \E r \in settings.restart_sequences : BeginsAt(r, d)}
LongestAt(d) == Max({Len(r) : r \in {s \in settings.restart_sequences : BeginsAt(s, d)}})

\* How many tokens there are behind that place's longest restart sequence
RepLimit ==
  IF Heads = {} THEN last_n_repeat ELSE Min(Heads) - (LongestAt(Min(Heads)) - 1)

-----------------------------------------------------------------------------
Init ==
  /\ current_context_tokens \in UNION {[1..n -> Tokens] : n \in 0..MaxLen}
  /\ settings \in Settings
  /\ pc = "limit" /\ rep_limit = 0
  /\ dry_repeat_count = [d \in 0..(last_n_repeat - 1) |-> 0]
  /\ lt = 0 /\ rt = 0 /\ k = 1
  /\ dry_max_token_repeat = None /\ compared = 0

SetLimit ==
  /\ pc = "limit" /\ last_n_repeat > settings.allowed_length
  /\ rep_limit' = RepLimit
  /\ pc' = IF RepLimit <= settings.allowed_length THEN "done" ELSE "scan"
  /\ UNCHANGED <<inputVars, dry_repeat_count, lt, rt, k, dry_max_token_repeat, compared>>

TooShort ==
  /\ pc = "limit" /\ last_n_repeat <= settings.allowed_length
  /\ pc' = "done"
  /\ UNCHANGED <<inputVars, rep_limit, dry_repeat_count, lt, rt, k, dry_max_token_repeat,
                 compared>>

\* From distance i on, the tokens are compared with those k nearer to the end, and
\* differ first at end, unless the tokens have run out.
StopsAt(i, end) ==
  /\ \A d \in i..(end - 1) : Token(d) = Token(d - k)
  /\ end < last_n_repeat => Token(end) # Token(end - k)

Comparisons(i, end) == end - i + (IF end < last_n_repeat THEN 1 ELSE 0)

Round(n, comparisons) ==
  /\ dry_repeat_count' = [dry_repeat_count EXCEPT ![k] = MinOf(n, rep_limit)]
  /\ compared' = compared + comparisons
  /\ k' = k + 1
  /\ UNCHANGED <<inputVars, pc, rep_limit, dry_max_token_repeat>>

Scanning == pc = "scan" /\ k < last_n_repeat

\* Mutant: the box is not moved to what was found.
CountOutsideOnly ==
  /\ Scanning /\ k > rt
  /\ \E end \in k..last_n_repeat :
       StopsAt(k, end) /\ Round(end - k, Comparisons(k, end))
  /\ UNCHANGED <<lt, rt>>

\* Behind the Z-box lt..rt, the tokens are compared one by one.
CountOutside ==
  /\ Scanning /\ k > rt
  /\ \E end \in k..last_n_repeat :
       /\ StopsAt(k, end)
       /\ Round(end - k, Comparisons(k, end))
       /\ IF end > k THEN lt' = k /\ rt' = end - 1 ELSE UNCHANGED <<lt, rt>>

RightPart == rt - k + 1

\* Mutant: a repeat that reaches the end of the box is taken over, too.
CopyPairToEnd ==
  /\ Scanning /\ k <= rt
  /\ dry_repeat_count[k - lt] <= RightPart
  /\ Round(dry_repeat_count[k - lt], 0)
  /\ UNCHANGED <<lt, rt>>

\* In the box, the count of the paired place holds if it ends in the box, too.
CopyPair ==
  /\ Scanning /\ k <= rt
  /\ dry_repeat_count[k - lt] < RightPart
  /\ Round(dry_repeat_count[k - lt], 0)
  /\ UNCHANGED <<lt, rt>>

\* If not, it goes on behind the box.
ExtendBox ==
  /\ Scanning /\ k <= rt
  /\ dry_repeat_count[k - lt] >= RightPart
  /\ \E end \in (rt + 1)..last_n_repeat :
       /\ StopsAt(rt + 1, end)
       /\ Round(end - k, Comparisons(rt + 1, end))
       /\ lt' = k /\ rt' = end - 1

\* Each place with a long enough repeat penalizes the token that followed it there.
Penalize ==
  /\ pc = "scan" /\ k >= last_n_repeat
  /\ LET long == {d \in 1..(last_n_repeat - 1) :
                    dry_repeat_count[d] >= settings.allowed_length}
         followed == {Token(d - 1) : d \in long}
     IN  dry_max_token_repeat' =
           [t \in followed |->
              Max({dry_repeat_count[d] : d \in {e \in long : Token(e - 1) = t}})]
  /\ pc' = "done"
  /\ UNCHANGED <<inputVars, rep_limit, dry_repeat_count, lt, rt, k, compared>>

Next == SetLimit \/ TooShort \/ CountOutside \/ CopyPair \/ ExtendBox \/ Penalize

Spec == Init /\ [][Next]_vars

-----------------------------------------------------------------------------
(* Properties                                                              *)

\* A restart sequence within another one may hide it: "this is a minor issue".
NoneContained ==
  \A r, s \in settings.restart_sequences : r # s =>
    ~\E i \in 0..(Len(s) - Len(r)) : r = SubSeq(s, i + 1, i + Len(r))

\* The tokens behind the end of the last restart sequence
BehindBreak ==
  LET ends == {n \in 0..(last_n_repeat - 1) :
                 \E r \in settings.restart_sequences :
                   n + Len(r) <= last_n_repeat /\ BeginsAt(r, n + Len(r) - 1)}
  IN  IF ends = {} THEN last_n_repeat ELSE Min(ends)

\* Token t has already followed the last m tokens.
Followed(m, t) ==
  \E d \in 1..(last_n_repeat - 1) :
    d + m <= last_n_repeat /\ Token(d - 1) = t /\ \A n \in 0..(m - 1) : Token(n) = Token(d + n)

\* A token is penalized for the longest repetition that it would go on with, as far
\* as that lies in the range and behind the last restart sequence, if it is as long
\* as allowed_length: no repetition is missed by skipping in the Z-box, and
\* limiting the counts does not lead the algorithm astray.  This is said of contexts with
\* more than allowed_length tokens behind the last restart sequence.  With exactly as
\* many the code leaves early and penalizes nothing, although a repetition of that length
\* would be long enough at the end.
PenaltiesAreExact ==
  pc = "done" /\ NoneContained /\ BehindBreak > settings.allowed_length =>
    LET repeats(t) == {m \in settings.allowed_length..BehindBreak :
                         m < last_n_repeat /\ Followed(m, t)}
    IN  dry_max_token_repeat = [t \in {u \in Tokens : repeats(u) # {}} |-> Max(repeats(t))]

\* "This step is worst case O(N)": what is compared successfully is never compared
\* again, and each round fails at most once.
ScanIsLinear == compared <= 2 * last_n_repeat

=============================================================================
