---------------------------- MODULE ContextReuse ----------------------------
(***************************************************************************)
(* gpttype_generate and gpttype_generate_abort for a GGUF model: one       *)
(* generation after another on one KV cache.  Each generation keeps as     *)
(* much as it can of the tokens and cells the previous one left, evaluates *)
(* the rest of its prompt in batches and samples until its budget is used, *)
(* a stop token is hit or somebody aborts it.                              *)
(*                                                                         *)
(* The generation thread moves along pc.  HTTP threads may abort at any    *)
(* time; the two threads share remaining_tokens and stopper_unused_tokens  *)
(* without a lock, so each read and each write of them is a step.          *)
(***************************************************************************)
EXTENDS ContextMatching, KvPositions

CONSTANTS
  Tokens,           \* the vocabulary
  Sampled,          \* the tokens the sampler may return
  Requests,         \* the generations a client may ask for (see RequestsOK)
  MinLength,        \* a max_length that is never reduced (4 in the code)
  Reserve,          \* what a longer one leaves of the context (16 in the code)
  NBatch,           \* tokens evaluated at a time
  ContextModes,     \* how koboldcpp may be started (see mode)
  DecodeMayFail,    \* llama_decode may find no room in the KV cache
  ClientsAbort      \* some client aborts

\* A request as generate() in koboldcpp.py hands it over: its tokens, and a
\* max_length reduced to the context length less Reserve, but never below MinLength,
\* which in a small enough context is more than the context holds.  A blank request
\* has neither prompt nor memory text, and the tokenizer alone fills its prompt; any
\* text has at least one token.
RequestsOK ==
  /\ {NCtx, NBatch} \subseteq Nat \ {0} /\ {MemoryMargin, MinLength, Reserve} \subseteq Nat
  /\ Empty \notin Tokens /\ (HasBos => Bos \in Tokens) /\ HasBos \in BOOLEAN
  /\ Sampled \subseteq Tokens /\ ContextModes \subseteq {"shift", "smart", "plain"}
  /\ {DecodeMayFail, ClientsAbort} \subseteq BOOLEAN
  /\ \A r \in Requests :
       /\ r.prompt \in Seq(Tokens) /\ r.memory \in Seq(Tokens)
       /\ r.blank \in BOOLEAN /\ (r.blank \/ r.prompt # <<>> \/ r.memory # <<>>)
       /\ r.max_length \in Nat
       /\ r.max_context_length \in 1..NCtx
       /\ r.max_length <= MaxOf(MinLength, r.max_context_length - Reserve)
ASSUME RequestsAssumption == RequestsOK

VARIABLES
  mode,                    \* "shift" by default, "plain" with --noshift, "smart"
                           \* with --noshift --smartcontext; never changes
  pc,                      \* the generation thread
  request,                 \* the request it works on
  embd_inp,                \* tokens of the prompt not yet put in a batch
  embd,                    \* the batch
  n_past,                  \* tokens the generation counts as evaluated
  loaded,                  \* remaining_tokens as read by its decrement
  current_context_tokens,  \* kept from one generation to the next
  smartcontext,            \* likewise
  kv,                      \* likewise: the token whose cell is at each position
  remaining_tokens,        \* shared with aborting threads
  stopper_unused_tokens,   \* likewise
  generation_finished,     \* read by pollers
  last_token_count,        \* tokens of the last generation, for /api/extra/perf
  abort_pc,                \* an aborting thread: "none" or between its writes
  prompt,                  \* the prompt as cut to the context (history)
  sampled,                 \* tokens this generation has sampled (history)
  evaluated,               \* llama_decode has succeeded for it (history)
  aborted,                 \* an abort was answered during its run (history)
  skewed                   \* positions where a shift has left another token in
                           \* the array than in the cache (history)

threadVars == <<request, embd_inp, embd, n_past, loaded>>
outVars == <<generation_finished, last_token_count>>
keptVars == <<current_context_tokens, smartcontext, kv, skewed>>
sharedVars == <<remaining_tokens, stopper_unused_tokens>>
historyVars == <<prompt, sampled, evaluated, aborted>>
vars == <<mode, pc, threadVars, keptVars, sharedVars, outVars, abort_pc, historyVars>>

Looping == {"test", "eval", "fill", "decrement", "stopcheck"}

-----------------------------------------------------------------------------
Init ==
  /\ mode \in ContextModes
  /\ pc = "idle" /\ abort_pc = "none"
  /\ request \in Requests
  /\ embd_inp = <<>> /\ embd = <<>> /\ n_past = 0 /\ loaded = 0
  /\ current_context_tokens = <<>> /\ smartcontext = <<>>
  /\ \E warmup \in [0..3 -> Tokens] :  \* the cells of an evaluation done when loading
       kv = [p \in Positions |-> IF p \in 0..3 THEN warmup[p] ELSE Empty]
  /\ remaining_tokens = 0 /\ stopper_unused_tokens = 0
  /\ generation_finished = TRUE /\ last_token_count = 0
  /\ prompt = <<>> /\ sampled = 0 /\ evaluated = FALSE /\ aborted = FALSE /\ skewed = {}

-----------------------------------------------------------------------------
(* The generation thread                                                   *)

\* The prompt or the memory would have to lose more tokens than it has: begin() +
\* offset lies behind end(), no vector can be made of that, and nothing catches the
\* exception.
Overruns(r) ==
  \/ r.max_length > r.max_context_length
  \/ r.memory # <<>> /\ r.max_length + MemoryMargin > r.max_context_length

\* Such a request ends the process.
StartOverruns(r) ==
  /\ pc = "idle" /\ Overruns(r)
  /\ pc' = "crashed"
  /\ UNCHANGED <<mode, threadVars, keptVars, sharedVars, outVars, abort_pc, historyVars>>

\* Any other enters gpttype_generate and its prompt is tokenized and cut.
StartGeneration(r) ==
  LET cut == EffectivePrompt(r.prompt, r.memory, r.max_length, r.max_context_length)
  IN  /\ pc = "idle" /\ ~Overruns(r)
      /\ pc' = "reuse"
      /\ request' = r
      /\ generation_finished' = FALSE
      /\ embd_inp' = cut /\ prompt' = cut
      /\ embd' = <<>> /\ n_past' = 0
      /\ sampled' = 0 /\ evaluated' = FALSE /\ aborted' = FALSE
      /\ UNCHANGED <<mode, loaded, keptVars, sharedVars, last_token_count, abort_pc>>

\* Mutant: the token array is not cut to the kept tokens.
KeepWithoutResize(old, cells, kept, input) ==
  /\ n_past' = kept
  /\ current_context_tokens' = old
  /\ kv' = SeqRm(cells, kept, NCtx)
  /\ embd_inp' = input

\* The first kept tokens of old and their cells stay, input is evaluated.
Keep(old, cells, kept, input) ==
  /\ n_past' = kept
  /\ current_context_tokens' = SubSeq(old, 1, kept)
  /\ kv' = SeqRm(cells, kept, NCtx)
  /\ embd_inp' = input

Reuse ==
  /\ pc = "reuse"
  /\ pc' = "budget"
  /\ UNCHANGED <<mode, request, embd, loaded, sharedVars, outVars, abort_pc, historyVars>>

\* Of the positions in S those that are kept.
KeepSkewed(S) == skewed' = {p \in S : p < n_past'}

\* Nothing may be left of a prompt that was cut.  Comparing the first old token with
\* the first of the prompt then reads beyond it; unless that happens to show another
\* token there (see Matches), the process ends, or goes on with a prompt of a size
\* below zero.
ReadBeyondPrompt ==
  /\ pc = "reuse" /\ ~request.blank
  /\ embd_inp = <<>> /\ current_context_tokens # <<>>
  /\ pc' = "crashed"
  /\ UNCHANGED <<mode, threadVars, keptVars, sharedVars, outVars, abort_pc, historyVars>>

\* A blank prompt takes nothing over.
ReuseNothing ==
  /\ Reuse
  /\ request.blank
  /\ Keep(<<>>, kv, 0, embd_inp) /\ KeepSkewed({})
  /\ UNCHANGED smartcontext

\* ContextFastForward: the matching tokens are kept.
ReusePrefix ==
  /\ Reuse
  /\ ~request.blank /\ mode = "plain"
  /\ \E n \in Matches(current_context_tokens, embd_inp) :
       Keep(current_context_tokens, kv, n, Drop(embd_inp, n))
  /\ KeepSkewed(skewed)
  /\ smartcontext' = <<>>

\* Where the array has another token than the cache after a shift: where it had, and
\* in its last slot, to which ShiftTokens moves no token but SeqAdd may move a cell.
SkewedByShift(trimstart, diff) ==
  {p \in Positions :
     \/ p < trimstart /\ p \in skewed
     \/ p >= trimstart /\ p + diff \in skewed
     \/ /\ p + diff + 1 = Len(current_context_tokens)
        /\ p + diff \in Positions /\ kv[p + diff] # Empty}

\* PurgeMissingTokens before it: trimstart tokens match, diff tokens that the new
\* prompt lacks are erased behind them, and the cells that follow move up.
ReuseShifted ==
  /\ Reuse
  /\ ~request.blank /\ mode = "shift"
  /\ \E trimstart \in Matches(current_context_tokens, embd_inp) :
     \E shared \in {LongestCommonSubseq(Drop(current_context_tokens, trimstart),
                                        Drop(embd_inp, trimstart))} :
     \E diff \in {ErasedTokens(current_context_tokens, embd_inp, trimstart, shared,
                              request.max_length, request.max_context_length)} :
       IF diff = 0
       THEN /\ Keep(current_context_tokens, kv, trimstart, Drop(embd_inp, trimstart))
            /\ KeepSkewed(skewed)
       ELSE \E old \in {ShiftTokens(current_context_tokens, trimstart, diff)} :
            \E n \in Matches(old, embd_inp) :
              /\ Keep(old, SeqAdd(SeqRm(kv, trimstart, trimstart + diff),
                                  trimstart + diff, -diff),
                      n, Drop(embd_inp, n))
              /\ KeepSkewed(SkewedByShift(trimstart, diff))
  /\ smartcontext' = <<>>

\* ContextFastForward with smart context, behind n matching tokens: the prompt is
\* skipped to where the remembered part resumes and m tokens more match, or half
\* of a long prompt is cut and the rest remembered, or neither.
ReuseSmart ==
  /\ Reuse
  /\ ~request.blank /\ mode = "smart"
  /\ \E n \in Matches(current_context_tokens, embd_inp) :
     \E left \in {Drop(embd_inp, n)} :
     \E shared \in {LongestCommonSubseq(smartcontext, left)} :
     \E found \in {SmartResume(smartcontext, left, shared, request.max_context_length)} :
     LET old == current_context_tokens
         halve == SmartTriggers(old, left, n, request.max_context_length)
         half == Drop(left, Len(left) \div 2)
     IN  \/ /\ found >= 0
            /\ \E trimmed \in {Drop(left, found)} :
               \E m \in 0..(Len(old) - n) :
                 /\ MatchStops(old, trimmed, n, OffsetFix(old, trimmed, n), m)
                 /\ Keep(old, kv, n + m, Drop(trimmed, m))
            /\ UNCHANGED smartcontext
         \/ /\ found < 0 /\ halve
            /\ Keep(old, kv, n, half)
            /\ smartcontext' = half
         \/ /\ found < 0 /\ ~halve
            /\ Keep(old, kv, n, left)
            /\ smartcontext' = <<>>
  /\ KeepSkewed(skewed)

\* Mutant: the unused tokens of the previous generation still count.
SetBudgetOnly ==
  /\ pc = "budget"
  /\ pc' = "test"
  /\ remaining_tokens' = request.max_length
  /\ UNCHANGED <<mode, threadVars, keptVars, stopper_unused_tokens, outVars, abort_pc,
                 historyVars>>

SetBudget ==
  /\ pc = "budget"
  /\ pc' = "test"
  /\ remaining_tokens' = request.max_length
  /\ stopper_unused_tokens' = 0
  /\ UNCHANGED <<mode, threadVars, keptVars, outVars, abort_pc, historyVars>>

\* Mutant: while (remaining_tokens != 0).
TestNotZero ==
  /\ pc = "test"
  /\ remaining_tokens # 0
  /\ pc' = IF embd # <<>> THEN "eval" ELSE "fill"
  /\ UNCHANGED <<mode, threadVars, keptVars, sharedVars, outVars, abort_pc,
                 historyVars>>

\* while (remaining_tokens > 0): the batch, when there is one, is evaluated next
TestBudget ==
  /\ pc = "test"
  /\ remaining_tokens > 0
  /\ pc' = IF embd # <<>> THEN "eval" ELSE "fill"
  /\ UNCHANGED <<mode, threadVars, keptVars, sharedVars, outVars, abort_pc,
                 historyVars>>

\* gpttype_generate returns, and its local variables are gone
Return ==
  /\ pc' = "idle"
  /\ generation_finished' = TRUE
  /\ embd_inp' = <<>> /\ embd' = <<>> /\ loaded' = 0
  /\ UNCHANGED <<mode, request, n_past, keptVars, sharedVars, abort_pc, historyVars>>

FinishGeneration ==
  /\ pc = "test"
  /\ remaining_tokens <= 0
  /\ last_token_count' = request.max_length - stopper_unused_tokens
  /\ Return

Evaluate ==
  /\ pc = "eval"
  /\ pc' = "fill"
  /\ kv' = Stored(kv, n_past, embd)
  /\ n_past' = n_past + Len(embd)
  /\ embd' = <<>>
  /\ evaluated' = TRUE
  /\ UNCHANGED <<mode, request, embd_inp, loaded, current_context_tokens, smartcontext,
                 skewed, sharedVars, outVars, abort_pc, prompt, sampled, aborted>>

\* Mutant: a failed batch is tried again.
EvaluateAgain ==
  /\ pc = "eval"
  /\ DecodeMayFail
  /\ pc' = "test"
  /\ UNCHANGED <<mode, threadVars, keptVars, sharedVars, outVars, abort_pc, historyVars>>

\* llama_decode found no slot: nothing is stored, the request ends with status 0
EvaluateFails ==
  /\ pc = "eval"
  /\ DecodeMayFail
  /\ Return
  /\ UNCHANGED last_token_count

FillBatch ==
  LET count == MinOf(NBatch, Len(embd_inp))
  IN  /\ pc = "fill"
      /\ embd_inp # <<>>
      /\ pc' = "test"
      /\ embd' = SubSeq(embd_inp, 1, count)
      /\ current_context_tokens' = current_context_tokens \o SubSeq(embd_inp, 1, count)
      /\ embd_inp' = Drop(embd_inp, count)
      /\ UNCHANGED <<mode, request, n_past, loaded, smartcontext, kv, skewed, sharedVars,
                     outVars, abort_pc, historyVars>>

\* A token is sampled and appended; --remaining_tokens has read its operand
Sample(id) ==
  /\ pc = "fill"
  /\ embd_inp = <<>>
  /\ pc' = "decrement"
  /\ embd' = <<id>>
  /\ current_context_tokens' = Append(current_context_tokens, id)
  /\ loaded' = remaining_tokens
  /\ sampled' = sampled + 1
  /\ UNCHANGED <<mode, request, embd_inp, n_past, smartcontext, kv, skewed, sharedVars,
                 outVars, abort_pc, prompt, evaluated, aborted>>

Decrement ==
  /\ pc = "decrement"
  /\ pc' = "stopcheck"
  /\ remaining_tokens' = loaded - 1
  /\ UNCHANGED <<mode, threadVars, keptVars, stopper_unused_tokens, outVars,
                 abort_pc, historyVars>>

\* The token may be an end or stop token, or complete a stop sequence
StopCheck ==
  /\ pc = "stopcheck"
  /\ pc' = "test"
  /\ \/ /\ stopper_unused_tokens' = remaining_tokens
        /\ remaining_tokens' = 0
     \/ UNCHANGED sharedVars
  /\ UNCHANGED <<mode, threadVars, keptVars, outVars, abort_pc, historyVars>>

-----------------------------------------------------------------------------
(* gpttype_generate_abort, called by an HTTP thread at any time            *)

AbortSavesUnused ==
  /\ ClientsAbort /\ pc # "crashed"
  /\ abort_pc = "none"
  /\ abort_pc' = "clear"
  /\ stopper_unused_tokens' = remaining_tokens
  /\ UNCHANGED <<mode, pc, threadVars, keptVars, remaining_tokens, outVars,
                 historyVars>>

AbortClearsBudget ==
  /\ abort_pc = "clear" /\ pc # "crashed"
  /\ abort_pc' = "none"
  /\ remaining_tokens' = 0
  /\ aborted' = (aborted \/ ~generation_finished)
  /\ UNCHANGED <<mode, pc, threadVars, keptVars, stopper_unused_tokens,
                 outVars, prompt, sampled, evaluated>>

-----------------------------------------------------------------------------
Loop ==
  \/ SetBudget \/ TestBudget \/ FinishGeneration
  \/ Evaluate \/ EvaluateFails \/ FillBatch \/ (\E id \in Sampled : Sample(id))
  \/ Decrement \/ StopCheck

Generate ==
  \/ ReadBeyondPrompt \/ ReuseNothing \/ ReusePrefix \/ ReuseShifted \/ ReuseSmart
  \/ Loop

Abort == AbortSavesUnused \/ AbortClearsBudget

Next ==
  \/ \E r \in Requests : StartGeneration(r) \/ StartOverruns(r)
  \/ Generate \/ Abort

Spec == Init /\ [][Next]_vars

\* The generation thread runs until gpttype_generate returns.  Nothing makes
\* a client send a request or an abort.  (Reuse is enabled exactly where one of the
\* four actions built on it is.)
FairSpec == Spec /\ WF_pc(Reuse) /\ WF_vars(Loop)

-----------------------------------------------------------------------------
(* Properties                                                              *)

TypeOK ==
  /\ mode \in ContextModes
  /\ pc \in {"idle", "crashed", "reuse", "budget"} \cup Looping
  /\ abort_pc \in {"none", "clear"}
  /\ request \in Requests
  /\ {embd_inp, embd, current_context_tokens, smartcontext, prompt} \subseteq Seq(Tokens)
  /\ kv \in [Positions -> Tokens \cup {Empty}] /\ skewed \subseteq Positions
  /\ {n_past, sampled} \subseteq 0..NCtx /\ last_token_count \in 0..(NCtx + 1)
  /\ {loaded, remaining_tokens, stopper_unused_tokens} \subseteq -1..NCtx
  /\ {generation_finished, evaluated, aborted} \subseteq BOOLEAN

\* The token array runs exactly one batch ahead of n_past, and that batch is
\* what is evaluated next.  Failed evaluations, shifts and smart context must
\* all leave the three in step (PurgeMissingTokens, ContextFastForward and the
\* generation loop each move one or two of them).
BatchIsContextTail ==
  pc \in Looping =>
    /\ Len(current_context_tokens) = n_past + Len(embd)
    /\ Drop(current_context_tokens, n_past) = embd

\* No cell is left at or beyond n_past, where the next batch is stored: two
\* cells at one position would both be attended to.
NoCellBeyondPast ==
  pc \in Looping => \A p \in Positions : p >= n_past => kv[p] = Empty

\* A cell that a generation attends to was computed from the token its context has
\* at that position, in every mode and whatever failed or was aborted before, but
\* for the one slot of a shift that the array does not fill and what becomes of it.
CellsAgreeWithContext ==
  pc \in Looping =>
    \A p \in Positions : kv[p] # Empty =>
      /\ p < Len(current_context_tokens)
      /\ p \notin skewed => kv[p] = current_context_tokens[p + 1]

\* What is in the context, what is left of the prompt and what may still be
\* sampled fit into the context length of the request at every point of the
\* loop, whatever an abort does to the budget, and however small the context is: a
\* request that cannot fit is not started (see Overruns).
FitsContext ==
  LET budget == IF pc = "decrement" THEN loaded - 1
                ELSE IF remaining_tokens > 0 THEN remaining_tokens ELSE 0
  IN  pc \in Looping =>
        Len(current_context_tokens) + Len(embd_inp) + budget
          <= request.max_context_length

\* Without smart context, reusing old tokens never changes what the model is
\* asked: until the first token is sampled, the context and the rest of the
\* input are together the prompt.
ContextIsPrompt ==
  pc \in Looping /\ sampled = 0 /\ mode # "smart" => current_context_tokens \o embd_inp = prompt

\* However much is taken over, the end of the prompt is evaluated: what is left
\* of a prompt with a token to spare is a part of its end, and not empty.
EndOfPromptIsEvaluated ==
  pc = "budget" /\ Len(prompt) >= 2 =>
    /\ Len(embd_inp) \in 1..Len(prompt)
    /\ embd_inp = KeepLast(prompt, Len(embd_inp))

\* A token is sampled from logits that this generation computed, provided its
\* prompt has a token to spare for evaluation.
SamplesFreshLogits ==
  pc = "decrement" /\ Len(prompt) >= 2 => evaluated

\* The token count the server reports is the number of tokens sampled, unless
\* an abort got in the way.
CountIsExact ==
  [][pc = "test" /\ pc' = "idle" /\ ~aborted /\ abort_pc = "none"
       => last_token_count' = sampled]_vars

\* Every generation ends, also when aborts race with its countdown, or the process
\* does.
GenerationEnds == pc # "idle" ~> pc \in {"idle", "crashed"}

\* The kept tokens are those the KV cache holds: "fast forward the past based on
\* identical tokens".
KeptTokensAreEvaluated ==
  pc \in Looping => \A p \in 0..(n_past - 1) : kv[p] # Empty

\* A shift moves the tokens of the array as it moves the cells: "remove all tokens
\* from old ctx between p0 and p1, updating both arrays and kv".
ShiftMovesBoth ==
  pc \in Looping =>
    \A p \in 0..(n_past - 1) : kv[p] \in {Empty, current_context_tokens[p + 1]}

=============================================================================
