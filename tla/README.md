# A TLA+ verification project for koboldcpp

koboldcpp serves large language models over HTTP. One Python process
(`koboldcpp.py`) runs 24 HTTP threads and loads one native library
(`expose.cpp`, `gpttype_adapter.cpp`, `model_adapter.cpp`, llama.cpp and ggml).
The library holds *one* model with *one* context, one KV cache and one set of
output buffers, all of them globals. Everything that is hard in this program
comes from that: threads that share the globals, and a context that is carried
over from one generation to the next.

This directory holds TLA+ modules translated from the code, TLC configurations
that check them on small instances, and proofs that TLAPS checks. `PROJECT.json`
maps every definition to the lines it models and lists the runs, the mutants
that show each property can fail, the findings, the hazards and the theorems.

## Inventory

| Component | Code | State | Operations | What is hard | Modules |
|---|---|---|---|---|---|
| Context reuse and generation loop | `gpttype_adapter.cpp` (`gpttype_generate`, `PurgeMissingTokens`, `gpttype_generate_abort`), `model_adapter.cpp` (`ContextFastForward`) | `current_context_tokens`, `smartcontext`, KV cache by position, `n_past`, `remaining_tokens`, `stopper_unused_tokens` | cut the prompt, fast-forward, shift, smart context, batch, sample, stop, abort | state kept across generations, failed decodes, aborts from other threads | `ContextMatching`, `KvPositions`, `ContextReuse` |
| HTTP request service | `koboldcpp.py` (`do_POST`, `handle_request`, `handle_sse_stream`, `generate`), `expose.cpp` | `modelbusy`, `requestsinqueue`, `currentusergenkey`, `pendingabortkey`, native output buffers | queue, generate, stream, reply, abort, poll | threads and tasks without a common lock, clients that leave, genkeys | `KcppServer`, `RequestService` |
| Token stream text | `koboldcpp.py:1486-1552`, `gpttype_adapter.cpp:2679-2773` | `tokenReserve`, `incomplete_token_buffer`, `generated_tokens` | fetch, hold back, trim, send | characters and stop sequences cut by polls | `TokenStream` |
| KV cache cells | `src/llama.cpp:2532-3430`, `15104-15767` | cells, `head`, `used`, `has_shift`, `do_defrag`, key rows | `seq_rm`, `seq_cp`, `seq_keep`, `seq_add`, `seq_div`, `defrag`, `find_slot` | fragmentation, deferred rotation, own accounts of every operation | `KvPositions`, `KvCache`, `KvStore` |
| Thread pool and barrier | `ggml/src/ggml.c:3023-3053`, `12391-12545`, `18913-19028` | `n_barrier`, `n_barrier_passed`, `current_chunk`, `ec`, work buffer | create, barrier, convert, next chunk, abort, join | reuse of the barrier, slow threads | `PhaseBarrier`, `GgmlBarrier`, `ComputeThreads` |
| Graph allocator | `ggml/src/ggml-alloc.c:64-908` | free blocks, hash nodes, kept plan, buffer | alloc, free, reserve, allocate a graph | merging, views, operations in place, plans kept for other graphs | `DynAlloc`, `GraphAlloc` |
| Samplers | `gpttype_adapter.cpp:504-669` (DRY) | `dry_repeat_count`, the Z-box, `rep_limit` | limit, count, penalize | indices of the Z-algorithm with limited counts | `DrySampler` |
| Horde worker | `koboldcpp.py:3360-3520` | counters, current job | pop, generate, submit | retries, lost updates of counters nothing is promised of | not modelled |
| Model loading | `expose.cpp:33-206` | file format | chain of attempts | sequential, tensor I/O | not modelled |
| Grammar, tokenizer, legacy formats, llava, image generation, transcription, ggml kernels, launcher and GUI, web pages, conversion scripts | see `PROJECT.json` | | | | not modelled |

How they interact: an HTTP thread takes `modelbusy` and runs the asyncio task
`handle_request`. That starts `generate()`, for a stream in a worker thread of
its own, and `generate()` calls the library's `generate`, which is
`gpttype_generate`. It edits the KV cache and calls `llama_decode` for every
batch, which shifts and compacts the cache, looks for a slot, builds a compute
graph, has its tensors placed by the graph allocator and computed by the thread
pool; the sampler then picks a token, DRY among its filters. Meanwhile the stream
loop, pollers (`/api/extra/generate/check`) and aborts (`/api/extra/abort`) read
and write native globals without a lock.

What makes the modelled components correct:

* reuse: tokens, cells, batch and `n_past` stay in step; no cell is attended to
  that belongs to another token; the model is asked what the client asked; the
  context length is kept; there is always something to evaluate; generations end;
* service: one native call at a time; the lock is released once, by its holder,
  on every path; answers and streams are whole and nobody else's; everyone is
  served;
* stream: what a client receives is the answer, whole characters, nothing lost;
* cache: a batch attends exactly what its client has stored, whatever was
  shifted, shared, freed or moved before; the accounts are exact; a free run is
  found; the loops end;
* threads: nobody reads what another has not finished, every element is computed
  once, the barrier holds in every round, computations end;
* allocator: no space is given out twice or lost, and no tensor is overwritten
  while somebody still reads it;
* DRY: exactly the tokens that go on with a repetition are penalized, for its
  exact length, in linear time.

## Modules

### ContextMatching

The pure functions of context reuse: how prompt and memory are cut to the
context length (`EffectivePrompt`), how many tokens of the old context a prompt
takes over (`Matches`), the shift (`ErasedTokens`, `ShiftTokens`) and smart
context (`SmartResume`, `OffsetFix`, `SmartTriggers`). Tokens are opaque. Lengths
are those of the code; the thresholds (200, 60, 32, 6, 4 in the code) are
constants, so that they can be scaled down with the context. The code multiplies
by 0.45, 0.8 and so on in floating point and truncates; the model divides
integers. `SmartAssumption` says that the block smart context resumes from is not
empty (32 tokens in the code).

`MatchStops` states when a matching loop stops as a condition on the count
rather than by recursion, so that the prover can use it. The comparisons of
`ContextFastForward` in its smart-context part may read beyond the end of the
prompt; such a read is free to match or not.

### ContextReuse

One action per stretch of `gpttype_generate` between two points where another
thread, or a failure, can come in. `pc` is the position of the generation thread:

| `pc` | Action | Code |
|---|---|---|
| `idle` | `StartGeneration`, `StartOverruns` | entry, tokenizing, cutting (1944-2334) |
| `reuse` | `ReuseNothing`, `ReusePrefix`, `ReuseShifted`, `ReuseSmart`, `ReadBeyondPrompt` | 2343-2395, with `PurgeMissingTokens` and `ContextFastForward`; `mode` is how the program was started |
| `budget` | `SetBudget` | `remaining_tokens = n_predict; stopper_unused_tokens = 0` |
| `test` | `TestBudget`, `FinishGeneration` | `while (remaining_tokens > 0)` and what follows it |
| `eval` | `Evaluate`, `EvaluateFails` | the decode of `embd` |
| `fill` | `FillBatch`, `Sample` | next prompt batch, or one token sampled |
| `decrement` | `Decrement` | the store of `--remaining_tokens` |
| `stopcheck` | `StopCheck` | end of text, stop sequences |
| `crashed` | none | the process has ended |

`AbortSavesUnused` and `AbortClearsBudget` are the two statements of
`gpttype_generate_abort`, on an HTTP thread, at any time. The counters are
plain `int`s, so the load and the store of `--remaining_tokens` are two steps.
`SetBudget` and `StopCheck` write both counters in one step: an abort between
the two writes leaves them as an abort wholly before or wholly after does,
because its own two steps already interleave with every action. `EvaluateFails`
stores nothing: the batch handed to llama.cpp is never larger than its own
micro-batch (`n_ubatch = n_batch`, line 1135), so a decode finds all its cells
or none. `kv` is the cache seen by position; cells start with the four of the
evaluation done when loading, because the cache is cleared *before* it (1479-1489).
The first statement in `Generate` of a later generation sees whatever these
actions left: nothing is reset in between.

A request arrives with the length that `generate()` in `koboldcpp.py:931-933` makes of
what the client asked for: no more than the context length less `Reserve` (16), but
never cut below `MinLength` (4). The API allows a `max_context_length` from 1
(`kcpp_docs.embd:55`), and in so small a context that length is more than the context
holds. Then `begin() + offset` lies behind `end()` in line 2253 or 2310, and the
exception ends the process: `Overruns` says when, and `StartOverruns` is that end. In a
context a little larger the whole prompt is cut away, and `ContextFastForward` reads the
first token of an empty vector (`ReadBeyondPrompt`). `RequestsOK` assumes the clamp and
nothing stronger. A negative `max_length` is left out.

*What a shift leaves behind.* The loop of `PurgeMissingTokens` that moves the tokens of
the array ends one short of the last, while `llama_kv_cache_seq_add` moves all cells.
Usually the last token has no cell, as it was sampled and not evaluated. After an abort
before the first batch, or a request for no token (`max_length` 0), it has one, and the
shifted array has an older token where the cache has the moved cell. `skewed` is the set
of positions at which that has happened: the last slot of the array at a shift, and
wherever later shifts move it. `CellsAgreeWithContext` says that cells and tokens agree at
all other positions, in every mode and with all aborts; `shift_abort` shows that
a generation does attend to a skewed one.

History variables (`prompt`, `sampled`, `evaluated`, `aborted`, `skewed`) serve the
properties only.

### KcppServer

Each request has two positions: `pc`, its HTTP handler, and `call`, its run of
`generate()`. An unstreamed request's handler waits for its call; a streamed
one's goes through `headers`, `poll` and `send` while the call runs.
`requestsinqueue += 1` and the decrement are a load and a store each, since
Python may switch threads between them. Of every text only the owner of each
token is kept, which is what the properties ask about. `AbortTests` and its
effect are two steps, as is `SetKey` before `NativeEnter`.

`HeadersFail` is the client that has gone before the headers of its stream are
written; the constant `HeadersMayFail` turns it on. `CallHasBegun` is the one
*timing assumption*: the code sleeps 0.35 s so that the stream loop does not
overtake `generate()`, and the model takes the sleep to be long enough.

`RequestService` is what the service promises: requests are served one at a
time, each at most once, and none is closed in the middle of its generation.
`KcppServer` maps every pair of positions to a status (`StatusOf`), and
`ServiceSpec` is `RequestService!Spec` under this mapping.

### KvPositions

The operations `ContextReuse` uses of the cache, seen by position: `SeqRm`,
`SeqAdd`, `Stored`. `KvCache` shows in `ActsAsPositions` that its cells behave
so, which composes the two modules without multiplying their states.

### KvCache and KvStore

`KvCache` is `struct llama_kv_cache` of a Transformer. A client's edit between
evaluations is one action each (`CacheSeqRm`, `CacheSeqCp`, `CacheSeqKeep`,
`CacheSeqAdd`, `CacheSeqDiv`, `CacheDefrag`, `CacheClear`), since nothing else
runs meanwhile. `llama_decode` is a walk of `pc`: `Decode` rotates the keys of
shifted cells (`llama_kv_cache_update_internal`), `defrag` and `move` are the two
loops of `llama_kv_cache_defrag_internal`, `slot` and `search` those of
`llama_kv_cache_find_slot`, and `Place` stores the batch and computes the `n`
cells it attends. `keys` holds, for each cell's row, the token and the position
its key is rotated for, so that a rotation lost or applied twice is visible.

`KvStore` is what the cache promises: a set of entries (position, token,
sequences), and a batch that attends exactly the entries of its sequence up to
its last position. `Implements` maps the cells to the entries; where a token
lies, when its key is rotated and when cells are compacted are stutters. Asking
for compaction is an edit of the client that changes no entry (`Defrag`).

Assumed: RoPE (otherwise `seq_add` has no keys to rotate), a Transformer (the
recurrent branches are left out), batches of one sequence that fit one
micro-batch, as koboldcpp's do; `kv_self.n` is recomputed before each use;
`defrag_thold` is off, koboldcpp's default, so that only the client asks for
compaction. A client moves no position to the context size or beyond, and puts
batches behind what the sequence holds.

### GgmlBarrier, PhaseBarrier and ComputeThreads

`GgmlBarrier` has one step for each atomic operation of `ggml_barrier`: reading
`n_barrier_passed`, the fetch-and-add on `n_barrier`, the reset, the increment,
and each round of the spin. `ComputeThreads` composes it with
`ggml_graph_compute` without OpenMP: creating and joining threads, the walk over
the nodes, the conversion of `src1` into the shared work buffer, the chunk
counter, and the abort callback with its unsynchronized status `ec`. The
atomics are sequentially consistent in the code, so interleaving is enough.
`PhaseBarrier` is a reusable barrier as its callers think of it; `BarrierHolds`
maps the counters to it.

### DynAlloc and GraphAlloc

`DynAlloc` is `ggml_dyn_tallocr`: best fit, splitting, and freeing with its four
cases of merging. `GraphAlloc` is `ggml_gallocr` with one buffer: `StartReserve`
to `KeepPlan` are `ggml_gallocr_reserve_n` with one step for each leaf, node
and parent, `NeedsRealloc` decides whether the plan of an earlier graph is kept,
and `InitTensors` and `ComputeNode` then run the graph in a memory that
remembers which tensor was written to each address.

A graph is a record: `src` is what each tensor reads, `view_src` the tensor a view
shows (0 for none), which is never itself a view because `ggml_new_tensor_impl`
looks through views of views. `WellFormed` is what `ggml_visit_parents` builds: every
tensor comes after what it reads, and leafs come first; at most `MaxSrc` sources
(`GGML_MAX_SRC`). The two counters of a hash node are the numbers of places where it
is read (`Reads`) and of its views (`Views`). `Limit` bounds the address space
(`SIZE_MAX/2` in the code); `AllocTensor` never reaches it.

Assumed: one buffer and one backend; no tensor allocated elsewhere. The branch
that reuses the space of a view's root is never reached and is left out: a view
is never marked `allocated`, so `ggml_gallocr_is_own` turns it away before. The INPUT flag only
makes a tensor a leaf here. An output that is a view protects its root only if
that carries the flag, too; graphs of llama.cpp flag tensors with space of their own.
`PlansServe` names this and what a kept plan relies on: graphs of a session with as many
nodes and leafs have the same shape. `MCGraphAlloc` states it of its sessions, so TLC
evaluates it.

### TokenStream

One streamed request: the generation thread appends tokens, and the loop of
`handle_sse_stream` fetches, decodes, holds back, trims and sends, with one step
between any two accesses to native state. A text is a sequence of characters, one
of which has two bytes. The loop reads the flag, then the count (`ReadCount`), and then
fetches the tokens in front of that count one by one (`FetchToken`), while more may be
generated; `concat_output` is the text that the native code keeps beside the tokens.
A token may be any bytes (`TokensAssumption` is about their types). The vector of tokens
is read as a whole (see the hazard on `gpttype_adapter.cpp:2691`). Generations that fail
are left out: `generate()` answers them without text.

Lines 1501-1508 collect bytes until something can be decoded, put it out and clear the
buffer, and with it a beginning that follows. So a token that holds more than the
beginning of a character (`Severs`) loses that character, unless all it has in front of
it is a space. Such tokens exist: `rwkv_vocab.embd:35260` is one character and two bytes
of the next. `OnlySplitIsLost` says that this is all that can go wrong without `trim_stop`,
for any tokens at all: the client has what it would have got without streaming, less some
characters whose bytes come in two tokens, and less a space at the very end.
`NothingIsLost` covers `trim_stop` as well and says that nothing is lost where no token
severs a character (`NoneSevers`) and the bytes are characters (`WellFormed`). Without
either condition TLC refutes it: a beginning behind a space that is followed by another
such token is forgotten, too, and with it the character that the second token began.

### DrySampler

`sample_dry` up to the power it subtracts. Places are named by distance from the
last token, which is how the Z-algorithm here runs. One step is one round of the
loop; where the comparison in a round ends is stated as a condition (`StopsAt`),
not by recursion. `compared` counts comparisons for `ScanIsLinear`.

`PenaltiesAreExact` excludes restart sequences that contain one another, which
the code's comment admits, and contexts in which the last restart sequence is
followed by no more than `allowed_length` tokens: there the function returns
early, also when exactly `allowed_length` tokens are repeated. Negative values of
`dry_allowed_length` are left out; they act like 0.

### Proof modules

`ContextReuseProofs`, `KcppServerProofs`, `ComputeThreadsProofs`,
`DrySamplerProofs`, `KvCacheProofs`, `GraphAllocProofs` and `TokenStreamProofs` hold the theorems. `NumberSets` holds what they share: least
and greatest elements of sets of numbers, induction as a statement about sets, and
the last elements of a set (`LastOf`). The `MC` modules give TLC its instances.

## Runs

| Run | Result | Question |
|---|---|---|
| `reuse` | holds, 1 784 289 states | Requests in any order, decodes that fail and aborts: plain fast-forwarding, also in contexts too small for a reply, context shift with requests for no token, and smart context, both on long prompts. Eight invariants, the reported token count, and that every generation ends. |
| `server` | holds, 664 201 states | Three requests, one with a genkey and one streamed, aborts at any time: mutual exclusion, unmixed answers, whole streams, refinement of `RequestService`. |
| `server_hangup` | holds, 61 080 states | A plain request and a stream whose client may leave before its headers and which may be aborted in advance: lock discipline and liveness, with the one exception that `Stuck` names. |
| `compute` | holds, 32 415 states | Three threads, graphs of one to three nodes again and again, one with an abort: complete inputs, a stable work buffer, complete results, refinement of `PhaseBarrier`, and every call returns. |
| `kv` | holds, 145 651 states | Five cells, one sequence or two that share cells, any edits between any evaluations, compaction that stops half way: accounts, shifts, holes, slots, the view by position, refinement of `KvStore`, and that decoding returns. |
| `graph` | holds, 1 354 560 states | All graphs of one leaf and four nodes, and pairs of graphs computed one after the other: free space is exact, whatever is read is intact, nothing is kept that nobody reads. |
| `stream` | holds, 3 545 402 states | Four tokens, polled and aborted at any time: only characters that two tokens share are lost, and none where no token severs one. |
| `dry` | holds, 1 578 784 states | All contexts of up to eight of three tokens, four sets of breakers: exact penalties in linear time. |
| `kept_evaluated` | violated | The last sampled token is never evaluated, yet later counted as past. |
| `shift_abort` | violated | A shift moves all cells but not the last token, and a generation after an abort attends to a cell of another token than its context has. |
| `lock_lost` | violated | A client that leaves before the headers lets two requests into the native call. |
| `stop_sent` | violated | A stop sequence that begins behind other text in one poll is sent. |

The four violations are disagreements between the code and what it says of
itself; `findings` in `PROJECT.json` quotes both sides.

### Bounds, and why they are enough

* `reuse`: `NCtx = 9`, `NBatch = 2`: prompts of 1 to 9 tokens, so that prompts take
  several batches, fit exactly, have to be cut, and share fronts of every length.
  Thresholds are scaled so that shift and smart context trigger in both
  directions. Three tokens (bos and two others): two are enough for runs to match, differ and
  match again by accident. Every request may follow every other, any number of
  times; there is no bound on the number of generations, since the state between
  them is finite. `MCScope`, an action constraint, says which requests come in which
  mode: short ones and tiny contexts with plain fast-forwarding; long ones
  with the other two, and one for no token under context shift. Aborts come in every
  mode; with the long requests one begins from `budget` on, since before the budget is
  set it has nothing to save. The clamp is scaled to `MinLength = 2` and `Reserve = 3`;
  the tiny contexts hold 1 to 3 tokens, so that a request overruns by its prompt and by
  its memory, and has nothing left of either.
* `server`: the holder of the lock, a waiting request and one
  that is turned away (`MultiUser = 2` allows one in the queue). Each is sent
  once; more requests add handlers, not states of the globals. One abort at a
  time is between its test and its effect; `MaxTokens = 2`: an abort may come
  before, between and after tokens.
* `compute`: three threads are the least with one that is neither first nor last at a
  barrier. Multiplications have chunks by thread and by counter, sizes that do
  not divide evenly, and follow each other directly or with a node in between.
* `kv`: five cells for four positions leave runs too short for a batch of two,
  with a hole at the front, in the middle or at the end; `MaxMoves = 1` stops
  compaction behind its first block. The run has two sets of behaviours, told apart by
  a variable that is fixed at the start (`shared`): one sequence with all of the cache, or
  two with two cells at positions 0 to 2, which they share, keep, divide and shift.
* `graph`: sizes 1 and 3 with alignment 2 are rounded and exact, fit into and
  exceed what was freed; four nodes are enough for a view of a view, a repeated
  source, an operation in place on a tensor that is also read later, and a block
  freed between two others. Second graphs are shorter, longer or for a smaller batch.
* `stream`: four tokens from twelve that are letters, parts of the stop sequence `ab`,
  a line break, spaces, halves of a character, and two that begin a character behind a
  letter or behind the end of another.
* `dry`: eight tokens hold overlapping repetitions (`abababab`), repetitions that
  reach the end of the box, and breakers between; one and two tokens allowed, and none.

Deadlock checking is off where the system may stop: all requests are served or
no client sends another (`reuse`, `server`), a session of graphs is over
(`graph`), a stream is closed (`stream`), a token is sampled (`dry`).

Two things lie outside the runs because the code does not promise them there:

* a graph of the same shape as the one planned for but with other edges: its
  plan is kept, and TLC refutes `ValuesAreIntact`. koboldcpp computes none such,
  although `ggml-alloc.h:63` has the plan made anew when the topology changes.
  `PlansServe` names the condition, and `ValuesStayIntact` proves that it is enough;
* an abort callback on graphs with more than one node: `CallsReturn` fails, since a
  slow thread may read `ec` as set for the next node. koboldcpp passes no callback.

### Fairness

`ContextReuse!FairSpec`: the generation thread takes a step when it can
(`WF_vars(Loop)`, and `WF_pc(Reuse)` for the four ways of reusing); it never waits for
anybody. Nothing is assumed of clients.
`KcppServer!FairSpec`: each handler and each worker thread keeps running (weak
fairness per request). Weak fairness of `Acquire` needs a word: a waiting
handler is enabled only while the lock is free, and others could take it again
and again; as each request is sent once there are finitely many others, so
`ServedEventually` says that nobody keeps the lock or loses its release, not
that Python's lock is fair. The stream of `server_hangup` has a genkey. When it is
dropped by a deferred abort before any generation has ended, it waits for a flag that
nobody sets, with the lock held; `ServedEventually` excepts that (`Stuck`) and nothing else.
After an earlier generation such a stream sees the flag still set, and ends.
`ComputeThreads!FairSpec`: the operating system runs every thread, also a
spinning one (weak fairness per thread, and of the calling thread while it
creates and joins). `KvCache!FairSpec`: the loops of `llama_decode` run
(`WF(Step)`); no client is obliged to anything.

## Theorems

All of them hold for every value of the constants that the named assumptions
(`RequestsAssumption`, `SmartAssumption`, `ServerAssumption`, `ThreadsAssumption`,
`CallsAssumption`, `SettingsAssumption`, `CacheAssumption`, `SessionsOK`,
`AllocAssumption` and `TokensAssumption`) allow; those are what the callers guarantee
(lengths clamped as in `koboldcpp.py`, a prompt or a memory that is not empty unless the
request is blank, at least one thread, nodes that are not empty, breakers that are not
empty, graphs as ggml builds them).

`ContextReuseProofs`, in this order, each resting on those before:

* `BatchInStep`, `PastIsEmpty` -- from the inductive `InStep`: in the loop the
  token array is `n_past` tokens followed by the batch and no cell is left from
  `n_past` on, and before it (`pc = "budget"`) the batch is empty. The property
  is not inductive by itself, since it says nothing outside the loop. The
  central lemma is `ReuseKeeps`: each of the four ways of reusing leaves a token
  array of length `n_past`, a suffix of the prompt to evaluate, and no cell
  behind. It rests on `MatchLength` and `MatchedTokens` on the matching loop.
* `ContextFits` -- `Bounded` follows the budget through the read and the write of
  `--remaining_tokens`: `loaded` may be older than the shared counter, so the
  bound is kept for both. `EffectivePromptFits` is the arithmetic of cutting. Nothing is
  assumed of the lengths but the clamp; that the budget fits into the context at all
  comes from the guard of `StartGeneration`, since the others have ended the process.
* `TypeCorrect` -- from `InStep`, `Bounded` and the ranges of the flags.
* `CellsAgree` -- in every mode, with aborts and requests for no token. `Agreeing` also
  covers the time between generations: every cell within the token array that is not at
  a skewed position belongs to the token there; cells behind the array (those of the
  warm-up, or what a larger context left) may hold anything, and the next reuse
  removes them. The central lemma is `ShiftAgrees`: a shift moves tokens and cells alike but
  for the last slot of the array. A skewed position is forgotten only with its cell,
  by `Keep`.
* `PromptIsEvaluated` -- `Whole`: kept tokens followed by the rest of the input
  are the prompt, in every mode but smart context.
* `EndIsEvaluated`, `LogitsAreFresh` -- `Fresh`: as long as the generation has
  evaluated nothing, there is input or a batch, so no token is sampled. `TakesOver`
  and the lemmas on the ends of texts (`DropIsEnd`, `ResumeWithin`) show that the
  input left by each way of reusing is a non-empty end of the prompt, for smart
  context as well.
* `CountExact` -- `Accounted`: while no abort has come in between, budget, sampled
  tokens and those not used because of a stop are together what was asked for, with
  the budget that has been loaded and not stored yet counted once.

`KcppServerProofs`:

* `TypeCorrect`; `HandlerLock` (inductive together with `TypeOK`);
* `CallLock`, `OwnAnswers`, `WholeStream`, `Implements`, which assume that no
  client leaves before its headers (`~HeadersMayFail`); without it `lock_lost`
  refutes the first. They rest on `CallsAwaited`: a call in progress has a
  handler that still waits for it. `OwnAnswers` adds that the native buffers of
  the call in progress hold its own tokens, `WholeStream` that what was sent is a
  front of what was generated and complete once the finished flag has been seen.
  `Implements` maps every step to a step of `RequestService` or a stutter.

`KvCacheProofs`, for caches of any size, any sequences and any batches:

* `TypeCorrect`, `UsedExact`, `Consistent` -- inductive together, with where the
  loops are: `UsedIsExact` is a statement about a sum that every operation keeps
  by itself, so each case is one lemma on how the set of used cells changes
  (`MadeCell`, `ClearedCell`, `EditStep`) and one on the count.
* `HolesFillable` -- `Compacting`: in front of the hole all cells are in use, and
  from `i1` on there are exactly as many in use as the hole still misses. It
  is inductive only with `UsedIsExact`, since the number of cells behind `used` is
  what the assertion in the code trusts.
* `SlotFound` -- `Searched`: the search has begun at some cell and has been through
  all starts from there to `head`, or round the end of the cache to `head`; no run of
  free cells begins where it has been. When `n_tested` reaches the size, that is
  everywhere.
* `StoreImplemented` -- every edit of the cells is the edit of the same name on the
  entries they hold, the steps of `llama_decode` before the last are stutters, and
  the last one stores and attends what the store does. Since edits are functions on
  single cells, most cases are instances of `MappedBy`; `Place` needs
  `CellsConsistent` for the rotation and that nothing in use lies at `n` or behind.
* `PositionsActed` -- each operation seen by position, as `ContextReuse` uses it.

`ComputeThreadsProofs`, for any number of threads, any chunk sizes and any graphs:

* `TypeCorrect`;
* `BarrierImplemented` -- `ggml_barrier` implements `PhaseBarrier`, also when a
  computation is given up. The inductive
  invariant relates each thread's position in the barrier and its `rounds` to the
  two counters: `n_barrier` counts exactly those that have arrived in the current
  round, and a thread that still spins has `passed_old` one behind the counter
  as soon as it may leave;
* `BufferIsStable` -- on top of it, `InStep`: threads that have completed equally
  many rounds are in the same part of the same node, and one round more means the
  next part. So all are at the same node whenever one multiplies;
* `InputsAreComplete`, `SuccessComplete` -- `Sharing`: what has been computed is
  everything but the chunks that are open. A chunk is open while the counter has
  not reached it (`Untaken`) or while exactly one thread holds it, as its own or
  taken from the counter (`Holds`). Every step either moves a chunk from the counter
  to a thread or closes the one chunk it computes; whoever leaves the barrier
  after a node finds that none is open (`OuterShares`), because those who stopped
  taking have seen the counter at the end. `ElementsDivide` says that chunks
  divide a result: each element is in one and only one, also when sizes do not divide
  evenly. That the counter is set in time rests on `InnerShares`: nobody leaves
  the barrier within a multiplication before thread 0 has come to it, and nobody
  is still taking chunks of an earlier node by then (`AtNode`).

`GraphAllocProofs`:

* `AllocatorExact` -- for the allocator under any requests. `AllocInv` adds to
  `SpaceIsExact` that no block reaches beyond `Limit` and that the last address stays
  free, so there is always a last block to fall back on.
* `GraphTypeCorrect`, `SpaceExact`, `PlansLeaveNothing` -- for every session of
  well-formed graphs. `GraphInv` relates the allocator to the walk: space is held for
  exactly the tensors marked `allocated`, all of them behind the walk and none a view
  (`SpaceMatches`); `n_children` is the number of reads that are still to come and
  `n_views` that of the views that are not read for the last time (`Counted`), so neither
  is counted down below zero; and whoever holds space is an output, will be read
  or viewed, or never is (`Needed`).
* `ValuesStayIntact` -- assuming `PlansServe`. `ValuesAreIntact` speaks of memory while
  nodes are computed, and what makes it true has happened long before, so
  `ValuesInv` goes all the way back. While a plan is made, what is still needed holds
  the space it was given (`DueAreHeld`), what is put down does not overlap what is
  needed after it is written (`ApartSoFar`), and all ends below `max_size`
  (`BelowMax`). The hard case is a tensor that takes over the space of a parent or of a
  view's root, and one given back and taken by another that is written later. A kept
  plan is then safe for every graph to come that `NeedsRealloc` would not replan
  (`KeptIsSafe`, `ToCome`; here `PlansServe` is needed, as edges are not
  compared). While it runs, every address of a tensor that is awaited holds its value
  (`Running`).

`TokenStreamProofs`, for any tokens, stop sequences and number of tokens:

* `StreamInvariance`, the inductive `StreamInv`, on which both others rest. Decoding and
  cutting are recursive functions; what the proofs need of them is that decoding keeps
  a text of whole characters and drops a broken end (`DecodeWhole`, `DecodeBroken`), that
  decoding in pieces drops what is split (`RemainsJoined`), and
  that cutting commutes with sending in pieces: the cut of a text in two parts is no
  longer than the first part, or the first part and the cut of the second (`CutJoined`).
  All follow from `TextRecursion`, that such a function exists, and induction over sets
  of numbers (`AllNumbers`). `StreamInv` marks where each token ends in `concat_output`
  (`Marks`) and says that no stop sequence is complete in front of the last token
  (`Unstopped`);
* `TextStaysWhole` -- for a text of whole characters that no token severs (`Sound`),
  `Streaming` names a front that has been decoded
  (`Decoded`): behind it, up to the tokens fetched, is nothing but the beginning of a
  character or a space in front of one, which then begins a token. That front is what
  has been sent, held back and put out (`Uncut`), or, once a stop sequence has come,
  what has been sent is a front of it no shorter than what cutting all of it leaves
  (`WasCut`). The property alone is not inductive, since a piece that is cut could be
  followed by another; that it is the last follows from `Unstopped`. `StopsAreRemoved` is
  refuted by `stop_sent`: what `TextStaysWhole` leaves open is that more is sent than
  the cut leaves;
* `StreamGivesAnswer` -- for any bytes. `Losing` says that what has been sent, held back and
  put out is what remains of a front of the text when it is decoded in pieces that end where
  tokens end (`Remains`), and that the rest, which is in the buffer, decodes to nothing or to
  a space. A character is missing only if one of those ends is between its two bytes
  (`SplitAway`).

`DrySamplerProofs`, for contexts of any length:

* `LinearScan` -- `Paid`: what has been compared is paid for by the right end of
  the box, which only grows, and by one failure each round.
* `ExactPenalties` -- `Exact`: each count so far is the limited length of the
  repeat at its place, and the box shows tokens that were found before
  (`Counted`, `Box`). The central case is `CopyPairExact`: a count that was
  limited may still be taken over, because what is limited is at least as long at
  the new place. `LimitIsBreak` says why searching for the last beginning
  of a restart sequence finds the last end, `PenalizeExact` why the counts and
  the repetitions have the same maxima. Least elements come from the
  well-foundedness of inclusion (`NumberSets`), since the library's induction over
  numbers takes an operator as a parameter.

Left to TLC:

* liveness under fairness (`GenerationEnds`, `ServedEventually`, `CallsEnd`,
  `CallsReturn`, `DecodeReturns`), for which the provers have no rules here;
* `ValuesAreIntact` beyond `PlansServe`, which is false there.

## What is not modelled, and why

Listed per component in `PROJECT.json`. Within the modelled components: recurrent
models (their own fast-forward rule and cache), legacy file formats, image
embeddings, all samplers but DRY (any token of `Sampled` may come), endpoints
that only read, the multiplayer, image and transcription endpoints, which
hold the same lock, OpenMP builds, several backends, and saved cache states. The
Horde worker is a client like any other whose hard part, lost updates of two
counters, concerns nothing that code or docs promise. Model loading is one
sequential chain of attempts before the server starts. The rest of the
repository is numeric kernels, vendored libraries, set-up code and web pages
without protocol state.

## Plan

1. *done* -- `ContextMatching`, `ContextReuse`, `KcppServer`, `RequestService`, proofs.
2. *done* -- `GgmlBarrier`, `ComputeThreads`, proofs; `KvCache`, `KvStore`;
   `DynAlloc`, `GraphAlloc`; `TokenStream`; `DrySampler`, proofs.
3. *done* -- `KvCacheProofs`, `GraphAllocProofs`; the rest of
   `ContextReuse` and `ComputeThreads`.
4. *done* -- `ValuesAreIntact` for sessions in which a graph has the shape its plan was
   made for.
5. *done* -- `TokenStreamProofs`: both invariants of `TokenStream`, for tokens of any bytes.
6. *done* -- `ContextReuse` with aborts and requests for no token under context shift, and in
   contexts too small for a reply.
7. The recurrent branch of context reuse; deferred aborts with two genkeys.

## Running

    tlc -workers 2 -config reuse.cfg MCContextReuse
    tlc -workers 2 -config server.cfg MCKcppServer
    tlc -workers 2 -config compute.cfg MCComputeThreads
    tlc -workers 2 -config kv.cfg MCKvCache
    tlc -workers 2 -config graph.cfg MCGraphAlloc
    tlc -workers 2 -config stream.cfg MCTokenStream
    tlc -workers 2 -config dry.cfg MCDrySampler
    tlapm TokenStreamProofs.tla

`PROJECT.json` names the module and the configuration of every run.
