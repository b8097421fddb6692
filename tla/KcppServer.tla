----------------------------- MODULE KcppServer -----------------------------
(***************************************************************************)
(* How koboldcpp.py serves text generation: HTTP threads that queue on the *)
(* lock modelbusy, the thread that runs generate() and the native call in  *)
(* it, the loop that streams tokens out while that call runs, and aborting *)
(* and polling clients, which take no lock.                                *)
(*                                                                         *)
(* A request has two positions: pc is its HTTP handler (do_POST and what   *)
(* it awaits), call is its run of generate().  The handler of a streamed   *)
(* request runs on while a worker thread runs generate().  Of a text only  *)
(* the owner of each token is kept.                                        *)
(***************************************************************************)
EXTENDS Integers, Sequences

CONSTANTS
  Requests,        \* generation requests, each sent once
  NoRequest,       \* nobody holds modelbusy
  StreamReqs,      \* the requests answered as a stream of events
  Keys,            \* genkeys clients may choose
  NoKey,           \* the empty genkey
  KeyOf,           \* the genkey of each request, or NoKey
  NoAbort,         \* no abort is being handled
  MultiUser,       \* --multiuser, 1 by default
  MaxTokens,       \* max_length of every request
  HeadersMayFail   \* a client may be gone before a stream's headers are written

ASSUME ServerAssumption ==
  /\ StreamReqs \subseteq Requests /\ NoRequest \notin Requests
  /\ NoKey \notin Keys /\ NoAbort \notin Keys \cup {NoKey}
  /\ KeyOf \in [Requests -> Keys \cup {NoKey}]
  /\ MultiUser \in Nat /\ MaxTokens \in Nat /\ HeadersMayFail \in BOOLEAN

VARIABLES
  modelbusy,            \* who holds the lock
  requestsinqueue,      \* waiting requests, counted without a lock
  currentusergenkey,    \* of the request that entered generate() last
  pendingabortkey,      \* one key whose next request is to be dropped
  generation_finished,  \* native: read by streams
  remaining_tokens,     \* native: set to 0 by aborts
  generated_tokens,     \* native: what streams read, filled for a stream only
  concat_output,        \* native: what pollers read
  reader_copy_res,      \* native: the text generate() returns a pointer to
  pc,                   \* each request's handler
  call,                 \* each request's run of generate()
  reqblocking,          \* the handler may wait for the lock
  loaded,               \* requestsinqueue as its += or -= has read it
  streamDone,           \* local to the stream loop
  returned,             \* what generate() has returned
  sent,                 \* what the client has been sent
  aborting              \* an abort request being handled: NoAbort, NoKey when it is
                        \* to stop the generation, or the key it is to remember

queueVars == <<modelbusy, requestsinqueue, reqblocking, loaded>>
keyVars == <<currentusergenkey, pendingabortkey>>
outputVars == <<generated_tokens, concat_output, reader_copy_res>>
nativeVars == <<generation_finished, remaining_tokens, outputVars>>
replyVars == <<streamDone, returned, sent>>
vars == <<queueVars, keyVars, nativeVars, pc, call, replyVars, aborting>>

Queueing == {"new", "count", "load", "store", "acquire"}
Streaming == {"headers", "poll", "send"}
Holding == {"dequeue", "take", "dispatch", "reply", "await", "hungup", "release"} \cup Streaming
NativeCall == {"budget", "sample"}
Calling == {"setkey", "pending", "clear", "enter", "read"} \cup NativeCall
Returned == {"generated", "dropped", "raised"}

-----------------------------------------------------------------------------
Init ==
  /\ modelbusy = NoRequest /\ requestsinqueue = 0
  /\ currentusergenkey = NoKey /\ pendingabortkey = NoKey
  /\ generation_finished = FALSE  \* a global of static storage, set nowhere else
  /\ remaining_tokens = 0
  /\ generated_tokens = <<>> /\ concat_output = <<>> /\ reader_copy_res = <<>>
  /\ pc = [r \in Requests |-> "new"]
  /\ call = [r \in Requests |-> "none"]
  /\ reqblocking = [r \in Requests |-> FALSE]
  /\ loaded = [r \in Requests |-> 0]
  /\ streamDone = [r \in Requests |-> FALSE]
  /\ returned = [r \in Requests |-> <<>>]
  /\ sent = [r \in Requests |-> <<>>]
  /\ aborting = NoAbort

\* Handler of r and call of r go on to their next position.
Goto(r, from, to) == pc[r] = from /\ pc' = [pc EXCEPT ![r] = to]
CallGoto(r, from, to) == call[r] = from /\ call' = [call EXCEPT ![r] = to]

-----------------------------------------------------------------------------
(* do_POST up to the lock and from the lock on.  Python may switch threads *)
(* between the load and the store of requestsinqueue += 1.  Local          *)
(* variables are cleared after their last use.                             *)

Arrive(r) ==
  /\ Goto(r, "new", "count")
  /\ UNCHANGED <<queueVars, keyVars, nativeVars, call, replyVars, aborting>>

QueueLimit == IF MultiUser > 1 THEN MultiUser - 1 ELSE 6

JoinQueue(r) ==
  LET wait == MultiUser > 0 /\ requestsinqueue < QueueLimit
  IN  /\ Goto(r, "count", IF wait THEN "load" ELSE "acquire")
      /\ reqblocking' = [reqblocking EXCEPT ![r] = wait]
      /\ UNCHANGED <<modelbusy, requestsinqueue, loaded, keyVars, nativeVars, call,
                     replyVars, aborting>>

LoadCount(r) ==
  /\ \/ Goto(r, "load", "store")
     \/ Goto(r, "dequeue", "take")
  /\ loaded' = [loaded EXCEPT ![r] = requestsinqueue]
  /\ UNCHANGED <<modelbusy, requestsinqueue, reqblocking, keyVars, nativeVars, call,
                 replyVars, aborting>>

StoreMore(r) ==
  /\ Goto(r, "store", "acquire")
  /\ requestsinqueue' = loaded[r] + 1
  /\ loaded' = [loaded EXCEPT ![r] = 0]
  /\ UNCHANGED <<modelbusy, reqblocking, keyVars, nativeVars, call, replyVars, aborting>>

\* Mutant: without the floor.
StoreOneLess(r) ==
  /\ Goto(r, "take", "dispatch")
  /\ requestsinqueue' = loaded[r] - 1
  /\ loaded' = [loaded EXCEPT ![r] = 0]
  /\ UNCHANGED <<modelbusy, reqblocking, keyVars, nativeVars, call, replyVars, aborting>>

StoreLess(r) ==
  /\ Goto(r, "take", "dispatch")
  /\ requestsinqueue' = IF loaded[r] > 0 THEN loaded[r] - 1 ELSE 0
  /\ loaded' = [loaded EXCEPT ![r] = 0]
  /\ UNCHANGED <<modelbusy, reqblocking, keyVars, nativeVars, call, replyVars, aborting>>

\* Mutant: a request that may not wait goes on without the lock.
AcquireRegardless(r) ==
  /\ modelbusy = NoRequest \/ ~reqblocking[r]
  /\ modelbusy' = r
  /\ Goto(r, "acquire", IF reqblocking[r] THEN "dequeue" ELSE "dispatch")
  /\ reqblocking' = [reqblocking EXCEPT ![r] = FALSE]
  /\ UNCHANGED <<requestsinqueue, loaded, keyVars, nativeVars, call, replyVars, aborting>>

Acquire(r) ==
  /\ modelbusy = NoRequest
  /\ modelbusy' = r
  /\ Goto(r, "acquire", IF reqblocking[r] THEN "dequeue" ELSE "dispatch")
  /\ reqblocking' = [reqblocking EXCEPT ![r] = FALSE]
  /\ UNCHANGED <<requestsinqueue, loaded, keyVars, nativeVars, call, replyVars, aborting>>

\* Mutant: the answer 503 is given inside the try block that releases the lock.
TurnAwayAndRelease(r) ==
  /\ modelbusy # NoRequest /\ ~reqblocking[r]
  /\ Goto(r, "acquire", "release")
  /\ UNCHANGED <<queueVars, keyVars, nativeVars, call, replyVars, aborting>>

\* 503, "Server is busy; please try again later."
TurnAway(r) ==
  /\ modelbusy # NoRequest /\ ~reqblocking[r]
  /\ Goto(r, "acquire", "done")
  /\ UNCHANGED <<queueVars, keyVars, nativeVars, call, replyVars, aborting>>

\* Wrong password, a body that is no JSON, an unknown path; also image generation
\* and transcription, which hold the lock but do not come here.
EndEarly(r) ==
  /\ Goto(r, "dispatch", "release")
  /\ UNCHANGED <<queueVars, keyVars, nativeVars, call, replyVars, aborting>>

\* handle_request: the task of generate_text is scheduled first and for a stream
\* goes on in a worker thread; otherwise it runs in this one.
Dispatch(r) ==
  /\ Goto(r, "dispatch", IF r \in StreamReqs THEN "headers" ELSE "await")
  /\ CallGoto(r, "none", "setkey")
  /\ UNCHANGED <<queueVars, keyVars, nativeVars, replyVars, aborting>>

\* Mutant: the handler does not wait for the task of generate_text.
AwaitStreamOnly(r) ==
  /\ \/ r \in StreamReqs /\ (Goto(r, "await", "release") \/ Goto(r, "hungup", "release"))
     \/ r \notin StreamReqs /\ Goto(r, "await", "reply")
  /\ UNCHANGED <<queueVars, keyVars, nativeVars, call, replyVars, aborting>>

\* Both tasks are over.
Await(r) ==
  /\ call[r] \in Returned
  /\ \/ r \in StreamReqs /\ (Goto(r, "await", "release") \/ Goto(r, "hungup", "release"))
     \/ r \notin StreamReqs /\ Goto(r, "await", "reply")
  /\ UNCHANGED <<queueVars, keyVars, nativeVars, call, replyVars, aborting>>

Reply(r) ==
  /\ Goto(r, "reply", "release")
  /\ returned' = [returned EXCEPT ![r] = <<>>]
  /\ \/ sent' = [sent EXCEPT ![r] = returned[r]] /\ UNCHANGED remaining_tokens
     \/ remaining_tokens' = 0 /\ UNCHANGED sent  \* the client is gone
  /\ UNCHANGED <<queueVars, keyVars, generation_finished, outputVars, call,
                 streamDone, aborting>>

\* finally: modelbusy.release()
Release(r) ==
  /\ Goto(r, "release", "done")
  /\ modelbusy' = NoRequest
  /\ UNCHANGED <<requestsinqueue, loaded, reqblocking, keyVars, nativeVars, call,
                 replyVars, aborting>>

-----------------------------------------------------------------------------
(* handle_sse_stream                                                       *)

WriteHeaders(r) ==
  /\ Goto(r, "headers", "poll")
  /\ UNCHANGED <<queueVars, keyVars, nativeVars, call, replyVars, aborting>>

\* Mutant: the handler leaves without releasing the lock.
HeadersFailKeepLock(r) ==
  /\ HeadersMayFail
  /\ Goto(r, "headers", "done")
  /\ UNCHANGED <<queueVars, keyVars, nativeVars, call, replyVars, aborting>>

\* Mutant: the worker is lost with the handler.
HeadersFailLoseCall(r) ==
  /\ HeadersMayFail
  /\ Goto(r, "headers", "release")
  /\ call' = [call EXCEPT ![r] = "none"]
  /\ UNCHANGED <<queueVars, keyVars, nativeVars, replyVars, aborting>>

\* The write is outside the try block of the loop: asyncio.gather raises, the
\* handler aborts (a reset connection only prints) and leaves, and the worker
\* thread goes on by itself.
HeadersFail(r) ==
  /\ HeadersMayFail
  /\ Goto(r, "headers", "release")
  /\ remaining_tokens' \in {0, remaining_tokens}
  /\ UNCHANGED <<queueVars, keyVars, generation_finished, outputVars, call,
                 replyVars, aborting>>

\* Mutant: the stream loop does not sleep first.
NoSleep(r) == TRUE

\* "anti race condition, prevent check from overtaking generate": after a sleep of
\* 0.35 s the call is taken to have got as far as clearing generation_finished, or
\* to have ended the stream by raising.
CallHasBegun(r) == call[r] \notin {"setkey", "pending", "clear", "enter", "raised"}

PollFinished(r) ==
  /\ CallHasBegun(r)
  /\ Goto(r, "poll", "send")
  /\ streamDone' = [streamDone EXCEPT ![r] = generation_finished]
  /\ UNCHANGED <<queueVars, keyVars, nativeVars, call, returned, sent, aborting>>

Unsent(r) == SubSeq(generated_tokens, Len(sent[r]) + 1, Len(generated_tokens))

SendTokens(r) ==
  /\ Goto(r, "send", IF streamDone[r] THEN "await" ELSE "poll")
  /\ sent' = [sent EXCEPT ![r] = @ \o Unsent(r)]
  /\ streamDone' = [streamDone EXCEPT ![r] = FALSE]
  /\ UNCHANGED <<queueVars, keyVars, nativeVars, call, returned, aborting>>

\* The client is gone: abort, then wait for the worker all the same.
SendFails(r) ==
  /\ Goto(r, "send", "hungup")
  /\ streamDone[r] \/ Unsent(r) # <<>>
  /\ remaining_tokens' = 0
  /\ streamDone' = [streamDone EXCEPT ![r] = FALSE]
  /\ UNCHANGED <<queueVars, keyVars, generation_finished, outputVars, call, returned,
                 sent, aborting>>

\* generate() has raised: gather raises too and the stream is cancelled in its sleep.
StreamEnds(r) ==
  /\ call[r] = "raised"
  /\ Goto(r, "poll", "release")
  /\ UNCHANGED <<queueVars, keyVars, nativeVars, call, replyVars, aborting>>

-----------------------------------------------------------------------------
(* generate() and gpttype_generate (of which ContextReuse has the detail)  *)

\* A parameter that is no number raises before anything global is written.
SetKey(r) ==
  /\ \/ /\ CallGoto(r, "setkey", "pending")
        /\ currentusergenkey' = KeyOf[r]
     \/ CallGoto(r, "setkey", "raised") /\ UNCHANGED currentusergenkey
  /\ UNCHANGED <<queueVars, pendingabortkey, nativeVars, pc, replyVars, aborting>>

TestPending(r) ==
  LET drop == pendingabortkey # NoKey /\ pendingabortkey = KeyOf[r]
  IN  /\ CallGoto(r, "pending", IF drop THEN "clear" ELSE "enter")
      /\ UNCHANGED <<queueVars, keyVars, nativeVars, pc, replyVars, aborting>>

ClearPending(r) ==
  /\ CallGoto(r, "clear", "dropped")
  /\ pendingabortkey' = NoKey
  /\ UNCHANGED <<queueVars, currentusergenkey, nativeVars, pc, replyVars, aborting>>

NativeEnter(r) ==
  /\ CallGoto(r, "enter", "budget")
  /\ generation_finished' = FALSE
  /\ generated_tokens' = <<>> /\ concat_output' = <<>> /\ reader_copy_res' = <<>>
  /\ UNCHANGED <<queueVars, keyVars, remaining_tokens, pc, replyVars, aborting>>

NativeBudget(r) ==
  /\ CallGoto(r, "budget", "sample")
  /\ remaining_tokens' = MaxTokens
  /\ UNCHANGED <<queueVars, keyVars, generation_finished, outputVars, pc, replyVars,
                 aborting>>

\* A token is sampled; it may complete a stop sequence.
NativeSample(r) ==
  /\ call[r] = "sample"
  /\ remaining_tokens > 0
  /\ remaining_tokens' \in {remaining_tokens - 1, 0}
  /\ generated_tokens' = IF r \in StreamReqs THEN Append(generated_tokens, r)
                                             ELSE generated_tokens
  /\ concat_output' = Append(concat_output, r)
  /\ UNCHANGED <<queueVars, keyVars, generation_finished, reader_copy_res, pc, call,
                 replyVars, aborting>>

NativeFinish(r) ==
  /\ CallGoto(r, "sample", "read")
  /\ remaining_tokens <= 0
  /\ generation_finished' = TRUE
  /\ reader_copy_res' = concat_output
  /\ UNCHANGED <<queueVars, keyVars, remaining_tokens, generated_tokens, concat_output,
                 pc, replyVars, aborting>>

\* An evaluation failed: status 0 and no text.
NativeFails(r) ==
  /\ CallGoto(r, "sample", "generated")
  /\ remaining_tokens > 0
  /\ generation_finished' = TRUE
  /\ UNCHANGED <<queueVars, keyVars, remaining_tokens, outputVars, pc, replyVars,
                 aborting>>

\* The text behind the returned pointer is decoded after the call.
ReadResult(r) ==
  /\ CallGoto(r, "read", "generated")
  /\ returned' = [returned EXCEPT ![r] = reader_copy_res]
  /\ UNCHANGED <<queueVars, keyVars, nativeVars, pc, streamDone, sent, aborting>>

-----------------------------------------------------------------------------
(* Aborting and polling clients                                            *)

\* One abort at a time is between its test and its effect (bound).
AbortTests(k) ==
  LET now == IF k = NoKey THEN requestsinqueue = 0 ELSE k = currentusergenkey
  IN  /\ aborting = NoAbort
      /\ now \/ (k # NoKey /\ requestsinqueue > 0)
      /\ aborting' = IF now THEN NoKey ELSE k
      /\ UNCHANGED <<queueVars, keyVars, nativeVars, pc, call, replyVars>>

AbortStops ==
  /\ aborting = NoKey
  /\ aborting' = NoAbort
  /\ remaining_tokens' = 0
  /\ UNCHANGED <<queueVars, keyVars, generation_finished, outputVars, pc, call,
                 replyVars>>

AbortRemembers ==
  /\ aborting \in Keys
  /\ aborting' = NoAbort
  /\ pendingabortkey' = aborting
  /\ UNCHANGED <<queueVars, currentusergenkey, nativeVars, pc, call, replyVars>>

-----------------------------------------------------------------------------
Handler(r) ==
  \/ JoinQueue(r) \/ LoadCount(r) \/ StoreMore(r) \/ StoreLess(r)
  \/ Acquire(r) \/ TurnAway(r) \/ EndEarly(r) \/ Dispatch(r)
  \/ WriteHeaders(r) \/ HeadersFail(r) \/ PollFinished(r) \/ SendTokens(r)
  \/ SendFails(r) \/ StreamEnds(r) \/ Await(r) \/ Reply(r) \/ Release(r)

Call(r) ==
  \/ SetKey(r) \/ TestPending(r) \/ ClearPending(r)
  \/ NativeEnter(r) \/ NativeBudget(r) \/ NativeSample(r) \/ NativeFinish(r)
  \/ NativeFails(r) \/ ReadResult(r)

Client ==
  \/ \E r \in Requests : Arrive(r)
  \/ \E k \in Keys \cup {NoKey} : AbortTests(k)
  \/ AbortStops \/ AbortRemembers

Next == Client \/ \E r \in Requests : Handler(r) \/ Call(r)

Spec == Init /\ [][Next]_vars

\* Every thread of the server keeps running; nobody has to send or abort anything.
FairSpec == Spec /\ \A r \in Requests : WF_vars(Handler(r)) /\ WF_vars(Call(r))

-----------------------------------------------------------------------------
(* Properties                                                              *)

Texts == Seq(Requests)

TypeOK ==
  /\ modelbusy \in Requests \cup {NoRequest}
  /\ requestsinqueue \in Nat
  /\ {currentusergenkey, pendingabortkey} \subseteq Keys \cup {NoKey}
  /\ generation_finished \in BOOLEAN
  /\ remaining_tokens \in Nat
  /\ {generated_tokens, concat_output, reader_copy_res} \subseteq Texts
  /\ pc \in [Requests -> Queueing \cup Holding \cup {"done"}]
  /\ call \in [Requests -> {"none"} \cup Calling \cup Returned]
  /\ reqblocking \in [Requests -> BOOLEAN]
  /\ loaded \in [Requests -> Nat]
  /\ streamDone \in [Requests -> BOOLEAN]
  /\ {returned, sent} \subseteq [Requests -> Texts]
  /\ aborting \in Keys \cup {NoKey, NoAbort}

\* modelbusy is held by the handler that passed it, until it releases it, and by
\* no other, whichever way the handler leaves.
LockCoversHandler ==
  \A r \in Requests : pc[r] \in Holding <=> modelbusy = r

\* A request is inside generate() only while its handler holds modelbusy: the
\* native code, which has one context and one set of output buffers for all,
\* relies on it.
LockCoversCall ==
  \A r \in Requests : call[r] \in Calling => modelbusy = r

\* The answer to a request that is not streamed holds no other request's tokens,
\* although the text is read from a shared buffer after the native call.
AnswersAreOwn ==
  \A r \in Requests \ StreamReqs :
    \A i \in DOMAIN sent[r] : sent[r][i] = r

\* A stream that ended by itself has sent the whole text its call has generated:
\* the loop starts after the call has, and reads the finished flag before it
\* counts the tokens.
StreamIsComplete ==
  \A r \in StreamReqs :
    pc[r] = "await" /\ call[r] = "generated" => sent[r] = concat_output

\* Stream s was dropped by an abort that came in advance, its loop waits for
\* generation_finished, and no generation will set that: none has ended since the
\* process began, none is under way, and s holds the lock.
Stuck(s) ==
  /\ call[s] = "dropped" /\ pc[s] \in {"poll", "send"}
  /\ ~generation_finished /\ \A r \in Requests : call[r] \notin Calling

\* Every request that arrives is answered or turned away, whoever hangs up and
\* whatever is aborted, with one exception: a stream that is the first request to
\* get as far as generate() and is dropped there by an abort that came in advance
\* is never answered, and neither is a request that waits for it.
ServedEventually ==
  \A r \in Requests :
    pc[r] = "count" ~> pc[r] = "done" \/ \E s \in StreamReqs : Stuck(s)

\* Every call of generate() returns, also one whose handler is gone and which
\* shares remaining_tokens with the next.
CallsEnd ==
  \A r \in Requests : call[r] = "setkey" ~> call[r] \in Returned

\* Requests are "queued and handled in sequence": no two of them are in the
\* native call.
HandledInSequence ==
  \A r, s \in Requests : call[r] \in NativeCall /\ call[s] \in NativeCall => r = s

-----------------------------------------------------------------------------
(* The abstract service: see RequestService                                *)

StatusOf(handler, run) ==
  IF run \in NativeCall THEN "generating"
  ELSE IF handler = "done" THEN "closed"
  ELSE IF run \in {"read", "generated"} THEN "generated"
  ELSE IF handler = "new" THEN "unsent" ELSE "waiting"

status == [r \in Requests |-> StatusOf(pc[r], call[r])]

Service == INSTANCE RequestService WITH status <- status
ServiceSpec == Service!Spec
=============================================================================
