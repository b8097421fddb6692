-------------------------- MODULE KcppServerProofs --------------------------
(***************************************************************************)
(* Proofs about KcppServer, for any number of requests, keys and tokens:   *)
(* its variables keep their types, modelbusy is held by the handlers that  *)
(* are between their acquire and their release, and, as long as no client  *)
(* leaves before the headers of its stream are written, generate() runs    *)
(* under the lock only, no answer holds another request's tokens, and the  *)
(* server implements RequestService.                                       *)
(***************************************************************************)
EXTENDS KcppServer, TLAPS

-----------------------------------------------------------------------------
(* Types                                                                   *)

\* Texts are closed under the operations of the model.
LEMMA EmptyText == <<>> \in Texts
  BY DEF Texts

LEMMA AppendToText == \A t \in Texts, r \in Requests : Append(t, r) \in Texts
  BY DEF Texts

LEMMA UnsentIsText ==
  ASSUME NEW t \in Texts, NEW u \in Texts
  PROVE  u \o SubSeq(t, Len(u) + 1, Len(t)) \in Texts
<1>1. SubSeq(t, Len(u) + 1, Len(t)) \in Seq(Requests)
  BY DEF Texts
<1> QED
  BY <1>1 DEF Texts

\* The variables keep their types: every position a thread takes is one of those
\* listed, and the unlocked counter never becomes negative.
THEOREM TypeCorrect == Spec => []TypeOK
<1>1. Init => TypeOK
  <2> SUFFICES ASSUME Init PROVE TypeOK
    OBVIOUS
  <2>1. {generated_tokens, concat_output, reader_copy_res} \subseteq Texts
    BY EmptyText DEF Init
  <2>2. {returned, sent} \subseteq [Requests -> Texts]
    BY EmptyText DEF Init
  <2> QED
    BY <2>1, <2>2, ServerAssumption DEF Init, TypeOK, Queueing
<1>2. TypeOK /\ [Next]_vars => TypeOK'
  <2> SUFFICES ASSUME TypeOK, [Next]_vars PROVE TypeOK'
    OBVIOUS
  <2> USE ServerAssumption DEF TypeOK, Goto, CallGoto, queueVars, keyVars,
        nativeVars, outputVars, replyVars
  <2>1. ASSUME NEW r \in Requests, Arrive(r) PROVE TypeOK'
    BY <2>1 DEF Arrive, Queueing
  <2>2. ASSUME NEW k \in Keys \cup {NoKey}, AbortTests(k) PROVE TypeOK'
    BY <2>2 DEF AbortTests
  <2>3. CASE AbortStops
    BY <2>3 DEF AbortStops
  <2>4. CASE AbortRemembers
    BY <2>4 DEF AbortRemembers
  <2>5. ASSUME NEW r \in Requests, Handler(r) PROVE TypeOK'
    <3>1. CASE JoinQueue(r)
      BY <3>1 DEF JoinQueue, Queueing
    <3>2. CASE LoadCount(r)
      BY <3>2 DEF LoadCount, Queueing, Holding
    <3>3. CASE StoreMore(r)
      BY <3>3 DEF StoreMore, Queueing
    <3>4. CASE StoreLess(r)
      BY <3>4 DEF StoreLess, Holding
    <3>5. CASE Acquire(r)
      BY <3>5 DEF Acquire, Holding
    <3>6. CASE TurnAway(r)
      BY <3>6 DEF TurnAway
    <3>7. CASE EndEarly(r)
      BY <3>7 DEF EndEarly, Holding
    <3>8. CASE Dispatch(r)
      BY <3>8 DEF Dispatch, Holding, Streaming, Calling
    <3>9. CASE WriteHeaders(r)
      BY <3>9 DEF WriteHeaders, Holding, Streaming
    <3>10. CASE HeadersFail(r)
      BY <3>10 DEF HeadersFail, Holding
    <3>11. CASE PollFinished(r)
      BY <3>11 DEF PollFinished, Holding, Streaming
    <3>12. CASE SendTokens(r)
      <4>1. sent[r] \o Unsent(r) \in Texts
        BY UnsentIsText DEF Unsent
      <4>2. sent' \in [Requests -> Texts]
        BY <3>12, <4>1 DEF SendTokens
      <4> QED
        BY <3>12, <4>2 DEF SendTokens, Holding, Streaming
    <3>13. CASE SendFails(r)
      BY <3>13 DEF SendFails, Holding
    <3>14. CASE StreamEnds(r)
      BY <3>14 DEF StreamEnds, Holding
    <3>15. CASE Await(r)
      BY <3>15 DEF Await, Holding
    <3>16. CASE Reply(r)
      <4>1. {returned, sent}' \subseteq [Requests -> Texts]
        BY <3>16, EmptyText DEF Reply
      <4> QED
        BY <3>16, <4>1 DEF Reply, Holding
    <3>17. CASE Release(r)
      BY <3>17 DEF Release
    <3> QED
      BY <2>5, <3>1, <3>2, <3>3, <3>4, <3>5, <3>6, <3>7, <3>8, <3>9, <3>10, <3>11,
         <3>12, <3>13, <3>14, <3>15, <3>16, <3>17 DEF Handler
  <2>6. ASSUME NEW r \in Requests, Call(r) PROVE TypeOK'
    <3>1. CASE SetKey(r)
      BY <3>1 DEF SetKey, Calling, Returned
    <3>2. CASE TestPending(r)
      BY <3>2 DEF TestPending, Calling
    <3>3. CASE ClearPending(r)
      BY <3>3 DEF ClearPending, Returned
    <3>4. CASE NativeEnter(r)
      BY <3>4, EmptyText DEF NativeEnter, Calling, NativeCall
    <3>5. CASE NativeBudget(r)
      BY <3>5 DEF NativeBudget, Calling, NativeCall
    <3>6. CASE NativeSample(r)
      BY <3>6, AppendToText DEF NativeSample
    <3>7. CASE NativeFinish(r)
      BY <3>7 DEF NativeFinish, Calling
    <3>8. CASE NativeFails(r)
      BY <3>8 DEF NativeFails, Returned
    <3>9. CASE ReadResult(r)
      BY <3>9 DEF ReadResult, Returned
    <3> QED
      BY <2>6, <3>1, <3>2, <3>3, <3>4, <3>5, <3>6, <3>7, <3>8, <3>9 DEF Call
  <2>7. CASE UNCHANGED vars
    BY <2>7 DEF vars
  <2> QED
    BY <2>1, <2>2, <2>3, <2>4, <2>5, <2>6, <2>7 DEF Next, Client
<1> QED
  BY <1>1, <1>2, PTL DEF Spec

-----------------------------------------------------------------------------
(* The lock                                                                *)

\* Whichever way a handler leaves, it releases the lock it holds and no other.
\* LockCoversHandler is inductive by itself.
THEOREM HandlerLock == Spec => []LockCoversHandler
<1>1. Init => LockCoversHandler
  BY ServerAssumption DEF Init, LockCoversHandler, Holding, Streaming
<1>2. TypeOK /\ LockCoversHandler /\ [Next]_vars => LockCoversHandler'
  <2> SUFFICES ASSUME TypeOK, LockCoversHandler, [Next]_vars PROVE LockCoversHandler'
    OBVIOUS
  <2> USE DEF TypeOK, LockCoversHandler, Goto, Holding, Streaming
  <2>1. CASE Client
    BY <2>1 DEF Client, Arrive, AbortTests, AbortStops, AbortRemembers, queueVars
  <2>2. ASSUME NEW r \in Requests, Acquire(r) PROVE LockCoversHandler'
    BY <2>2, ServerAssumption DEF Acquire
  <2>3. ASSUME NEW r \in Requests, Release(r) PROVE LockCoversHandler'
    BY <2>3, ServerAssumption DEF Release
  <2>4. ASSUME NEW r \in Requests, Handler(r), ~Acquire(r), ~Release(r)
        PROVE  LockCoversHandler'
    <3>1. UNCHANGED modelbusy
      BY <2>4 DEF Handler, JoinQueue, LoadCount, StoreMore, StoreLess, TurnAway,
        EndEarly, Dispatch, WriteHeaders, HeadersFail, PollFinished, SendTokens,
        SendFails, StreamEnds, Await, Reply, queueVars
    <3>2. \E from, to \in Queueing \cup Holding \cup {"done"} :
            Goto(r, from, to) /\ (from \in Holding <=> to \in Holding)
      BY <2>4 DEF Handler, JoinQueue, LoadCount, StoreMore, StoreLess, TurnAway,
        EndEarly, Dispatch, WriteHeaders, HeadersFail, PollFinished, SendTokens,
        SendFails, StreamEnds, Await, Reply, Queueing
    <3> QED
      BY <3>1, <3>2
  <2>5. ASSUME NEW r \in Requests, Call(r) PROVE LockCoversHandler'
    BY <2>5 DEF Call, SetKey, TestPending, ClearPending, NativeEnter, NativeBudget,
      NativeSample, NativeFinish, NativeFails, ReadResult, queueVars
  <2>6. CASE UNCHANGED vars
    BY <2>6 DEF vars, queueVars
  <2> QED
    BY <2>1, <2>2, <2>3, <2>4, <2>5, <2>6 DEF Next
<1> QED
  BY <1>1, <1>2, TypeCorrect, PTL DEF Spec

-----------------------------------------------------------------------------
(* The calls of generate()                                                 *)

\* A handler that has not dispatched its request has no call, and one whose call
\* runs is waiting for it or streaming.  Streamed requests are streamed, others get
\* a reply.
CallsAreAwaited ==
  \A r \in Requests :
    /\ pc[r] \in Queueing \cup {"dequeue", "take", "dispatch"} => call[r] = "none"
    /\ call[r] \in Calling => pc[r] \in {"await", "hungup"} \cup Streaming
    /\ pc[r] \in Streaming => r \in StreamReqs /\ call[r] # "none"
    /\ pc[r] = "reply" => r \notin StreamReqs

LEMMA CallsAwaited == ASSUME ~HeadersMayFail PROVE Spec => []CallsAreAwaited
<1>1. Init => CallsAreAwaited
  <2> SUFFICES ASSUME Init, NEW r \in Requests
               PROVE  call[r] = "none" /\ call[r] \notin Calling /\ pc[r] \notin Streaming \cup {"reply"}
    BY DEF CallsAreAwaited
  <2>1. pc[r] = "new" /\ call[r] = "none"
    BY DEF Init
  <2> QED
    BY <2>1 DEF Calling, NativeCall, Streaming
<1>2. TypeOK /\ CallsAreAwaited /\ [Next]_vars => CallsAreAwaited'
  <2> SUFFICES ASSUME TypeOK, CallsAreAwaited, [Next]_vars
               PROVE  CallsAreAwaited'
    OBVIOUS
  <2> USE DEF TypeOK, CallsAreAwaited, Goto, CallGoto, Queueing, Streaming, Calling,
        NativeCall, Returned
  <2>1. CASE Client
    BY <2>1 DEF Client, Arrive, AbortTests, AbortStops, AbortRemembers
  <2>2. ASSUME NEW r \in Requests, Dispatch(r) PROVE CallsAreAwaited'
    BY <2>2 DEF Dispatch
  <2>3. ASSUME NEW r \in Requests, Handler(r), ~Dispatch(r) PROVE CallsAreAwaited'
    <3>1. UNCHANGED call
      BY <2>3 DEF Handler, JoinQueue, LoadCount, StoreMore, StoreLess, Acquire, TurnAway,
        EndEarly, WriteHeaders, HeadersFail, PollFinished, SendTokens, SendFails,
        StreamEnds, Await, Reply, Release
    <3>2. CASE pc[r] \in Queueing \cup {"dequeue", "take", "dispatch"}
      BY <2>3, <3>1, <3>2 DEF Handler, JoinQueue, LoadCount, StoreMore, StoreLess,
        Acquire, TurnAway, EndEarly, WriteHeaders, HeadersFail, PollFinished,
        SendTokens, SendFails, StreamEnds, Await, Reply, Release
    <3>3. CASE pc[r] \notin Queueing \cup {"dequeue", "take", "dispatch"}
      BY <2>3, <3>1, <3>3 DEF Handler, JoinQueue, LoadCount, StoreMore, StoreLess,
        Acquire, TurnAway, EndEarly, WriteHeaders, HeadersFail, PollFinished,
        SendTokens, SendFails, StreamEnds, Await, Reply, Release
    <3> QED
      BY <3>2, <3>3
  <2>4. ASSUME NEW r \in Requests, Call(r) PROVE CallsAreAwaited'
    BY <2>4 DEF Call, SetKey, TestPending, ClearPending, NativeEnter, NativeBudget,
      NativeSample, NativeFinish, NativeFails, ReadResult
  <2>5. CASE UNCHANGED vars
    BY <2>5 DEF vars
  <2> QED
    BY <2>1, <2>2, <2>3, <2>4, <2>5 DEF Next
<1> QED
  BY <1>1, <1>2, TypeCorrect, PTL DEF Spec

\* As long as every stream gets its headers out, generate() runs under the lock.
THEOREM CallLock == ASSUME ~HeadersMayFail PROVE Spec => []LockCoversCall
<1>1. LockCoversHandler /\ CallsAreAwaited => LockCoversCall
  BY DEF LockCoversHandler, CallsAreAwaited, LockCoversCall, Holding
<1> QED
  BY <1>1, HandlerLock, CallsAwaited, PTL

-----------------------------------------------------------------------------
(* Whose text an answer holds                                              *)

Owned(text, r) == \A i \in DOMAIN text : text[i] = r

\* While a request is in the native call the output is its own, and what it will
\* read, has read and has been sent is its own.
TextsAreOwn ==
  \A r \in Requests :
    /\ call[r] \in NativeCall => Owned(concat_output, r)
    /\ call[r] = "read" => Owned(reader_copy_res, r)
    /\ Owned(returned[r], r)
    /\ r \notin StreamReqs => Owned(sent[r], r)

LEMMA OwnedAppend ==
  ASSUME NEW t \in Texts, NEW r \in Requests, Owned(t, r)
  PROVE  Owned(Append(t, r), r)
BY DEF Owned, Texts

LEMMA OwnedEmpty == \A r : Owned(<<>>, r)
BY DEF Owned

\* An answer holds no other request's tokens.
THEOREM OwnAnswers == ASSUME ~HeadersMayFail PROVE Spec => []AnswersAreOwn
<1>1. Init => TextsAreOwn
  BY OwnedEmpty DEF Init, TextsAreOwn, NativeCall
<1>2. /\ TypeOK /\ LockCoversCall /\ CallsAreAwaited /\ TextsAreOwn
      /\ [Next]_vars
      => TextsAreOwn'
  <2> SUFFICES ASSUME TypeOK, LockCoversCall, CallsAreAwaited, TextsAreOwn, [Next]_vars
               PROVE  TextsAreOwn'
    OBVIOUS
  <2>0. \A r, s \in Requests : call[r] \in Calling /\ call[s] \in Calling => r = s
    BY DEF LockCoversCall
  <2> USE DEF TypeOK, TextsAreOwn, Goto, CallGoto, nativeVars, outputVars, replyVars
  <2>1. CASE Client
    BY <2>1 DEF Client, Arrive, AbortTests, AbortStops, AbortRemembers
  <2>2. ASSUME NEW r \in Requests, SendTokens(r) PROVE TextsAreOwn'
    <3>1. r \in StreamReqs
      BY <2>2 DEF SendTokens, CallsAreAwaited, Streaming
    <3> QED
      BY <2>2, <3>1 DEF SendTokens
  <2>3. ASSUME NEW r \in Requests, Reply(r) PROVE TextsAreOwn'
    BY <2>3, OwnedEmpty DEF Reply
  <2>4. ASSUME NEW r \in Requests, Dispatch(r) PROVE TextsAreOwn'
    BY <2>4 DEF Dispatch, NativeCall
  <2>5. ASSUME NEW r \in Requests, Handler(r), ~SendTokens(r), ~Reply(r), ~Dispatch(r)
        PROVE  TextsAreOwn'
    <3>1. UNCHANGED <<outputVars, call, returned, sent>>
      BY <2>5 DEF Handler, JoinQueue, LoadCount, StoreMore, StoreLess, Acquire, TurnAway,
        EndEarly, WriteHeaders, HeadersFail, PollFinished, SendFails, StreamEnds, Await,
        Release
    <3> QED
      BY <3>1
  <2>6. ASSUME NEW r \in Requests, NativeEnter(r) PROVE TextsAreOwn'
    <3>1. \A s \in Requests \ {r} : call[s] \notin NativeCall \cup {"read"}
      BY <2>0, <2>6 DEF NativeEnter, Calling
    <3> QED
      BY <2>6, <3>1, OwnedEmpty DEF NativeEnter, NativeCall
  <2>7. ASSUME NEW r \in Requests, NativeSample(r) PROVE TextsAreOwn'
    <3>1. \A s \in Requests \ {r} : call[s] \notin NativeCall
      BY <2>0, <2>7 DEF NativeSample, Calling, NativeCall
    <3>2. Owned(concat_output', r)
      BY <2>7, OwnedAppend DEF NativeSample, NativeCall
    <3> QED
      BY <2>7, <3>1, <3>2 DEF NativeSample, NativeCall
  <2>8. ASSUME NEW r \in Requests, NativeFinish(r) PROVE TextsAreOwn'
    <3>1. \A s \in Requests \ {r} : call[s] # "read"
      BY <2>0, <2>8 DEF NativeFinish, Calling, NativeCall
    <3> QED
      BY <2>8, <3>1 DEF NativeFinish, NativeCall
  <2>9. ASSUME NEW r \in Requests, ReadResult(r) PROVE TextsAreOwn'
    BY <2>9 DEF ReadResult, NativeCall
  <2>10. ASSUME NEW r \in Requests,
                \/ SetKey(r) \/ TestPending(r) \/ ClearPending(r)
                \/ NativeBudget(r) \/ NativeFails(r)
         PROVE  TextsAreOwn'
    BY <2>10 DEF SetKey, TestPending, ClearPending, NativeBudget, NativeFails, NativeCall
  <2>11. CASE UNCHANGED vars
    BY <2>11 DEF vars
  <2> QED
    BY <2>1, <2>2, <2>3, <2>4, <2>5, <2>6, <2>7, <2>8, <2>9, <2>10, <2>11
       DEF Next, Call
<1>3. TextsAreOwn => AnswersAreOwn
  BY ServerAssumption DEF TextsAreOwn, AnswersAreOwn, Owned
<1> QED
  BY <1>1, <1>2, <1>3, TypeCorrect, CallLock, CallsAwaited, PTL DEF Spec

-----------------------------------------------------------------------------
(* What a stream has sent                                                  *)

StartsWith(t, u) == Len(u) <= Len(t) /\ \A i \in 1..Len(u) : u[i] = t[i]

LEMMA EmptyStarts == \A t \in Texts : StartsWith(t, <<>>)
BY DEF StartsWith, Texts

LEMMA StartStays ==
  ASSUME NEW t \in Texts, NEW u \in Texts, NEW r \in Requests, StartsWith(t, u)
  PROVE  StartsWith(Append(t, r), u)
BY DEF StartsWith, Texts

LEMMA RestCompletes ==
  ASSUME NEW t \in Texts, NEW u \in Texts, StartsWith(t, u)
  PROVE  u \o SubSeq(t, Len(u) + 1, Len(t)) = t
<1> DEFINE rest == SubSeq(t, Len(u) + 1, Len(t))
<1>1. /\ u \in Seq(Requests) /\ t \in Seq(Requests) /\ rest \in Seq(Requests)
      /\ Len(rest) = Len(t) - Len(u)
      /\ \A i \in 1..Len(rest) : rest[i] = t[Len(u) + i]
  BY DEF StartsWith, Texts
<1>2. Len(u \o rest) = Len(t)
  BY <1>1
<1>3. \A i \in 1..Len(t) : (u \o rest)[i] = t[i]
  BY <1>1 DEF StartsWith
<1> QED
  BY <1>1, <1>2, <1>3

LEMMA TextStarts == \A t \in Texts : StartsWith(t, t)
BY DEF StartsWith, Texts

\* The call of r has cleared the buffers and its handler has not left.
Live(r) ==
  /\ call[r] \in NativeCall \cup {"read", "generated"}
  /\ pc[r] \in {"await", "hungup"} \cup Streaming

\* What a stream has sent is a part of the front of its own text, and all of it
\* once it has seen the generation finished.
StreamsKeepUp ==
  \A r \in StreamReqs :
    /\ call[r] \in {"none", "setkey", "pending", "clear", "enter"} =>
         sent[r] = <<>> /\ ~streamDone[r] /\ pc[r] \notin {"send", "await", "hungup"}
    /\ Live(r) =>
         /\ generated_tokens = concat_output
         /\ generation_finished <=> call[r] \in {"read", "generated"}
         /\ StartsWith(generated_tokens, sent[r])
         /\ streamDone[r] => generation_finished
         /\ pc[r] = "await" => generation_finished /\ sent[r] = generated_tokens

\* While one stream is live no other request is inside generate().
LEMMA OthersOutside ==
  ASSUME LockCoversHandler, LockCoversCall, NEW r \in Requests, Live(r),
         NEW s \in Requests, call[s] \in Calling
  PROVE  s = r
BY DEF LockCoversHandler, LockCoversCall, Live, Holding

\* A stream that ended by itself has sent the whole text of its call.
THEOREM WholeStream == ASSUME ~HeadersMayFail PROVE Spec => []StreamIsComplete
<1>1. Init => StreamsKeepUp
  BY ServerAssumption DEF Init, StreamsKeepUp, Live, NativeCall
<1>2. /\ TypeOK /\ LockCoversHandler /\ LockCoversCall /\ CallsAreAwaited
      /\ StreamsKeepUp /\ [Next]_vars
      => StreamsKeepUp'
  <2> SUFFICES ASSUME TypeOK, LockCoversHandler, LockCoversCall, CallsAreAwaited,
                      StreamsKeepUp, [Next]_vars
               PROVE  StreamsKeepUp'
    OBVIOUS
  <2> USE ServerAssumption DEF TypeOK, StreamsKeepUp, Live, Goto, CallGoto, nativeVars,
        outputVars, replyVars
  <2>1. CASE Client
    BY <2>1 DEF Client, Arrive, AbortTests, AbortStops, AbortRemembers, Streaming
  <2>2. ASSUME NEW r \in Requests, Dispatch(r) PROVE StreamsKeepUp'
    BY <2>2 DEF Dispatch, NativeCall
  <2>3. ASSUME NEW r \in Requests, PollFinished(r) PROVE StreamsKeepUp'
    BY <2>3 DEF PollFinished, CallHasBegun, CallsAreAwaited, Streaming, Calling, NativeCall
  <2>4. ASSUME NEW r \in Requests, SendTokens(r) PROVE StreamsKeepUp'
    <3>1. Live(r) => sent'[r] = generated_tokens
      BY <2>4, RestCompletes DEF SendTokens, Unsent, CallsAreAwaited, Streaming
    <3> QED
      BY <2>4, <3>1, TextStarts DEF SendTokens, CallsAreAwaited, Streaming
  <2>5. ASSUME NEW r \in Requests, SendFails(r) PROVE StreamsKeepUp'
    BY <2>5 DEF SendFails, Streaming
  <2>6. ASSUME NEW r \in Requests, Reply(r) PROVE StreamsKeepUp'
    BY <2>6 DEF Reply, CallsAreAwaited, Streaming
  <2>7. ASSUME NEW r \in Requests, Handler(r), ~Dispatch(r), ~PollFinished(r),
               ~SendTokens(r), ~SendFails(r), ~Reply(r)
        PROVE  StreamsKeepUp'
    BY <2>7 DEF Handler, JoinQueue, LoadCount, StoreMore, StoreLess, Acquire, TurnAway,
      EndEarly, WriteHeaders, HeadersFail, StreamEnds, Await, Release, Streaming
  <2>8. ASSUME NEW r \in Requests, NativeEnter(r) PROVE StreamsKeepUp'
    <3>1. \A s \in StreamReqs \ {r} : ~Live(s)
      BY <2>8, OthersOutside DEF NativeEnter, Calling
    <3> QED
      BY <2>8, <3>1, EmptyStarts, EmptyText DEF NativeEnter, NativeCall, Streaming
  <2>9. ASSUME NEW r \in Requests, NativeSample(r) PROVE StreamsKeepUp'
    <3>1. \A s \in StreamReqs \ {r} : ~Live(s)
      BY <2>9, OthersOutside DEF NativeSample, Calling, NativeCall
    <3> QED
      BY <2>9, <3>1, StartStays DEF NativeSample, NativeCall, Streaming
  <2>10. ASSUME NEW r \in Requests, NativeFinish(r) \/ NativeFails(r) PROVE StreamsKeepUp'
    <3>1. \A s \in StreamReqs \ {r} : ~Live(s)
      BY <2>10, OthersOutside DEF NativeFinish, NativeFails, Calling, NativeCall
    <3> QED
      BY <2>10, <3>1 DEF NativeFinish, NativeFails, NativeCall, Streaming
  <2>11. ASSUME NEW r \in Requests,
                \/ SetKey(r) \/ TestPending(r) \/ ClearPending(r)
                \/ NativeBudget(r) \/ ReadResult(r)
         PROVE  StreamsKeepUp'
    BY <2>11 DEF SetKey, TestPending, ClearPending, NativeBudget, ReadResult, NativeCall,
      Streaming
  <2>12. CASE UNCHANGED vars
    BY <2>12 DEF vars
  <2> QED
    BY <2>1, <2>2, <2>3, <2>4, <2>5, <2>6, <2>7, <2>8, <2>9, <2>10, <2>11, <2>12
       DEF Next, Call
<1>3. StreamsKeepUp => StreamIsComplete
  BY DEF StreamsKeepUp, StreamIsComplete, Live
<1> QED
  BY <1>1, <1>2, <1>3, TypeCorrect, HandlerLock, CallLock, CallsAwaited, PTL DEF Spec

-----------------------------------------------------------------------------
(* KcppServer implements RequestService                                    *)

\* A step of the threads of one request changes the status of that request only.
OnlyMoves(r) == \A s \in Requests \ {r} : pc'[s] = pc[s] /\ call'[s] = call[s]

LEMMA OneStatus ==
  ASSUME NEW r \in Requests, OnlyMoves(r)
  PROVE  status' = [status EXCEPT ![r] = StatusOf(pc'[r], call'[r])]
BY DEF OnlyMoves, status

\* Every step of the server is a step of the abstract service or leaves the status
\* of the requests alone.
THEOREM Implements == ASSUME ~HeadersMayFail PROVE Spec => ServiceSpec
<1>1. Init => Service!Init
  BY DEF Init, Service!Init, status, StatusOf, NativeCall
<1>2. TypeOK /\ LockCoversCall /\ CallsAreAwaited /\ [Next]_vars
      => [Service!Next]_status
  <2> SUFFICES ASSUME TypeOK, LockCoversCall, CallsAreAwaited, [Next]_vars
               PROVE  Service!Next \/ UNCHANGED status
    OBVIOUS
  <2> USE DEF TypeOK, Goto, CallGoto
  <2>1. ASSUME NEW r \in Requests, Arrive(r) PROVE Service!Next
    <3>1. OnlyMoves(r) /\ status[r] = "unsent" /\ StatusOf(pc'[r], call'[r]) = "waiting"
      BY <2>1 DEF Arrive, OnlyMoves, CallsAreAwaited, Queueing, status, StatusOf, NativeCall
    <3> QED
      BY <3>1, OneStatus DEF Service!Next, Service!Send, Service!Becomes
  <2>2. ASSUME NEW r \in Requests, TurnAway(r) PROVE Service!Next
    <3>1. OnlyMoves(r) /\ status[r] = "waiting" /\ StatusOf(pc'[r], call'[r]) = "closed"
      BY <2>2 DEF TurnAway, OnlyMoves, CallsAreAwaited, Queueing, status, StatusOf, NativeCall
    <3> QED
      BY <3>1, OneStatus DEF Service!Next, Service!Close, Service!Becomes
  <2>3. ASSUME NEW r \in Requests, Release(r) PROVE Service!Next
    <3>1. call[r] \notin Calling
      BY <2>3 DEF Release, CallsAreAwaited, Streaming
    <3>2. /\ OnlyMoves(r)
          /\ status[r] \in {"waiting", "generated"}
          /\ StatusOf(pc'[r], call'[r]) = "closed"
      BY <2>3, <3>1 DEF Release, OnlyMoves, status, StatusOf, Calling
    <3> QED
      BY <3>2, OneStatus DEF Service!Next, Service!Close, Service!Becomes
  <2>4. ASSUME NEW r \in Requests, NativeEnter(r) PROVE Service!Next
    <3>1. pc[r] \in {"await", "hungup"} \cup Streaming
      BY <2>4 DEF NativeEnter, CallsAreAwaited, Calling
    <3>2. \A s \in Requests : status[s] # "generating"
      BY <2>4 DEF NativeEnter, LockCoversCall, Calling, NativeCall, status, StatusOf
    <3>3. OnlyMoves(r) /\ status[r] = "waiting" /\ StatusOf(pc'[r], call'[r]) = "generating"
      BY <2>4, <3>1 DEF NativeEnter, OnlyMoves, Streaming, NativeCall, status, StatusOf
    <3> QED
      BY <3>2, <3>3, OneStatus DEF Service!Next, Service!Begin, Service!Becomes
  <2>5. ASSUME NEW r \in Requests, NativeFinish(r) \/ NativeFails(r) PROVE Service!Next
    <3>1. pc[r] \in {"await", "hungup"} \cup Streaming
      BY <2>5 DEF NativeFinish, NativeFails, CallsAreAwaited, Calling, NativeCall
    <3>2. /\ OnlyMoves(r)
          /\ status[r] = "generating"
          /\ StatusOf(pc'[r], call'[r]) = "generated"
      BY <2>5, <3>1 DEF NativeFinish, NativeFails, OnlyMoves, Streaming, NativeCall, status,
        StatusOf
    <3> QED
      BY <3>2, OneStatus DEF Service!Next, Service!End, Service!Becomes
  <2>6. ASSUME NEW r \in Requests, Handler(r), ~TurnAway(r), ~Release(r)
        PROVE  UNCHANGED status
    <3>1. CASE Dispatch(r)
      <4>1. call[r] = "none"
        BY <3>1 DEF Dispatch
      <4>2. OnlyMoves(r) /\ status[r] = "waiting" /\ StatusOf(pc'[r], call'[r]) = "waiting"
        BY <3>1, <4>1 DEF Dispatch, OnlyMoves, NativeCall, status, StatusOf
      <4> QED
        BY <4>2, OneStatus DEF status
    <3>2. CASE ~Dispatch(r)
      <4>1. /\ UNCHANGED call
            /\ \E from, to \in (Queueing \ {"new"}) \cup Holding : Goto(r, from, to)
        BY <2>6, <3>2 DEF Handler, JoinQueue, LoadCount, StoreMore, StoreLess, Acquire,
          EndEarly, WriteHeaders, HeadersFail, PollFinished, SendTokens, SendFails,
          StreamEnds, Await, Reply, Queueing, Holding, Streaming
      <4>2. OnlyMoves(r) /\ StatusOf(pc'[r], call'[r]) = status[r]
        BY <4>1 DEF OnlyMoves, Queueing, Holding, Streaming, status, StatusOf
      <4> QED
        BY <4>2, OneStatus DEF status
    <3> QED
      BY <3>1, <3>2
  <2>7. ASSUME NEW r \in Requests,
               \/ SetKey(r) \/ TestPending(r) \/ ClearPending(r)
               \/ NativeBudget(r) \/ NativeSample(r) \/ ReadResult(r)
        PROVE  UNCHANGED status
    <3>1. OnlyMoves(r) /\ pc'[r] = pc[r]
      BY <2>7 DEF SetKey, TestPending, ClearPending, NativeBudget, NativeSample,
        ReadResult, OnlyMoves
    <3>2. /\ call[r] \in NativeCall <=> call'[r] \in NativeCall
          /\ call[r] \in {"read", "generated"} <=> call'[r] \in {"read", "generated"}
      BY <2>7 DEF SetKey, TestPending, ClearPending, NativeBudget, NativeSample,
        ReadResult, NativeCall
    <3>3. StatusOf(pc'[r], call'[r]) = status[r]
      BY <3>1, <3>2 DEF status, StatusOf
    <3> QED
      BY <3>1, <3>3, OneStatus DEF status
  <2>8. CASE AbortStops \/ AbortRemembers \/ (\E k \in Keys \cup {NoKey} : AbortTests(k))
    BY <2>8 DEF AbortStops, AbortRemembers, AbortTests, status
  <2>9. CASE UNCHANGED vars
    BY <2>9 DEF vars, status
  <2> QED
    BY <2>1, <2>2, <2>3, <2>4, <2>5, <2>6, <2>7, <2>8, <2>9 DEF Next, Client, Call
<1> QED
  BY <1>1, <1>2, TypeCorrect, CallLock, CallsAwaited, PTL DEF Spec, ServiceSpec, Service!Spec
=============================================================================
