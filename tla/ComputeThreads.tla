--------------------------- MODULE ComputeThreads ----------------------------
(***************************************************************************)
(* ggml_graph_compute in a build without OpenMP: the calling thread (0)    *)
(* creates N - 1 workers, all run through the nodes of the graph, meet at  *)
(* the barrier after each of them, and thread 0 joins the others.          *)
(*                                                                         *)
(* A node is either split evenly by thread number, as most operations are, *)
(* or a matrix multiplication: every thread converts its part of src1 into *)
(* the work buffer they share, they meet at the barrier, and then take     *)
(* chunks of the result from a shared counter.                             *)
(***************************************************************************)
EXTENDS GgmlBarrier, Sequences, FiniteSets

CONSTANTS
  ChunkSize,        \* 16 in the code
  VectorChunkSize,  \* 64 in the code
  Calls             \* computations: a graph, and whether it has an abort_callback

Ops == {"split", "mul_mat"}
ASSUME CallsAssumption ==
  /\ ChunkSize \in Nat \ {0} /\ VectorChunkSize \in Nat \ {0}
  /\ \A c \in Calls :
       /\ c.graph \in Seq([op : Ops, nr0 : Nat \ {0}, nr1 : Nat \ {0}])
       /\ c.abortable \in BOOLEAN

VARIABLES
  call,           \* the computation in progress, or the last one
  pc,             \* per thread; "idle" while it does not exist
  node,           \* per thread: node_n, counted from 1
  chunk,          \* per thread: its chunk of a multiplication
  current_chunk,  \* the next chunk nobody has taken yet
  ec,             \* the status of the computation
  converted,      \* the threads that have converted their part, per node (history)
  computed        \* how often each element was computed, per node (history)

workVars == <<call, pc, node, chunk, current_chunk, ec, converted, computed>>
vars == <<barrierVars, workVars>>

graph == call.graph
NodeOf(t) == graph[node[t]]
Goto(t, label) == pc' = [pc EXCEPT ![t] = label]

-----------------------------------------------------------------------------
(* How the result of a node is divided                                     *)

CeilDiv(a, b) == (a + b - 1) \div b
Least(a, b) == IF a < b THEN a ELSE b

\* The number of chunks in both dimensions of the result; by thread when there
\* are fewer than four for each.
Grid(n) ==
  LET size == IF n.nr0 = 1 \/ n.nr1 = 1 THEN VectorChunkSize ELSE ChunkSize
      fine == <<CeilDiv(n.nr0, size), CeilDiv(n.nr1, size)>>
  IN  IF n.op = "split" THEN <<N, 1>>
      ELSE IF fine[1] * fine[2] >= 4 * N THEN fine
      ELSE IF n.nr0 > n.nr1 THEN <<N, 1>> ELSE <<1, N>>

NChunks(n) == Grid(n)[1] * Grid(n)[2]

\* Mutant: a chunk is rounded down.
SpanDown(nr, parts, i) ==
  LET d == nr \div parts IN (d * i)..(Least(d * i + d, nr) - 1)

\* Part i of nr rows
Span(nr, parts, i) ==
  LET d == CeilDiv(nr, parts) IN (d * i)..(Least(d * i + d, nr) - 1)

\* The elements of the result of node n, and those that chunk c is
Result(n) == (0..(n.nr0 - 1)) \X (0..(n.nr1 - 1))
Elements(n, c) ==
  Span(n.nr0, Grid(n)[1], c % Grid(n)[1]) \X Span(n.nr1, Grid(n)[2], c \div Grid(n)[1])

-----------------------------------------------------------------------------
Init ==
  /\ BarrierInit
  /\ call \in Calls
  /\ pc = [t \in Threads |-> "idle"]
  /\ node = [t \in Threads |-> 1]
  /\ chunk = [t \in Threads |-> 0]
  /\ current_chunk = 0 /\ ec = "success"
  /\ converted = <<>> /\ computed = <<>>

\* ggml_graph_compute is called
Start(c) ==
  /\ pc[0] = "idle"
  /\ NewBarrier
  /\ call' = c
  /\ Goto(0, "create")
  /\ node' = [t \in Threads |-> 1] /\ chunk' = [t \in Threads |-> 0]
  /\ current_chunk' = 0 /\ ec' = "success"
  /\ converted' = [n \in 1..Len(c.graph) |-> {}]
  /\ computed' = [n \in 1..Len(c.graph) |-> [e \in Result(c.graph[n]) |-> 0]]

\* ggml_thread_create for j = 1, 2, ...
Create(j) ==
  /\ pc[0] = "create"
  /\ j > 0 /\ pc[j] = "idle"
  /\ \A i \in 1..(j - 1) : pc[i] # "idle"
  /\ Goto(j, "node")
  /\ UNCHANGED <<barrierVars, call, node, chunk, current_chunk, ec, converted, computed>>

\* "this is a work thread too"
MainWorks ==
  /\ pc[0] = "create"
  /\ \A j \in Threads \ {0} : pc[j] # "idle"
  /\ Goto(0, "node")
  /\ UNCHANGED <<barrierVars, call, node, chunk, current_chunk, ec, converted, computed>>

\* Mutant: the workers are not joined.
JoinedOne == pc[0] = "done"

\* ggml_thread_join for every worker
Joined == \A j \in Threads : pc[j] = "done"

\* ggml_graph_compute returns, and state_shared is gone.
Return ==
  /\ Joined
  /\ pc' = [t \in Threads |-> "idle"]
  /\ UNCHANGED <<barrierVars, call, node, chunk, current_chunk, ec, converted, computed>>

-----------------------------------------------------------------------------
(* ggml_graph_compute_thread                                               *)

\* Thread 0 asks the abort callback after each node.
AfterNode(t) == IF t = 0 THEN "callback" ELSE "outer"

Compute(t, k) ==
  \E chosen \in {Elements(NodeOf(t), k)} :
    computed' = [computed EXCEPT ![node[t]] =
                   [e \in DOMAIN @ |-> IF e \in chosen THEN @[e] + 1 ELSE @[e]]]

SplitNode(t) ==
  /\ pc[t] = "node"
  /\ node[t] <= Len(graph) /\ NodeOf(t).op = "split"
  /\ Compute(t, t)
  /\ Goto(t, AfterNode(t))
  /\ UNCHANGED <<barrierVars, call, node, chunk, current_chunk, ec, converted>>

\* Mutant: nobody sets the counter back to the first chunk that is free.
ConvertOnly(t) ==
  /\ pc[t] = "node"
  /\ node[t] <= Len(graph) /\ NodeOf(t).op = "mul_mat"
  /\ converted' = [converted EXCEPT ![node[t]] = @ \cup {t}]
  /\ current_chunk' = IF t = 0 /\ node[t] = 1 THEN N ELSE current_chunk
  /\ Goto(t, "inner")
  /\ UNCHANGED <<barrierVars, call, node, chunk, ec, computed>>

\* A multiplication up to its barrier: src1 is converted into the work buffer, and
\* thread 0 sets the counter to the first chunk that is nobody's own.
Convert(t) ==
  /\ pc[t] = "node"
  /\ node[t] <= Len(graph) /\ NodeOf(t).op = "mul_mat"
  /\ converted' = [converted EXCEPT ![node[t]] = @ \cup {t}]
  /\ current_chunk' = IF t = 0 THEN N ELSE current_chunk
  /\ Goto(t, "inner")
  /\ UNCHANGED <<barrierVars, call, node, chunk, ec, computed>>

DoChunk(t) ==
  /\ pc[t] = "chunk"
  /\ chunk[t] < NChunks(NodeOf(t))
  /\ Compute(t, chunk[t])
  /\ Goto(t, IF N >= NChunks(NodeOf(t)) THEN AfterNode(t) ELSE "fetch")
  /\ UNCHANGED <<barrierVars, call, node, chunk, current_chunk, ec, converted>>

Fetch(t) ==
  /\ pc[t] = "fetch"
  /\ chunk' = [chunk EXCEPT ![t] = current_chunk]
  /\ current_chunk' = current_chunk + 1
  /\ Goto(t, "chunk")
  /\ UNCHANGED <<barrierVars, call, node, ec, converted, computed>>

NoChunkLeft(t) ==
  /\ pc[t] = "chunk"
  /\ chunk[t] >= NChunks(NodeOf(t))
  /\ Goto(t, AfterNode(t))
  /\ UNCHANGED <<barrierVars, call, node, chunk, current_chunk, ec, converted, computed>>

\* Thread 0 only.  The callback may say at any node that it wants an end.
Callback(t) ==
  /\ pc[t] = "callback"
  /\ \/ UNCHANGED ec
     \/ call.abortable /\ ec' = "aborted"
  /\ Goto(t, "outer")
  /\ UNCHANGED <<barrierVars, call, node, chunk, current_chunk, converted, computed>>

WaitAtBarrier(t) ==
  /\ pc[t] \in {"inner", "outer"}
  /\ BarrierWork(t)
  /\ UNCHANGED workVars

\* Out of the barrier: to the chunks, the first of which is the thread's own
\* number, or to the test of the status.
LeaveBarrier(t) ==
  /\ pc[t] \in {"inner", "outer"}
  /\ BarrierExit(t)
  /\ Goto(t, IF pc[t] = "inner" THEN "chunk" ELSE "check")
  /\ chunk' = [chunk EXCEPT ![t] = t]
  /\ UNCHANGED <<call, node, current_chunk, ec, converted, computed>>

CheckStatus(t) ==
  /\ pc[t] = "check"
  /\ IF ec # "success" THEN Goto(t, "done") /\ UNCHANGED node
     ELSE Goto(t, "node") /\ node' = [node EXCEPT ![t] = @ + 1]
  /\ UNCHANGED <<barrierVars, call, chunk, current_chunk, ec, converted, computed>>

EndOfGraph(t) ==
  /\ pc[t] = "node"
  /\ node[t] > Len(graph)
  /\ Goto(t, "done")
  /\ UNCHANGED <<barrierVars, call, node, chunk, current_chunk, ec, converted, computed>>

-----------------------------------------------------------------------------
Work(t) ==
  \/ SplitNode(t) \/ Convert(t) \/ DoChunk(t) \/ Fetch(t) \/ NoChunkLeft(t)
  \/ Callback(t) \/ WaitAtBarrier(t) \/ LeaveBarrier(t) \/ CheckStatus(t)
  \/ EndOfGraph(t)

Main == MainWorks \/ Return \/ \E j \in Threads : Create(j)

Next == (\E c \in Calls : Start(c)) \/ Main \/ \E t \in Threads : Work(t)

Spec == Init /\ [][Next]_vars

\* The operating system runs every thread; nothing makes anybody compute a graph.
FairSpec == Spec /\ WF_vars(Main) /\ \A t \in Threads : WF_vars(Work(t))

-----------------------------------------------------------------------------
(* Properties                                                              *)

Labels == {"idle", "create", "node", "inner", "chunk", "fetch", "callback", "outer",
           "check", "done"}

TypeOK ==
  /\ call \in Calls
  /\ pc \in [Threads -> Labels]
  /\ at \in [Threads -> {"out", "add", "last", "bump", "spin"}]
  /\ node \in [Threads -> Nat \ {0}] /\ chunk \in [Threads -> Nat]
  /\ passed_old \in [Threads -> Nat] /\ rounds \in [Threads -> Nat]
  /\ n_barrier \in 0..N /\ n_barrier_passed \in Nat /\ current_chunk \in Nat
  /\ ec \in {"success", "aborted"}

\* The result of node n is there: every element was computed once.
Complete(n) == \A e \in DOMAIN computed[n] : computed[n][e] = 1

\* Once a thread works on a node, the results of all nodes before it are complete,
\* however slow the others are: ggml_graph_compute_thread orders the nodes by its
\* barrier alone.
InputsComplete ==
  \A n \in DOMAIN computed :
    (\E t \in Threads : node[t] > n) => Complete(n)

\* While a thread multiplies, all have converted their part of src1 and nobody
\* writes the work buffer: it is one for all threads and for all nodes.
WorkBufferIsStable ==
  \A t \in Threads : pc[t] \in {"chunk", "fetch"} =>
    /\ converted[node[t]] = Threads
    /\ \A u \in Threads : pc[u] # "node"

\* A computation that ends with success has computed every node.
SuccessIsComplete ==
  [][pc[0] = "done" /\ pc'[0] = "idle" /\ ec = "success" =>
       \A n \in 1..Len(graph) : Complete(n)]_vars

\* ggml_barrier is a barrier for every pattern of calls the threads make, and
\* its memory is not reused while somebody is inside.
BarrierHolds == Abstract!Spec

\* ggml_graph_compute returns.
CallsReturn == pc[0] = "create" ~> pc[0] = "idle"
=============================================================================
