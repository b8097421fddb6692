----------------------------- MODULE GraphAlloc -----------------------------
(***************************************************************************)
(* ggml_gallocr with one buffer: where the tensors of a compute graph lie. *)
(*                                                                         *)
(* Reserving walks the graph in the order it will be computed in, counts   *)
(* down who still reads a tensor, gives its space back after the last      *)
(* reader and lets an operation overwrite the parent only it reads.  The   *)
(* plan is kept by position in the graph and serves later graphs too, as   *)
(* long as they look the same; then the graph is computed in the memory.   *)
(*                                                                         *)
(* The tensors of a graph are numbered: its leafs, then its nodes.         *)
(***************************************************************************)
EXTENDS DynAlloc, FiniteSets

CONSTANTS
  Sessions,     \* graphs that are computed one after the other (see SessionsOK)
  Most,         \* tensors in a graph
  MaxSrc        \* GGML_MAX_SRC, the tensors that one reads at most

\* A graph has for each tensor the size, the tensors src it reads, in which position
\* a repeated one counts twice, the tensor it is a view of (0 if it is no view),
\* whether its operation works in place and whether it is an output.
Graph(n) ==
  [n_leafs : 0..n, size : [1..n -> Sizes], src : [1..n -> Seq(1..n)],
   view_src : [1..n -> 0..n], inplace : [1..n -> BOOLEAN], output : [1..n -> BOOLEAN]]

IsView(g, t) == g.view_src[t] # 0

\* What a view of tensor t shows, which is never itself a view
Root(g, t) == IF IsView(g, t) THEN g.view_src[t] ELSE t

\* Leafs read nothing, nodes what comes before them; a view shows what it reads first.
WellFormed(g, n) ==
  /\ g \in Graph(n)
  /\ \A t \in 1..n :
       /\ Len(g.src[t]) <= MaxSrc
       /\ g.src[t] = <<>> <=> t <= g.n_leafs
       /\ \A k \in 1..Len(g.src[t]) : g.src[t][k] < t
       /\ IsView(g, t) => t > g.n_leafs /\ g.view_src[t] = Root(g, g.src[t][1])

ASSUME SessionsOK ==
  /\ Most \in Nat /\ MaxSrc \in Nat /\ Ids = 1..Most
  /\ \A s \in Sessions :
       /\ s # <<>> /\ s \in Seq({s[k] : k \in DOMAIN s})
       /\ \A k \in 1..Len(s) : \E n \in 1..Most : WellFormed(s[k], n)

VARIABLES
  session,     \* the graphs to come
  graph,       \* the one at hand
  pc, i, j,    \* the walk over its tensors, and over the parents of one
  n_children, n_views, allocated, offset,  \* struct hash_node of each tensor
  node_allocs, leaf_allocs, \* the kept plan: offset and size_max by position
  buffer_size, \* of the buffer allocated for it
  address,     \* where the tensors of the graph were put
  memory       \* the tensor whose value is at each address

hashVars == <<n_children, n_views, allocated, offset>>
planVars == <<node_allocs, leaf_allocs, buffer_size>>
runVars == <<address, memory>>
vars == <<session, graph, pc, i, j, allocVars, hashVars, planVars, runVars>>

Count(g) == Len(g.size)
Tensors == 1..Count(graph)
NNodes(g) == Count(g) - g.n_leafs
Node(k) == graph.n_leafs + k

\* The room a plan needs for tensor t of g: none for a view
Room(g, t) == IF IsView(g, t) THEN 0 ELSE g.size[t]

Unread == [t \in Ids |-> 0]

-----------------------------------------------------------------------------
GraphInit ==
  /\ \E s \in Sessions : session = s /\ graph = s[1]
  /\ pc = "alloc" /\ i = 0 /\ j = 0
  /\ Init
  /\ n_children = Unread /\ n_views = Unread /\ offset = Unread
  /\ allocated = [t \in Ids |-> FALSE]
  /\ node_allocs = <<>> /\ leaf_allocs = <<>> /\ buffer_size = 0
  /\ address = Unread /\ memory = [a \in 0..(Limit - 1) |-> 0]

\* The size kept for what node k reads at position l, none beyond what it read
KeptSize(k, l) ==
  IF l <= Len(node_allocs[k].src) THEN node_allocs[k].src[l].size_max ELSE 0

\* ggml_gallocr_needs_realloc: the graph has other numbers of nodes and leafs than the
\* plan, or a node, or what it reads, does not fit.  Its edges are not compared.
NeedsRealloc ==
  ~ /\ Len(node_allocs) = NNodes(graph)
    /\ Len(leaf_allocs) = graph.n_leafs
    /\ \A k \in 1..NNodes(graph) :
         /\ node_allocs[k].dst.size_max >= Room(graph, Node(k))
         /\ \A l \in 1..Len(graph.src[Node(k)]) :
              KeptSize(k, l) >= Room(graph, graph.src[Node(k)][l])

StartReserve ==
  /\ pc = "alloc" /\ NeedsRealloc
  /\ ResetAllocator
  /\ n_children' = Unread /\ n_views' = Unread
  /\ allocated' = [t \in Ids |-> FALSE] /\ offset' = Unread
  /\ pc' = "leafs" /\ i' = 1
  /\ UNCHANGED <<session, graph, j, planVars, runVars>>

Planning == UNCHANGED <<session, graph, planVars, runVars>>

TakeSpace(t) ==
  /\ AllocTensor(t, graph.size[t])
  /\ allocated' = [allocated EXCEPT ![t] = TRUE]
  /\ offset' = [offset EXCEPT ![t] = held'[t].offset]

AllocLeaf ==
  /\ pc = "leafs" /\ i <= graph.n_leafs
  /\ TakeSpace(i)
  /\ i' = i + 1
  /\ Planning /\ UNCHANGED <<pc, j, n_children, n_views>>

\* Mutant: a tensor read twice by one node counts once.
CountReaders ==
  [u \in Ids |-> Cardinality({t \in Tensors :
                   \E l \in 1..Len(graph.src[t]) : graph.src[t][l] = u})]

\* Where tensor u is read: which tensors do, at which position
Reads(u) == {r \in Tensors \X (1..MaxSrc) :
               r[2] <= Len(graph.src[r[1]]) /\ graph.src[r[1]][r[2]] = u}

CountChildren == [u \in Ids |-> Cardinality(Reads(u))]

\* Mutant: views do not keep their root.
CountNoViews == Unread

\* The views of tensor u
Views(u) == {t \in Tensors : graph.view_src[t] = u}

CountViews == [u \in Ids |-> Cardinality(Views(u))]

CountAll ==
  /\ pc = "leafs" /\ i > graph.n_leafs
  /\ n_children' = CountChildren
  /\ n_views' = CountViews
  /\ pc' = "node"
  /\ Planning /\ UNCHANGED <<i, j, allocVars, allocated, offset>>

\* Parent p can be overwritten by node t: it has space of its own, is no output, is
\* laid out as t is, and nobody else reads or shows it.
Reusable(t, p) ==
  /\ allocated[p] /\ ~graph.output[p]
  /\ graph.size[p] = graph.size[t]
  /\ n_children[p] = 1 /\ n_views[p] = 0

\* The parents that node t could overwrite, by position
Candidates(t) ==
  {l \in 1..Len(graph.src[t]) : graph.inplace[t] /\ Reusable(t, graph.src[t][l])}

AllocView ==
  /\ IsView(graph, i)
  /\ UNCHANGED <<allocVars, allocated, offset>>

\* The node takes the space of its first parent that can be overwritten.
AllocInplace ==
  /\ ~IsView(graph, i) /\ Candidates(i) # {}
  /\ \E l \in Candidates(i) :
       LET p == graph.src[i][l]
       IN  /\ \A m \in Candidates(i) : l <= m
           /\ offset' = [offset EXCEPT ![i] = offset[p]]
           /\ allocated' = [allocated EXCEPT ![p] = FALSE, ![i] = TRUE]
           /\ held' = [held EXCEPT ![i] = held[p], ![p] = Nothing]
  /\ UNCHANGED <<free_blocks, max_size>>

AllocSpace ==
  /\ ~IsView(graph, i) /\ Candidates(i) = {}
  /\ TakeSpace(i)

AllocNode ==
  /\ pc = "node" /\ i <= Count(graph)
  /\ AllocView \/ AllocInplace \/ AllocSpace
  /\ pc' = "parents" /\ j' = 1
  /\ Planning /\ UNCHANGED <<i, n_children, n_views>>

\* ggml_gallocr_free_node: outputs are never freed.
FreeNode(t) ==
  IF graph.output[t] THEN UNCHANGED <<allocVars, allocated>>
  ELSE FreeTensor(t) /\ allocated' = [allocated EXCEPT ![t] = FALSE]

\* Mutant: the last reader of a view is not told to its root.
LastOfOwn(p) == n_children[p] = 1 /\ n_views[p] = 0 /\ ~IsView(graph, p)

\* The reader that is counted down was the last of p.
LastReader(p) == n_children[p] = 1 /\ n_views[p] = 0

\* One parent of node i has been read: it is freed after its last reader, the root
\* of a view after the last reader of that view.
UpdateParent ==
  /\ pc = "parents" /\ j <= Len(graph.src[i])
  /\ LET p == graph.src[i][j]
         root == graph.view_src[p]
     IN  /\ n_children' = [n_children EXCEPT ![p] = @ - 1]
         /\ IF LastReader(p) /\ IsView(graph, p)
            THEN /\ n_views' = [n_views EXCEPT ![root] = @ - 1]
                 /\ IF n_views'[root] = 0 /\ n_children[root] = 0 /\ allocated[root]
                    THEN FreeNode(root) ELSE UNCHANGED <<allocVars, allocated>>
            ELSE /\ UNCHANGED n_views
                 /\ IF LastReader(p) /\ allocated[p]
                    THEN FreeNode(p) ELSE UNCHANGED <<allocVars, allocated>>
  /\ j' = j + 1
  /\ Planning /\ UNCHANGED <<pc, i, offset>>

NextNode ==
  /\ pc = "parents" /\ j > Len(graph.src[i])
  /\ i' = i + 1 /\ pc' = "node"
  /\ Planning /\ UNCHANGED <<j, allocVars, hashVars>>

Planned(t) == [offset |-> offset[t], size_max |-> Room(graph, t)]

\* The plan is kept, and the buffer replaced when it is too small.
KeepPlan ==
  /\ pc = "node" /\ i > Count(graph)
  /\ leaf_allocs' = [k \in 1..graph.n_leafs |-> Planned(k)]
  /\ node_allocs' = [k \in 1..NNodes(graph) |->
       [dst |-> Planned(Node(k)),
        src |-> [l \in 1..Len(graph.src[Node(k)]) |-> Planned(graph.src[Node(k)][l])]]]
  /\ buffer_size' = IF max_size > buffer_size THEN max_size ELSE buffer_size
  /\ pc' = "alloc"
  /\ UNCHANGED <<session, graph, i, j, allocVars, hashVars, runVars>>

\* The tensors get the addresses of the plan, and the leafs their values.
InitTensors ==
  /\ pc = "alloc" /\ ~NeedsRealloc
  /\ address' = [t \in Ids |->
       IF t \notin Tensors \/ IsView(graph, t) THEN 0
       ELSE IF t <= graph.n_leafs THEN leaf_allocs[t].offset
       ELSE node_allocs[t - graph.n_leafs].dst.offset]
  /\ memory' = [a \in DOMAIN memory |->
       IF \E t \in 1..graph.n_leafs : address'[t] <= a /\ a < address'[t] + graph.size[t]
       THEN CHOOSE t \in 1..graph.n_leafs :
              address'[t] <= a /\ a < address'[t] + graph.size[t]
       ELSE 0]
  /\ pc' = "run" /\ i' = graph.n_leafs + 1
  /\ UNCHANGED <<session, graph, j, allocVars, hashVars, planVars>>

Space(t) == address[t]..(address[t] + graph.size[t] - 1)

\* The graph is computed, node by node; a view computes nothing.
ComputeNode ==
  /\ pc = "run" /\ i <= Count(graph)
  /\ memory' = IF IsView(graph, i) THEN memory
               ELSE [a \in DOMAIN memory |-> IF a \in Space(i) THEN i ELSE memory[a]]
  /\ i' = i + 1
  /\ UNCHANGED <<session, graph, pc, j, allocVars, hashVars, planVars, address>>

\* The next graph of the session is at hand.
NextGraph ==
  /\ pc = "run" /\ i > Count(graph) /\ Len(session) > 1
  /\ session' = Tail(session) /\ graph' = session[2]
  /\ pc' = "alloc" /\ i' = 0
  /\ UNCHANGED <<j, allocVars, hashVars, planVars, runVars>>

GraphNext ==
  \/ StartReserve \/ AllocLeaf \/ CountAll \/ AllocNode \/ UpdateParent \/ NextNode
  \/ KeepPlan \/ InitTensors \/ ComputeNode \/ NextGraph

GraphSpec == GraphInit /\ [][GraphNext]_vars

-----------------------------------------------------------------------------
(* Properties                                                              *)

GraphTypeOK ==
  /\ AllocTypeOK
  /\ pc \in {"alloc", "leafs", "node", "parents", "run"}
  /\ i \in 0..(Most + 1) /\ j \in Nat
  /\ {n_children, n_views, offset, address} \subseteq [Ids -> Nat]
  /\ allocated \in [Ids -> BOOLEAN]
  /\ buffer_size \in Nat /\ memory \in [0..(Limit - 1) -> {0} \union Ids]

\* A tensor's value is in its space, which lies in the buffer
Intact(t) ==
  \A a \in Space(Root(graph, t)) : a < buffer_size /\ memory[a] = Root(graph, t)

\* Whatever is read still has the value that was put there, however the space was
\* reused in between, by views, by operations in place and by the plan of an earlier
\* graph: what a node reads when it is computed, and the outputs after the last
\* node ("output tensors are never freed and never overwritten").
ValuesAreIntact ==
  /\ pc = "run" /\ i \in Tensors =>
       \A l \in 1..Len(graph.src[i]) : Intact(graph.src[i][l])
  /\ pc = "run" /\ i > Count(graph) =>
       \A t \in Tensors : graph.output[t] => Intact(t)

\* A plan made for graph g can only serve graph h when the two have the same shape.
\* NeedsRealloc compares no edges, and no sizes of leafs that nobody reads.
SameShape(g, h) ==
  /\ <<g.n_leafs, g.src, g.view_src, g.output>> = <<h.n_leafs, h.src, h.view_src, h.output>>
  /\ \A t \in 1..g.n_leafs :
       \/ g.size[t] = h.size[t]
       \/ \E r \in 1..Count(g) : \E l \in 1..Len(g.src[r]) : g.src[r][l] = t

\* A view that is an output is not read, or its root is an output, too.
OutputsAreKept(g) ==
  \A t \in 1..Count(g) : g.output[t] /\ IsView(g, t) =>
    \/ g.output[Root(g, t)]
    \/ \A r \in 1..Count(g) : \A l \in 1..Len(g.src[r]) : g.src[r][l] # t

\* What the callers take care of: graphs that follow each other and have as many nodes
\* and leafs have the same shape, and the outputs are flagged where they are kept.
PlansServe ==
  \A s \in Sessions :
    /\ \A k \in 1..Len(s) : OutputsAreKept(s[k])
    /\ \A k, l \in 1..Len(s) :
         NNodes(s[k]) = NNodes(s[l]) /\ s[k].n_leafs = s[l].n_leafs => SameShape(s[k], s[l])

\* Planning leaves nothing behind: what is still held belongs to an output, to a
\* tensor nobody reads, or to a root with a view that nobody reads.
NothingLeaks ==
  pc = "node" /\ i > Count(graph) =>
    \A t \in Tensors : held[t].size > 0 =>
      \/ graph.output[t]
      \/ Reads(t) = {}
      \/ \E v \in Views(t) : Reads(v) = {}

=============================================================================
