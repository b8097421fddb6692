---------------------------- MODULE MCGraphAlloc ----------------------------
(***************************************************************************)
(* Graphs of one leaf and up to four nodes for TLC.                        *)
(***************************************************************************)
EXTENDS GraphAlloc

\* What tensor t may read: one or two of those before it, the latest first
Srcs(t) == {<<a>> : a \in 1..(t - 1)}
             \union {<<a, b>> \in (1..(t - 1)) \X (1..(t - 1)) : a >= b}

\* What n nodes read
Sources(n) ==
  CASE n = 2 -> Srcs(2) \X Srcs(3)
    [] n = 3 -> Srcs(2) \X Srcs(3) \X Srcs(4)
    [] n = 4 -> Srcs(2) \X Srcs(3) \X Srcs(4) \X Srcs(5)

\* What a tensor shows, for the tensors that sources src and kinds kind make views
Shown(n, src, kind) ==
  LET root[t \in 1..(n + 1)] ==
        IF t \in 3..n /\ kind[t] = "view" THEN root[src[t - 1][1]] ELSE t
  IN  root

\* Graphs of one leaf and n nodes; the first two nodes have any size.  The first and
\* the last node take space; the last one is an output, and so is the first if asked for.
GraphsOf(n, kinds, first) ==
  {[n_leafs |-> 1,
    size    |-> [t \in 1..(n + 1) |-> IF t \in 2..3 /\ t # n + 1 THEN sz[t] ELSE 1],
    src     |-> [t \in 1..(n + 1) |-> IF t = 1 THEN <<>> ELSE src[t - 1]],
    view_src |-> [t \in 1..(n + 1) |-> IF Shown(n, src, kind)[t] = t THEN 0
                                      ELSE Shown(n, src, kind)[t]],
    inplace |-> [t \in 1..(n + 1) |-> t \in 3..n /\ kind[t] = "inplace"],
    output  |-> [t \in 1..(n + 1) |-> t = n + 1 \/ (first /\ t = 2)]] :
   sz \in [2..(IF n = 2 THEN 2 ELSE 3) -> Sizes], src \in Sources(n), kind \in [3..n -> kinds]}

\* The same graph for a smaller batch
Smaller(g) == [g EXCEPT !.size = [t \in 1..Count(g) |-> 1]]

Kinds == {"space", "inplace", "view"}

\* A graph alone, a graph of another length after it, and a graph for a smaller batch
\* after the one it was planned for.
MCSessions ==
  {<<g>> : g \in GraphsOf(4, Kinds, FALSE)}
    \union {<<g, Smaller(g)>> : g \in GraphsOf(3, Kinds, TRUE)}
    \union {<<g, h>> : g \in GraphsOf(2, {"space"}, FALSE),
                       h \in GraphsOf(3, {"space"}, FALSE)}

ASSUME SessionsServe == PlansServe

=============================================================================
