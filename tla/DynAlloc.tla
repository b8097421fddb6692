------------------------------ MODULE DynAlloc ------------------------------
(***************************************************************************)
(* ggml_dyn_tallocr: where the tensors of a graph will lie in a buffer     *)
(* that does not exist yet.  Free space is an array of blocks, sorted by   *)
(* offset; a tensor takes the best fitting block and gives its space back  *)
(* when the last node that reads it is planned.  What was the highest end  *)
(* of a tensor becomes the size of the buffer.                             *)
(***************************************************************************)
EXTENDS Integers, Sequences

CONSTANTS
  Ids,          \* those that ask for space
  Sizes,        \* what they ask for
  Alignment,
  Limit,        \* SIZE_MAX/2, a bound that no plan reaches
  MaxFreeBlocks

ASSUME AllocAssumption ==
  /\ {Alignment, Limit, MaxFreeBlocks} \subseteq Nat \ {0}
  /\ Sizes \subseteq Nat \ {0}

VARIABLES
  free_blocks, max_size,   \* struct ggml_dyn_tallocr
  held                     \* the space each holds (history)

allocVars == <<free_blocks, max_size, held>>

Block == [offset : Nat, size : Nat]
Nothing == [offset |-> 0, size |-> 0]

End(b) == b.offset + b.size
Extent(b) == b.offset..(End(b) - 1)

Aligned(size) == ((size + Alignment - 1) \div Alignment) * Alignment

Blocks == 1..Len(free_blocks)

Without(s, i) ==
  [j \in 1..(Len(s) - 1) |-> IF j < i THEN s[j] ELSE s[j + 1]]
Inserted(s, i, b) ==
  [j \in 1..(Len(s) + 1) |-> IF j < i THEN s[j] ELSE IF j = i THEN b ELSE s[j - 1]]

-----------------------------------------------------------------------------
ResetAllocator ==
  /\ free_blocks' = <<[offset |-> 0, size |-> Limit]>>
  /\ max_size' = 0
  /\ held' = [t \in Ids |-> Nothing]

Init ==
  /\ free_blocks = <<[offset |-> 0, size |-> Limit]>>
  /\ max_size = 0
  /\ held = [t \in Ids |-> Nothing]

\* Block i is the one taken for size bytes: of the blocks before the last one that
\* are large enough the smallest, and of equal ones the last; the last one when
\* there is none.
BestFit(i, size) ==
  LET fits == {j \in 1..(Len(free_blocks) - 1) : free_blocks[j].size >= size}
  IN  \/ /\ fits = {} /\ i = Len(free_blocks)
      \/ /\ i \in fits
         /\ \A j \in fits : \/ free_blocks[i].size < free_blocks[j].size
                            \/ free_blocks[i].size = free_blocks[j].size /\ j <= i

Take(i, size) ==
  IF free_blocks[i].size = size
  THEN free_blocks' = Without(free_blocks, i)
  ELSE free_blocks' = [free_blocks EXCEPT ![i].offset = @ + size, ![i].size = @ - size]

\* ggml_dyn_tallocr_alloc.  Bound: a plan stays below Limit, so that the last block
\* is never too small.
AllocTensor(t, size) ==
  \E i \in Blocks :
    /\ BestFit(i, Aligned(size)) /\ free_blocks[i].size >= Aligned(size)
    /\ free_blocks[i].offset + Aligned(size) < Limit
    /\ Take(i, Aligned(size))
    /\ held' = [held EXCEPT ![t] =
                  [offset |-> free_blocks[i].offset, size |-> Aligned(size)]]
    /\ max_size' = IF free_blocks[i].offset + Aligned(size) > max_size
                   THEN free_blocks[i].offset + Aligned(size) ELSE max_size

\* The blocks that end where b begins or begin where it ends
Touches(i, b) == End(free_blocks[i]) = b.offset \/ End(b) = free_blocks[i].offset

\* Mutant: the next block is taken in, its size is not.
GrowUpByFreed(i, b) ==
  IF i < Len(free_blocks) /\ End(b) = free_blocks[i + 1].offset
  THEN free_blocks' = Without([free_blocks EXCEPT ![i].size = @ + b.size], i + 1)
  ELSE free_blocks' = [free_blocks EXCEPT ![i].size = @ + b.size]

\* Block i grows by b behind it, and takes in the next one when that follows.
GrowUp(i, b) ==
  IF i < Len(free_blocks) /\ End(b) = free_blocks[i + 1].offset
  THEN free_blocks' = Without([free_blocks EXCEPT
                                 ![i].size = @ + b.size + free_blocks[i + 1].size], i + 1)
  ELSE free_blocks' = [free_blocks EXCEPT ![i].size = @ + b.size]

\* Block i grows by b before it.  A block that ends at b would have been found first.
GrowDown(i, b) ==
  free_blocks' = [free_blocks EXCEPT ![i] = [offset |-> b.offset, size |-> @.size + b.size]]

InsertBlock(b) ==
  /\ Len(free_blocks) < MaxFreeBlocks
  /\ \E i \in 1..(Len(free_blocks) + 1) :
       /\ \A j \in 1..(i - 1) : free_blocks[j].offset < b.offset
       /\ i \in Blocks => free_blocks[i].offset >= b.offset
       /\ free_blocks' = Inserted(free_blocks, i, b)

\* ggml_dyn_tallocr_free_tensor: the first block that touches the freed space grows.
FreeBlock(b) ==
  \/ /\ \A i \in Blocks : ~Touches(i, b)
     /\ InsertBlock(b)
  \/ \E i \in Blocks :
       /\ Touches(i, b) /\ \A j \in 1..(i - 1) : ~Touches(j, b)
       /\ IF End(free_blocks[i]) = b.offset THEN GrowUp(i, b) ELSE GrowDown(i, b)

FreeTensor(t) ==
  /\ FreeBlock(held[t])
  /\ held' = [held EXCEPT ![t] = Nothing]
  /\ UNCHANGED max_size

Next ==
  \/ \E t \in Ids, size \in Sizes : held[t].size = 0 /\ AllocTensor(t, size)
  \/ \E t \in Ids : held[t].size > 0 /\ FreeTensor(t)
  \/ ResetAllocator

Spec == Init /\ [][Next]_allocVars

-----------------------------------------------------------------------------
(* Properties                                                              *)

AllocTypeOK ==
  /\ free_blocks \in Seq(Block) /\ Len(free_blocks) \in 1..MaxFreeBlocks
  /\ max_size \in Nat
  /\ held \in [Ids -> Block]

\* The free blocks are sorted, none is empty, and two that meet have been merged:
\* the search for a neighbour and for the best fit rely on it.
BlocksAreMerged ==
  /\ \A i \in Blocks : free_blocks[i].size > 0
  /\ \A i, j \in Blocks : i < j => End(free_blocks[i]) < free_blocks[j].offset

\* Every address below Limit is free or held by exactly one: nothing is given out
\* twice, and what is given back is not lost.
Partition ==
  \A a \in 0..(Limit - 1) :
    \/ /\ \E i \in Blocks : a \in Extent(free_blocks[i])
       /\ \A t \in Ids : a \notin Extent(held[t])
    \/ /\ \A i \in Blocks : a \notin Extent(free_blocks[i])
       /\ \E t \in Ids : /\ a \in Extent(held[t])
                         /\ \A u \in Ids \ {t} : a \notin Extent(held[u])

\* The free blocks are exactly what nobody holds, over any sequence of requests.
SpaceIsExact == BlocksAreMerged /\ Partition

=============================================================================
