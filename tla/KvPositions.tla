---------------------------- MODULE KvPositions ----------------------------
(***************************************************************************)
(* llama.cpp's KV cache as its client thinks of it: a sequence holds at    *)
(* most one token at each position, and the client erases positions, moves *)
(* them and evaluates a batch behind them.  ContextReuse uses it for       *)
(* sequence 0; KvCache shows that the cells of the cache behave that way.  *)
(***************************************************************************)
EXTENDS Integers, Sequences

CONSTANTS
  NCtx,             \* the context size the model was loaded with
  Empty             \* what a position without a cell holds

Positions == 0..(NCtx - 1)

\* Mutant: the first cell of the range stays.
SeqRmLess(cells, p0, p1) ==
  [p \in Positions |-> IF p0 < p /\ p < p1 THEN Empty ELSE cells[p]]

SeqRm(cells, p0, p1) ==  \* llama_kv_cache_seq_rm(ctx, 0, p0, p1)
  [p \in Positions |-> IF p0 <= p /\ p < p1 THEN Empty ELSE cells[p]]

\* Mutant: the cells stay where they are.
SeqAddNothing(cells, p0, delta) == cells

SeqAdd(cells, p0, delta) ==  \* llama_kv_cache_seq_add(ctx, 0, p0, -1, delta)
  [p \in Positions |->
     IF p - delta >= p0
     THEN IF p - delta \in Positions THEN cells[p - delta] ELSE Empty
     ELSE IF p < p0 THEN cells[p] ELSE Empty]

Stored(cells, from, batch) ==  \* what a successful llama_decode adds
  [p \in Positions |->
     IF from <= p /\ p < from + Len(batch) THEN batch[p - from + 1] ELSE cells[p]]

=============================================================================
