------------------------------ MODULE KvStore ------------------------------
(***************************************************************************)
(* What the KV cache of llama.cpp promises: it holds entries, each a token *)
(* at a position for a set of sequences, and evaluating a batch attends    *)
(* exactly the entries of its sequence up to the batch's last position.    *)
(* Where an entry is stored, when a shifted key is rotated and when the    *)
(* cells are compacted is nobody's business but the cache's.               *)
(***************************************************************************)
EXTENDS Integers, Sequences

CONSTANTS
  NCtx,       \* positions are below it
  Tokens,
  SeqIds,
  MaxBatch,   \* tokens in a batch
  Deltas,     \* what a client adds to positions
  Divisors    \* what it divides them by

VARIABLES
  entries,    \* what is stored
  attended    \* what the latest batch attended, until the next edit

InRange(e, p0, p1) == p0 <= e.pos /\ e.pos < p1

\* The entries after f, which may move an entry or take sequences from it; one
\* before position 0 or without a sequence is gone.
Mapped(f(_)) == {e \in {f(x) : x \in entries} : e.pos >= 0 /\ e.seqs # {}}

-----------------------------------------------------------------------------
Init == entries = {} /\ attended = {}

Clear == entries' = {}

Defrag == UNCHANGED entries  \* a request to compact the cells

SeqRm(s, p0, p1) ==
  LET Without(e) == IF InRange(e, p0, p1) THEN [e EXCEPT !.seqs = @ \ {s}] ELSE e
  IN  entries' = Mapped(Without)

AllRm(p0, p1) == entries' = {e \in entries : ~InRange(e, p0, p1)}

SeqCp(src, dst, p0, p1) ==
  LET Shared(e) == IF src \in e.seqs /\ InRange(e, p0, p1)
                   THEN [e EXCEPT !.seqs = @ \union {dst}] ELSE e
  IN  entries' = Mapped(Shared)

SeqKeep(s) ==
  LET Only(e) == [e EXCEPT !.seqs = @ \intersect {s}]
  IN  entries' = Mapped(Only)

SeqAdd(s, p0, p1, delta) ==
  LET Moved(e) == IF s \in e.seqs /\ InRange(e, p0, p1)
                  THEN [e EXCEPT !.pos = @ + delta] ELSE e
  IN  entries' = Mapped(Moved)

SeqDiv(s, p0, p1, d) ==
  LET Divided(e) == IF s \in e.seqs /\ InRange(e, p0, p1)
                    THEN [e EXCEPT !.pos = @ \div d] ELSE e
  IN  entries' = Mapped(Divided)

\* A batch of sequence s starting at position p; it may find no room.
Decode(s, p, tokens) ==
  /\ entries' = entries \union
       {[pos |-> p + k - 1, tok |-> tokens[k], seqs |-> {s}] : k \in 1..Len(tokens)}
  /\ attended' = {<<e.pos, e.tok>> : e \in {x \in entries' :
                    s \in x.seqs /\ x.pos < p + Len(tokens)}}

Edit ==
  \/ Clear \/ Defrag
  \/ \E p0 \in 0..(NCtx - 1), p1 \in 1..NCtx :
       /\ p0 < p1
       /\ \/ AllRm(p0, p1)
          \/ \E s \in SeqIds :
               \/ SeqRm(s, p0, p1)
               \/ \E dst \in SeqIds \ {s} : SeqCp(s, dst, p0, p1)
               \/ \E delta \in Deltas : SeqAdd(s, p0, p1, delta)
               \/ \E d \in Divisors : SeqDiv(s, p0, p1, d)
  \/ \E s \in SeqIds : SeqKeep(s)

Next ==
  \/ Edit /\ attended' = {}
  \/ \E s \in SeqIds, p \in 0..(NCtx - 1), k \in 1..MaxBatch :
       \E tokens \in [1..k -> Tokens] : Decode(s, p, tokens)

Spec == Init /\ [][Next]_<<entries, attended>>

=============================================================================
