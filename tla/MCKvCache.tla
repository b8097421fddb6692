----------------------------- MODULE MCKvCache -----------------------------
(***************************************************************************)
(* The KV cache for TLC.  One set of behaviours has a single sequence and  *)
(* the whole cache, another has two sequences that share cells and division*)
(* of positions in a smaller part of it: shared, which is fixed at the     *)
(* start, tells the two apart.                                             *)
(***************************************************************************)
EXTENDS KvCache, TLC

CONSTANTS s0, s1
VARIABLE shared

MCDeltas == {-2}

MCInit == Init /\ shared \in BOOLEAN
MCNext == Next /\ UNCHANGED shared
MCSpec == MCInit /\ [][MCNext]_<<vars, shared>> /\ WF_vars(Step)

\* Bounds of the run: two cells, at positions 0 to 2, for behaviours with both
\* sequences; no second sequence and no division for the others.
MCScope ==
  IF shared
  THEN /\ Cardinality(NonEmpty') <= 2
       /\ \A c \in NonEmpty' : cells'[c].pos <= 2
       /\ batch'.pos + Len(batch'.tokens) <= 3
  ELSE /\ batch'.seq # s1
       /\ \A c \in Cells : s1 \notin cells'[c].seq_id
       /\ pc = "idle" /\ pc' = "idle" =>
            \A c \in Cells : cells'[c].pos \in {cells[c].pos, cells[c].pos - 2, -1}

=============================================================================
