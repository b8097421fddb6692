---------------------------- MODULE KvCacheProofs ----------------------------
(***************************************************************************)
(* Theorems about the KV cache, for caches of any size, any number of      *)
(* sequences and any edits: the cells in use are counted exactly, cells,   *)
(* keys and pending shifts agree, a hole can always be filled, a free run  *)
(* is found wherever the search starts, and the cells implement KvStore.   *)
(***************************************************************************)
EXTENDS KvCache, NumberSets, SequenceTheorems, TLAPS

-----------------------------------------------------------------------------
(* The inductive invariant                                                 *)

Batch == [seq : SeqIds, pos : Positions, tokens : Seq(Tokens)]

Typed ==
  /\ cells \in [Cells -> Cell] /\ keys \in [Cells -> Key]
  /\ head \in 0..Size /\ used \in Int
  /\ has_shift \in BOOLEAN /\ do_defrag \in BOOLEAN /\ cont \in BOOLEAN
  /\ pc \in {"idle", "defrag", "move", "slot", "search"}
  /\ n_tested \in Nat /\ i0 \in 0..Size /\ nh \in 0..Size /\ nf \in 0..Size
  /\ i1 \in 0..Size /\ n_moves \in 0..MaxMoves
  /\ attended \subseteq Int \X (Tokens \union {Empty})

\* Between evaluations no batch is there and no loop is in use; a batch fits the
\* cache and stays below NCtx.
BatchFits ==
  /\ pc = "idle" => batch = NoBatch /\ LoopsAtRest
  /\ pc # "idle" => /\ batch \in Batch
                    /\ n_tokens \in 1..MaxBatch /\ batch.pos + n_tokens <= NCtx

\* How many cells in use there are at c or behind
InUseFrom(c) == Cardinality({d \in NonEmpty : d >= c})

\* While the cells are compacted: those before i0 are in use, those before i0 + nf
\* while a hole is filled, and from i1 on there are as many cells as are missing.
Compacting ==
  /\ pc = "defrag" => /\ i0 <= used /\ n_moves < MaxMoves
                      /\ \A c \in 0..(i0 - 1) : c \in NonEmpty
  /\ pc = "move" => /\ nf < nh /\ i0 + nh <= used /\ used <= i1
                    /\ \A c \in 0..(i0 + nf - 1) : c \in NonEmpty
                    /\ \A c \in (i0 + nf)..(i0 + nh - 1) : c \notin NonEmpty
                    /\ nf + InUseFrom(i1) = nh
                    /\ ~cont => n_moves < MaxMoves

\* No run of free cells for the batch starts in a..b-1.
NoRunIn(a, b) ==
  \A h \in a..(b - 1) : h + n_tokens <= Size => \E c \in Run(h, n_tokens) : cells[c].pos >= 0

\* The search started at some cell h0 and has come to head, or round the end to
\* head, or it has been everywhere.
Searched ==
  pc = "search" => \E h0 \in 0..Size :
    \/ h0 <= head /\ n_tested + h0 = head /\ NoRunIn(h0, head)
    \/ n_tested + h0 = Size + head /\ NoRunIn(h0, Size) /\ NoRunIn(0, head)
    \/ NoRunIn(0, Size)

Inductive ==
  /\ Typed /\ BatchFits
  /\ UsedIsExact /\ CellsConsistent
  /\ Compacting /\ Searched

-----------------------------------------------------------------------------
(* Sets of cells                                                           *)

LEMMA SomeCells ==
  /\ Size \in Nat \ {0}
  /\ Cells \in SUBSET Nat
  /\ \A S \in SUBSET Cells : IsFiniteSet(S) /\ Cardinality(S) \in 0..Size
<1>1. Size \in Nat \ {0}
  BY CacheAssumption
<1>2. Cells \in SUBSET Nat
  BY <1>1 DEF Cells
<1>3. IsFiniteSet(Cells) /\ Cardinality(Cells) = Size
  BY <1>1, FS_Interval DEF Cells
<1>4. ASSUME NEW S \in SUBSET Cells
      PROVE  IsFiniteSet(S) /\ Cardinality(S) \in 0..Size
  <2>1. IsFiniteSet(S) /\ Cardinality(S) <= Size
    BY <1>3, FS_Subset
  <2>2. Cardinality(S) \in Nat
    BY <2>1, FS_CardinalityType
  <2> QED
    BY <1>1, <2>1, <2>2
<1> QED
  BY <1>1, <1>2, <1>4

LEMMA LeastIs ==
  ASSUME NEW S \in SUBSET Nat, S # {}
  PROVE  Least(S) \in S /\ \A d \in S : Least(S) <= d
BY LeastNumber DEF Least

\* The next search starts at a cell, or behind the last one.
LEMMA HeadInRange ==
  ASSUME NEW S \in SUBSET Cells, NEW h \in 0..Size
  PROVE  /\ (IF S # {} /\ Least(S) < h THEN Least(S) ELSE h) \in 0..Size
         /\ (IF S # {} THEN Least(S) ELSE 0) \in 0..Size
<1>1. CASE S = {}
  BY <1>1, SomeCells
<1>2. CASE S # {}
  <2>1. Least(S) \in Cells
    BY <1>2, SomeCells, LeastIs
  <2> QED
    BY <2>1, SomeCells DEF Cells
<1> QED
  BY <1>1, <1>2

-----------------------------------------------------------------------------
(* Edits                                                                   *)

\* What cells become when they keep what they had, or lose it all
LEMMA EditKeeps ==
  ASSUME Typed, UsedIsExact, CellsConsistent,
         NEW f \in [Cells -> Cell],
         \A c \in Cells : (f[c].pos >= 0) <=> (f[c].seq_id # {}),
         \A c \in Cells : f[c].seq_id # {} =>
            c \in NonEmpty /\ keys[c].rot + f[c].delta = f[c].pos,
         \A c \in Cells : f[c].delta # 0 => has_shift' /\ pc' = "idle",
         cells' = f, keys' = KeysOf(f), used' = used - Cardinality(Freed(f))
  PROVE  /\ keys' \in [Cells -> Key]
         /\ UsedIsExact' /\ CellsConsistent'
         /\ Freed(f) \in SUBSET Cells
<1>1. Freed(f) \in SUBSET NonEmpty /\ NonEmpty \in SUBSET Cells
  BY DEF Freed, NonEmpty
<1>2. NonEmpty' = NonEmpty \ Freed(f)
  BY DEF Freed, NonEmpty
<1>3. UsedIsExact'
  <2>1. IsFiniteSet(NonEmpty)
    BY <1>1, SomeCells
  <2>2. Cardinality(NonEmpty \ Freed(f)) = Cardinality(NonEmpty) - Cardinality(NonEmpty \cap Freed(f))
    BY <2>1, FS_Difference
  <2>3. NonEmpty \cap Freed(f) = Freed(f)
    BY <1>1
  <2> QED
    BY <1>2, <2>2, <2>3 DEF UsedIsExact
<1>4. keys' \in [Cells -> Key]
  BY DEF Typed, KeysOf, NoKey, Key
<1>5. \A c \in NonEmpty' : keys'[c] = keys[c] /\ c \in Cells /\ f[c].seq_id # {}
  BY DEF KeysOf, NonEmpty
<1>6. CellsConsistent'
  <2>1. \A c \in Cells : (c \in NonEmpty') <=> (f[c].seq_id # {})
    BY DEF NonEmpty
  <2> QED
    BY <1>5, <2>1 DEF CellsConsistent
<1> QED
  BY <1>1, <1>3, <1>4, <1>6

\* Between evaluations only the cells, their number and the two requests change.
LEMMA ClientKeeps ==
  ASSUME Inductive, Client,
         cells' \in [Cells -> Cell], keys' \in [Cells -> Key], head' \in 0..Size,
         has_shift' \in BOOLEAN, do_defrag' \in BOOLEAN,
         UsedIsExact', CellsConsistent'
  PROVE  Inductive'
<1>1. used' \in Int
  <2>1. NonEmpty' \in SUBSET Cells
    BY DEF NonEmpty
  <2>2. Cardinality(NonEmpty') \in 0..Size
    BY <2>1, SomeCells
  <2> QED
    BY <2>2 DEF UsedIsExact
<1>2. Typed'
  BY <1>1 DEF Inductive, Typed, Client, loopVars, defragVars
<1>3. BatchFits'
  BY DEF Inductive, BatchFits, Client, loopVars, defragVars, LoopsAtRest, n_tokens
<1>4. Compacting' /\ Searched'
  BY DEF Compacting, Searched, Client
<1> QED
  BY <1>2, <1>3, <1>4 DEF Inductive

\* What Edit does, for a new content f of the cells
LEMMA EditStep ==
  ASSUME Inductive, Client, NEW f \in [Cells -> Cell], Edit(f),
         \A c \in Cells : (f[c].pos >= 0) <=> (f[c].seq_id # {}),
         \A c \in Cells : f[c].seq_id # {} =>
            c \in NonEmpty /\ keys[c].rot + f[c].delta = f[c].pos,
         \A c \in Cells : f[c].delta = cells[c].delta,
         UNCHANGED <<has_shift, do_defrag>>
  PROVE  Inductive'
<1>1. \A c \in Cells : f[c].delta # 0 => has_shift' /\ pc' = "idle"
  BY DEF Inductive, CellsConsistent, Client
<1>2. keys' \in [Cells -> Key] /\ UsedIsExact' /\ CellsConsistent' /\ Freed(f) \in SUBSET Cells
  BY <1>1, EditKeeps DEF Inductive, Edit
<1>3. head' \in 0..Size
  BY <1>2, HeadInRange DEF Inductive, Typed, Edit
<1>4. cells' \in [Cells -> Cell] /\ has_shift' \in BOOLEAN /\ do_defrag' \in BOOLEAN
  BY DEF Inductive, Typed, Edit
<1> QED
  BY <1>2, <1>3, <1>4, ClientKeeps

\* A cell that is edited, at any position
EditedCell == [pos : Int, delta : Int, seq_id : SUBSET SeqIds]

LEMMA CellFacts ==
  ASSUME Inductive, NEW c \in Cells
  PROVE  /\ cells[c] \in Cell /\ cells[c] \in EditedCell
         /\ cells[c] = [pos |-> cells[c].pos, delta |-> cells[c].delta,
                        seq_id |-> cells[c].seq_id]
         /\ cells[c].pos \in Int /\ cells[c].pos \in Positions \union {-1}
         /\ cells[c].pos < NCtx
         /\ cells[c].delta \in Int /\ cells[c].seq_id \in SUBSET SeqIds
         /\ keys[c].rot \in Int /\ keys[c] \in Key
         /\ (cells[c].pos >= 0) <=> (cells[c].seq_id # {})
         /\ (c \in NonEmpty) <=> (cells[c].seq_id # {})
         /\ c \in NonEmpty => keys[c].rot + cells[c].delta = cells[c].pos
<1>1. cells[c] \in Cell /\ keys[c] \in Key
  BY DEF Inductive, Typed
<1>2. NCtx \in Nat \ {0}
  BY CacheAssumption
<1>3. cells[c].pos \in Int /\ cells[c].pos < NCtx
  BY <1>1, <1>2 DEF Cell, Positions
<1>4. /\ cells[c] = [pos |-> cells[c].pos, delta |-> cells[c].delta, seq_id |-> cells[c].seq_id]
      /\ cells[c].pos \in Positions \union {-1}
      /\ cells[c].delta \in Int /\ cells[c].seq_id \in SUBSET SeqIds
      /\ keys[c].rot \in Int
  BY <1>1 DEF Cell, Key
<1>5. (c \in NonEmpty) <=> (cells[c].seq_id # {})
  BY DEF NonEmpty
<1>6. cells[c] \in EditedCell
  BY <1>3, <1>4 DEF EditedCell
<1> QED
  BY <1>1, <1>3, <1>4, <1>5, <1>6 DEF Inductive, CellsConsistent

LEMMA FreedCell == -1 \in Int /\ -1 \in Positions \union {-1} /\ {} \in SUBSET SeqIds
  OBVIOUS

LEMMA MadeCell ==
  ASSUME NEW p \in Positions \union {-1}, NEW d \in Int, NEW S \in SUBSET SeqIds
  PROVE  [pos |-> p, delta |-> d, seq_id |-> S] \in Cell
BY DEF Cell

LEMMA Repositioned ==
  ASSUME NEW cell \in EditedCell, NEW p \in Int
  PROVE  /\ [cell EXCEPT !.pos = p] \in EditedCell
         /\ [cell EXCEPT !.pos = p] = [pos |-> p, delta |-> cell.delta, seq_id |-> cell.seq_id]
BY DEF EditedCell

LEMMA Displaced ==
  ASSUME NEW cell \in EditedCell, NEW p \in Int, NEW d \in Int
  PROVE  [cell EXCEPT !.pos = p, !.delta = d]
           = [pos |-> p, delta |-> d, seq_id |-> cell.seq_id]
<1> DEFINE one == [cell EXCEPT !.pos = p]
<1>1. [cell EXCEPT !.pos = p, !.delta = d] = [one EXCEPT !.delta = d]
  OBVIOUS
<1>2. one = [pos |-> p, delta |-> cell.delta, seq_id |-> cell.seq_id] /\ one \in EditedCell
  BY Repositioned
<1> HIDE DEF one
<1>3. [one EXCEPT !.delta = d] = [pos |-> p, delta |-> d, seq_id |-> cell.seq_id]
  BY <1>2 DEF EditedCell
<1> QED
  BY <1>1, <1>3, Zenon

LEMMA Reassigned ==
  ASSUME NEW cell \in EditedCell, NEW p \in Int, NEW S
  PROVE  [cell EXCEPT !.pos = p, !.seq_id = S] = [pos |-> p, delta |-> cell.delta, seq_id |-> S]
<1> DEFINE one == [cell EXCEPT !.pos = p]
<1>1. [cell EXCEPT !.pos = p, !.seq_id = S] = [one EXCEPT !.seq_id = S]
  OBVIOUS
<1>2. one = [pos |-> p, delta |-> cell.delta, seq_id |-> cell.seq_id] /\ one \in EditedCell
  BY Repositioned
<1> HIDE DEF one
<1>3. [one EXCEPT !.seq_id = S] = [pos |-> p, delta |-> cell.delta, seq_id |-> S]
  BY <1>2 DEF EditedCell
<1> QED
  BY <1>1, <1>3, Zenon

LEMMA ClearedCell ==
  ASSUME NEW cell \in EditedCell, cell.pos < NCtx
  PROVE  /\ Cleared(cell) \in Cell /\ Cleared(cell).delta = cell.delta
         /\ (Cleared(cell).pos >= 0) <=> (Cleared(cell).seq_id # {})
         /\ Cleared(cell).seq_id # {} => Cleared(cell) = cell
<1>1. NCtx \in Nat /\ cell.pos \in Int /\ cell.delta \in Int /\ cell.seq_id \in SUBSET SeqIds
  BY CacheAssumption DEF EditedCell
<1>2. CASE cell.seq_id = {} \/ cell.pos < 0
  <2>1. Cleared(cell) = [cell EXCEPT !.pos = -1, !.seq_id = {}]
    BY <1>2 DEF Cleared
  <2>5. Cleared(cell) = [pos |-> -1, delta |-> cell.delta, seq_id |-> {}]
    <3>1. -1 \in Int
      OBVIOUS
    <3> QED
      BY <2>1, <3>1, Reassigned, Zenon
  <2>6. -1 \in Positions \union {-1} /\ {} \in SUBSET SeqIds
    OBVIOUS
  <2> HIDE DEF Cleared
  <2>7. /\ Cleared(cell).pos = -1 /\ Cleared(cell).delta = cell.delta
        /\ Cleared(cell).seq_id = {} /\ Cleared(cell) \in Cell
    BY <1>1, <2>5, <2>6 DEF Cell
  <2> QED
    BY <2>7
<1>3. CASE ~(cell.seq_id = {} \/ cell.pos < 0)
  <2>1. Cleared(cell) = cell
    BY <1>3 DEF Cleared
  <2>2. cell.pos \in Positions
    BY <1>1, <1>3 DEF Positions
  <2> QED
    BY <1>1, <1>3, <2>1, <2>2 DEF Cell, EditedCell
<1> QED
  BY <1>2, <1>3

LEMMA SeqRmStep ==
  ASSUME Inductive, NEW s, NEW p0, NEW p1, CacheSeqRm(s, p0, p1)
  PROVE  Inductive'
<1> DEFINE e(c) == [cells[c] EXCEPT !.seq_id = @ \ {s}]
           f == [c \in Cells |-> IF Has(c, s, p0, p1) THEN Cleared(e(c)) ELSE cells[c]]
<1>1. Client /\ Edit(f) /\ UNCHANGED <<has_shift, do_defrag>>
  BY DEF CacheSeqRm
<1>2. ASSUME NEW c \in Cells
      PROVE  /\ e(c) \in EditedCell /\ e(c).pos = cells[c].pos /\ e(c).delta = cells[c].delta
             /\ e(c).pos < NCtx
  BY CellFacts DEF Cell, EditedCell
<1>3. ASSUME NEW c \in Cells
      PROVE  /\ f[c] \in Cell /\ f[c].delta = cells[c].delta
             /\ (f[c].pos >= 0) <=> (f[c].seq_id # {})
             /\ f[c].seq_id # {} => c \in NonEmpty /\ keys[c].rot + f[c].delta = f[c].pos
  <2> HIDE DEF e
  <2>1. CASE Has(c, s, p0, p1)
    <3>1. f[c] = Cleared(e(c)) /\ c \in NonEmpty
      BY <2>1 DEF Has, NonEmpty
    <3> QED
      BY <3>1, <1>2, CellFacts, ClearedCell
  <2>2. CASE ~Has(c, s, p0, p1)
    BY <2>2, CellFacts
  <2> QED
    BY <2>1, <2>2
<1>4. f \in [Cells -> Cell]
  <2> HIDE DEF e
  <2> QED
    BY <1>3
<1> HIDE DEF f
<1> QED
  BY <1>1, <1>3, <1>4, EditStep

LEMMA AllRmStep ==
  ASSUME Inductive, NEW p0, NEW p1, CacheAllRm(p0, p1)
  PROVE  Inductive'
<1> DEFINE e(c) == [cells[c] EXCEPT !.seq_id = {}]
           f == [c \in Cells |-> IF p0 <= cells[c].pos /\ cells[c].pos < p1
                                 THEN Cleared(e(c)) ELSE cells[c]]
<1>1. Client /\ Edit(f) /\ UNCHANGED <<has_shift, do_defrag>>
  BY DEF CacheAllRm
<1>2. ASSUME NEW c \in Cells
      PROVE  /\ e(c) \in EditedCell /\ e(c).delta = cells[c].delta
             /\ e(c).pos < NCtx /\ e(c).seq_id = {}
  BY CellFacts DEF Cell, EditedCell
<1>3. ASSUME NEW c \in Cells
      PROVE  /\ f[c] \in Cell /\ f[c].delta = cells[c].delta
             /\ (f[c].pos >= 0) <=> (f[c].seq_id # {})
             /\ f[c].seq_id # {} => c \in NonEmpty /\ keys[c].rot + f[c].delta = f[c].pos
  <2> HIDE DEF e
  <2>1. CASE p0 <= cells[c].pos /\ cells[c].pos < p1
    <3>1. f[c] = Cleared(e(c))
      BY <2>1
    <3> QED
      BY <3>1, <1>2, CellFacts, ClearedCell
  <2>2. CASE ~(p0 <= cells[c].pos /\ cells[c].pos < p1)
    BY <2>2, CellFacts
  <2> QED
    BY <2>1, <2>2
<1>4. f \in [Cells -> Cell]
  <2> HIDE DEF e
  <2> QED
    BY <1>3
<1> HIDE DEF f
<1> QED
  BY <1>1, <1>3, <1>4, EditStep

LEMMA SeqAddStep ==
  ASSUME Inductive, NEW s, NEW p0, NEW p1, NEW delta \in Deltas,
         \A c \in Cells : Has(c, s, p0, p1) => cells[c].pos + delta < NCtx,
         CacheSeqAdd(s, p0, p1, delta)
  PROVE  Inductive'
<1> DEFINE e(c) == [cells[c] EXCEPT !.pos = @ + delta, !.delta = @ + delta]
           f == [c \in Cells |-> IF Has(c, s, p0, p1) THEN Cleared(e(c)) ELSE cells[c]]
<1>1. /\ Client /\ cells' = f /\ keys' = KeysOf(f)
      /\ has_shift' = (has_shift \/ \E c \in Cells : Has(c, s, p0, p1))
      /\ used' = used - Cardinality(Freed(f))
      /\ head' = IF Freed(f) # {} THEN Least(Freed(f)) ELSE 0
      /\ UNCHANGED do_defrag
  BY DEF CacheSeqAdd, Shifted
<1> delta \in Int
  BY CacheAssumption
<1>2. ASSUME NEW c \in Cells
      PROVE  /\ e(c) \in EditedCell /\ e(c).seq_id = cells[c].seq_id
             /\ e(c).pos = cells[c].pos + delta /\ e(c).delta = cells[c].delta + delta
  <2>1. cells[c] \in EditedCell /\ cells[c].pos + delta \in Int /\ cells[c].delta + delta \in Int
    <3>1. cells[c] \in EditedCell /\ cells[c].pos \in Int /\ cells[c].delta \in Int
      BY CellFacts
    <3> QED
      BY <3>1
  <2>2. e(c) = [pos |-> cells[c].pos + delta, delta |-> cells[c].delta + delta,
                seq_id |-> cells[c].seq_id]
    BY <2>1, Displaced
  <2> HIDE DEF e
  <2> QED
    BY <2>1, <2>2, CellFacts DEF EditedCell
<1>3. ASSUME NEW c \in Cells
      PROVE  /\ f[c] \in Cell /\ (f[c].delta # 0 => has_shift' /\ pc' = "idle")
             /\ (f[c].pos >= 0) <=> (f[c].seq_id # {})
             /\ f[c].seq_id # {} => c \in NonEmpty /\ keys[c].rot + f[c].delta = f[c].pos
  <2> HIDE DEF e
  <2>1. CASE Has(c, s, p0, p1)
    <3>1. f[c] = Cleared(e(c)) /\ c \in NonEmpty /\ has_shift' /\ pc' = "idle"
      BY <2>1, <1>1 DEF Has, NonEmpty, Client
    <3>2. e(c).pos < NCtx
      BY <2>1, <1>2
    <3>3. keys[c].rot + e(c).delta = e(c).pos
      <4>1. /\ keys[c].rot \in Int /\ cells[c].delta \in Int /\ cells[c].pos \in Int
            /\ keys[c].rot + cells[c].delta = cells[c].pos
        BY <3>1, CellFacts
      <4>2. e(c).pos = cells[c].pos + delta /\ e(c).delta = cells[c].delta + delta
        BY <1>2
      <4> QED
        BY <4>1, <4>2
    <3> QED
      BY <3>1, <3>2, <3>3, <1>2, CellFacts, ClearedCell
  <2>2. CASE ~Has(c, s, p0, p1)
    BY <2>2, <1>1, CellFacts DEF Inductive, CellsConsistent, Client
  <2> QED
    BY <2>1, <2>2
<1>4. f \in [Cells -> Cell]
  <2> HIDE DEF e
  <2> QED
    BY <1>3
<1> HIDE DEF f
<1>5. keys' \in [Cells -> Key] /\ UsedIsExact' /\ CellsConsistent' /\ Freed(f) \in SUBSET Cells
  BY <1>1, <1>3, <1>4, EditKeeps DEF Inductive
<1>6. head' \in 0..Size
  BY <1>1, <1>5, HeadInRange DEF Inductive, Typed
<1>7. cells' \in [Cells -> Cell] /\ has_shift' \in BOOLEAN /\ do_defrag' \in BOOLEAN
  BY <1>1, <1>4 DEF Inductive, Typed
<1> QED
  BY <1>1, <1>5, <1>6, <1>7, ClientKeeps

LEMMA SeqKeepStep ==
  ASSUME Inductive, NEW s \in SeqIds, CacheSeqKeep(s)
  PROVE  Inductive'
<1> DEFINE freed == {c \in Cells : s \notin cells[c].seq_id}
           e(c) == [cells[c] EXCEPT !.pos = -1, !.seq_id = {}]
           k(c) == [cells[c] EXCEPT !.seq_id = {s}]
           f == [c \in Cells |-> IF c \in freed THEN e(c) ELSE k(c)]
<1>1. /\ Client /\ cells' = f /\ keys' = KeysOf(cells')
      /\ used' = used - Cardinality({c \in freed : cells[c].pos >= 0})
      /\ head' = IF freed # {} /\ Least(freed) < head THEN Least(freed) ELSE head
      /\ UNCHANGED <<has_shift, do_defrag>>
  BY DEF CacheSeqKeep
<1>2. ASSUME NEW c \in Cells
      PROVE  /\ e(c) = [pos |-> -1, delta |-> cells[c].delta, seq_id |-> {}]
             /\ k(c) = [pos |-> cells[c].pos, delta |-> cells[c].delta, seq_id |-> {s}]
  <2>1. cells[c] \in EditedCell /\ -1 \in Int
    BY CellFacts, FreedCell, Zenon
  <2>2. e(c) = [pos |-> -1, delta |-> cells[c].delta, seq_id |-> {}]
    BY <2>1, Reassigned, Zenon
  <2> QED
    BY <2>1, <2>2 DEF EditedCell
<1>3. ASSUME NEW c \in Cells
      PROVE  /\ f[c] \in Cell /\ f[c].delta = cells[c].delta
             /\ (f[c].pos >= 0) <=> (f[c].seq_id # {})
             /\ f[c].seq_id # {} => c \in NonEmpty /\ keys[c].rot + f[c].delta = f[c].pos
             /\ f[c].seq_id = {} <=> c \in freed
  <2> HIDE DEF e, k
  <2>1. CASE c \in freed
    <3>1. f[c] = [pos |-> -1, delta |-> cells[c].delta, seq_id |-> {}]
      BY <2>1, <1>2
    <3> HIDE DEF f
    <3>2. f[c].pos = -1 /\ f[c].delta = cells[c].delta /\ f[c].seq_id = {}
      BY <3>1
    <3>3. f[c] \in Cell
      <4>1. cells[c].delta \in Int
        BY CellFacts
      <4> QED
        BY <3>1, <4>1, FreedCell, MadeCell, Zenon
    <3> QED
      BY <2>1, <3>2, <3>3
  <2>2. CASE c \notin freed
    <3>1. f[c] = [pos |-> cells[c].pos, delta |-> cells[c].delta, seq_id |-> {s}]
      BY <2>2, <1>2
    <3> HIDE DEF f
    <3>2. cells[c].seq_id # {} /\ {s} \in SUBSET SeqIds
      BY <2>2
    <3>3. f[c].pos = cells[c].pos /\ f[c].delta = cells[c].delta /\ f[c].seq_id = {s}
      BY <3>1
    <3>4. f[c] \in Cell
      <4>1. cells[c].delta \in Int /\ cells[c].pos \in Positions \union {-1}
        BY CellFacts
      <4> QED
        BY <3>1, <3>2, <4>1, MadeCell, Zenon
    <3> QED
      BY <2>2, <3>2, <3>3, <3>4, CellFacts
  <2> QED
    BY <2>1, <2>2
<1>4. f \in [Cells -> Cell]
  <2> HIDE DEF e, k, freed
  <2> QED
    BY <1>3
<1>5. {c \in freed : cells[c].pos >= 0} = Freed(f)
  <2> HIDE DEF f
  <2>1. \A c \in Cells : (cells[c].pos >= 0) <=> (c \in NonEmpty)
    BY DEF Inductive, CellsConsistent
  <2>2. \A c \in Freed(f) : c \in Cells /\ c \in NonEmpty /\ f[c].seq_id = {}
    BY DEF Freed, NonEmpty
  <2>3. \A c \in Cells : c \in NonEmpty /\ f[c].seq_id = {} => c \in Freed(f)
    BY DEF Freed
  <2>4. \A c \in Cells : f[c].seq_id = {} <=> c \in freed
    BY <1>3
  <2> HIDE DEF freed
  <2>5. freed \in SUBSET Cells
    BY DEF freed
  <2> QED
    BY <2>1, <2>2, <2>3, <2>4, <2>5, Zenon
<1>6. freed \in SUBSET Cells
  OBVIOUS
<1> HIDE DEF f, freed
<1>7. \A c \in Cells : f[c].delta # 0 => has_shift' /\ pc' = "idle"
  BY <1>1, <1>3 DEF Inductive, CellsConsistent, Client
<1>8. keys' \in [Cells -> Key] /\ UsedIsExact' /\ CellsConsistent'
  <2>1. keys' = KeysOf(f) /\ used' = used - Cardinality(Freed(f))
    BY <1>1, <1>5
  <2> QED
    BY <1>1, <1>3, <1>4, <1>7, <2>1, EditKeeps DEF Inductive
<1>9. head' \in 0..Size
  BY <1>1, <1>6, HeadInRange DEF Inductive, Typed
<1> QED
  BY <1>1, <1>4, <1>8, <1>9, ClientKeeps DEF Inductive, Typed

\* An edit that leaves every cell the sequences it has, or adds some to cells with some
LEMMA NothingFreed ==
  ASSUME Inductive, NEW f \in [Cells -> Cell], cells' = f, UNCHANGED used,
         \A c \in Cells : f[c].seq_id = {} <=> cells[c].seq_id = {}
  PROVE  NonEmpty' = NonEmpty /\ UsedIsExact'
BY DEF Inductive, UsedIsExact, NonEmpty

LEMMA SeqCpStep ==
  ASSUME Inductive, NEW src, NEW dst \in SeqIds, NEW p0, NEW p1, CacheSeqCp(src, dst, p0, p1)
  PROVE  Inductive'
<1> DEFINE e(c) == [cells[c] EXCEPT !.seq_id = @ \union {dst}]
           f == [c \in Cells |-> IF Has(c, src, p0, p1) THEN e(c) ELSE cells[c]]
<1>1. Client /\ cells' = f /\ head' = 0 /\ UNCHANGED <<keys, used, has_shift, do_defrag>>
  BY DEF CacheSeqCp
<1>2. ASSUME NEW c \in Cells
      PROVE  /\ f[c] \in Cell /\ f[c].delta = cells[c].delta /\ f[c].pos = cells[c].pos
             /\ f[c].seq_id = {} <=> cells[c].seq_id = {}
  <2>1. e(c) = [pos |-> cells[c].pos, delta |-> cells[c].delta,
                seq_id |-> cells[c].seq_id \union {dst}]
    <3>1. cells[c] \in EditedCell
      BY CellFacts
    <3> QED
      BY <3>1 DEF EditedCell
  <2> HIDE DEF e
  <2>2. CASE Has(c, src, p0, p1)
    <3>1. f[c] = e(c) /\ cells[c].seq_id # {}
      BY <2>2 DEF Has
    <3>2. cells[c].seq_id \union {dst} \in SUBSET SeqIds
      BY CellFacts
    <3> HIDE DEF f
    <3>3. /\ f[c].pos = cells[c].pos /\ f[c].delta = cells[c].delta
          /\ f[c].seq_id = cells[c].seq_id \union {dst}
      BY <2>1, <3>1
    <3>4. f[c] \in Cell
      <4>1. cells[c].delta \in Int /\ cells[c].pos \in Positions \union {-1}
        BY CellFacts
      <4> QED
        BY <2>1, <3>1, <3>2, <4>1, MadeCell, Zenon
    <3> QED
      BY <3>1, <3>3, <3>4
  <2>3. CASE ~Has(c, src, p0, p1)
    BY <2>3, CellFacts
  <2> QED
    BY <2>2, <2>3
<1>3. f \in [Cells -> Cell]
  <2> HIDE DEF e
  <2> QED
    BY <1>2
<1> HIDE DEF f
<1>4. UsedIsExact' /\ NonEmpty' = NonEmpty
  BY <1>1, <1>2, <1>3, NothingFreed
<1>5. CellsConsistent'
  <2>1. \A c \in Cells : cells'[c].pos = cells[c].pos /\ cells'[c].delta = cells[c].delta
    BY <1>1, <1>2
  <2>2. \A c \in NonEmpty : c \in Cells
    BY DEF NonEmpty
  <2> QED
    BY <1>1, <1>4, <2>1, <2>2 DEF Inductive, CellsConsistent, Client
<1>6. head' \in 0..Size
  BY <1>1, SomeCells
<1> QED
  BY <1>1, <1>3, <1>4, <1>5, <1>6, ClientKeeps DEF Inductive, Typed

LEMMA SeqDivStep ==
  ASSUME Inductive, NEW s, NEW p0 \in Positions, NEW p1, NEW d \in Divisors,
         CacheSeqDiv(s, p0, p1, d)
  PROVE  Inductive'
<1> DEFINE q(c) == cells[c].pos \div d
           e(c) == [cells[c] EXCEPT !.pos = @ \div d, !.delta = @ + q(c) - cells[c].pos]
           f == [c \in Cells |-> IF Has(c, s, p0, p1) THEN e(c) ELSE cells[c]]
<1>1. /\ Client /\ cells' = f
      /\ has_shift' = (has_shift \/ \E c \in Cells : Has(c, s, p0, p1))
      /\ UNCHANGED <<keys, head, used, do_defrag>>
  BY DEF CacheSeqDiv
<1>2. ASSUME NEW c \in Cells, Has(c, s, p0, p1)
      PROVE  /\ q(c) \in Positions /\ q(c) \in Nat
             /\ e(c) = [pos |-> q(c), delta |-> cells[c].delta + (q(c) - cells[c].pos),
                        seq_id |-> cells[c].seq_id]
  <2>1. /\ cells[c] \in EditedCell /\ cells[c].pos \in Int /\ cells[c].delta \in Int
        /\ cells[c].pos < NCtx
    BY CellFacts
  <2>2. d \in Nat /\ d >= 2 /\ NCtx \in Nat /\ p0 \in Nat
    BY CacheAssumption DEF Positions
  <2>3. cells[c].pos \in Nat
    BY <1>2, <2>1, <2>2 DEF Has
  <2>4. q(c) \in Nat /\ q(c) <= cells[c].pos
    <3> DEFINE p == cells[c].pos
    <3>1. p \in Nat
      BY <2>3
    <3> HIDE DEF p
    <3>2. p \div d \in Nat /\ p \div d <= p
      BY <2>2, <3>1
    <3> QED
      BY <3>2 DEF p
  <2>5. q(c) \in Positions
    BY <2>1, <2>2, <2>4 DEF Positions
  <2> HIDE DEF q
  <2>6. cells[c].delta + q(c) - cells[c].pos \in Int /\ q(c) \in Int
    BY <2>1, <2>4
  <2>7. e(c) = [pos |-> q(c), delta |-> cells[c].delta + q(c) - cells[c].pos,
                seq_id |-> cells[c].seq_id]
    BY <2>1, <2>6, Displaced DEF q
  <2> QED
    BY <2>1, <2>4, <2>5, <2>7
<1>3. ASSUME NEW c \in Cells
      PROVE  /\ f[c] \in Cell /\ (f[c].delta # 0 => has_shift' /\ pc' = "idle")
             /\ f[c].seq_id = cells[c].seq_id
             /\ (f[c].pos >= 0) <=> (f[c].seq_id # {})
             /\ f[c].seq_id # {} => keys[c].rot + f[c].delta = f[c].pos
  <2> HIDE DEF e, q
  <2>0. /\ keys[c].rot \in Int /\ cells[c].delta \in Int /\ cells[c].pos \in Int
        /\ cells[c].seq_id \in SUBSET SeqIds
    BY CellFacts
  <2>1. CASE Has(c, s, p0, p1)
    <3>1. /\ f[c] = [pos |-> q(c), delta |-> cells[c].delta + (q(c) - cells[c].pos),
                     seq_id |-> cells[c].seq_id]
          /\ cells[c].seq_id # {} /\ has_shift' /\ pc' = "idle"
      BY <2>1, <1>1, <1>2 DEF Has, Client
    <3>2. keys[c].rot + cells[c].delta = cells[c].pos
      BY <3>1, CellFacts
    <3>3. q(c) \in Nat /\ q(c) \in Positions
      BY <2>1, <1>2
    <3> HIDE DEF f
    <3>4. f[c].pos = q(c) /\ f[c].delta = cells[c].delta + (q(c) - cells[c].pos) /\ f[c].seq_id = cells[c].seq_id
      BY <3>1
    <3>5. f[c].delta \in Int /\ keys[c].rot + f[c].delta = f[c].pos
      BY <2>0, <3>2, <3>3, <3>4
    <3>6. f[c] \in Cell
      BY <2>0, <3>1, <3>3, <3>4, <3>5 DEF Cell
    <3> QED
      BY <3>1, <3>3, <3>4, <3>5, <3>6
  <2>2. CASE ~Has(c, s, p0, p1)
    BY <2>2, <1>1, CellFacts DEF Inductive, CellsConsistent, Client
  <2> QED
    BY <2>1, <2>2
<1>4. f \in [Cells -> Cell]
  <2> HIDE DEF e, q
  <2> QED
    BY <1>3
<1> HIDE DEF f
<1>5. UsedIsExact' /\ NonEmpty' = NonEmpty
  BY <1>1, <1>3, <1>4, NothingFreed
<1>6. CellsConsistent'
  <2>1. \A c \in Cells : c \in NonEmpty <=> cells[c].seq_id # {}
    BY DEF NonEmpty
  <2>2. \A c \in NonEmpty : c \in Cells
    BY DEF NonEmpty
  <2> QED
    BY <1>1, <1>3, <1>5, <2>1, <2>2 DEF CellsConsistent
<1>7. has_shift' \in BOOLEAN
  BY <1>1 DEF Inductive, Typed
<1> QED
  BY <1>1, <1>4, <1>5, <1>6, <1>7, ClientKeeps DEF Inductive, Typed

LEMMA ClearStep ==
  ASSUME Inductive, CacheClear
  PROVE  Inductive'
<1> DEFINE f == [c \in Cells |-> [cells[c] EXCEPT !.pos = -1, !.seq_id = {}]]
<1>1. /\ Client /\ cells' = f /\ keys' = [c \in Cells |-> NoKey] /\ head' = 0 /\ used' = 0
      /\ UNCHANGED <<has_shift, do_defrag>>
  BY DEF CacheClear
<1>2. ASSUME NEW c \in Cells
      PROVE  f[c] \in Cell /\ f[c].pos = -1 /\ f[c].seq_id = {} /\ f[c].delta = cells[c].delta
  <2>1. cells[c] \in EditedCell /\ -1 \in Int /\ cells[c].delta \in Int
    BY CellFacts, FreedCell, Zenon
  <2>2. f[c] = [pos |-> -1, delta |-> cells[c].delta, seq_id |-> {}]
    BY <2>1, Reassigned, Zenon
  <2>3. -1 \in Positions \union {-1} /\ {} \in SUBSET SeqIds
    OBVIOUS
  <2> HIDE DEF f
  <2> QED
    BY <2>1, <2>2, <2>3 DEF Cell
<1>3. f \in [Cells -> Cell]
  <2>1. \A c \in Cells : f[c] \in Cell
    BY <1>2
  <2> QED
    BY <2>1
<1> HIDE DEF f
<1>4. NonEmpty' = {}
  BY <1>1, <1>2 DEF NonEmpty
<1>5. UsedIsExact'
  BY <1>1, <1>4, FS_EmptySet DEF UsedIsExact
<1>6. CellsConsistent'
  <2>1. \A c \in Cells : cells'[c].pos = -1 /\ cells'[c].delta = cells[c].delta
    BY <1>1, <1>2
  <2> QED
    BY <1>1, <1>4, <2>1 DEF Inductive, CellsConsistent, Client
<1>7. keys' \in [Cells -> Key] /\ head' \in 0..Size
  BY <1>1, SomeCells DEF Key, NoKey
<1> QED
  BY <1>1, <1>3, <1>5, <1>6, <1>7, ClientKeeps DEF Inductive, Typed

LEMMA DefragStep ==
  ASSUME Inductive, CacheDefrag
  PROVE  Inductive'
<1>1. Client /\ UNCHANGED <<cells, keys, head, used, has_shift>> /\ do_defrag' = TRUE
  BY DEF CacheDefrag
<1>2. UsedIsExact' /\ CellsConsistent'
  BY <1>1 DEF Inductive, UsedIsExact, CellsConsistent, NonEmpty, Client
<1> QED
  BY <1>1, <1>2, ClientKeeps DEF Inductive, Typed

-----------------------------------------------------------------------------
(* llama_decode: the shift and the compaction                              *)

LEMMA CellNumbers ==
  ASSUME Inductive
  PROVE  /\ Size \in Nat \ {0} /\ MaxMoves \in Nat \ {0} /\ MaxBatch \in 1..Size
         /\ NCtx \in Nat \ {0}
         /\ NonEmpty \in SUBSET Cells /\ NonEmpty \in SUBSET (0..Size) /\ NonEmpty \in SUBSET Nat
         /\ IsFiniteSet(NonEmpty) /\ used = Cardinality(NonEmpty) /\ used \in 0..Size
<1>1. Size \in Nat \ {0} /\ MaxMoves \in Nat \ {0} /\ MaxBatch \in 1..Size /\ NCtx \in Nat \ {0}
  BY CacheAssumption
<1>2. NonEmpty \in SUBSET Cells
  BY DEF NonEmpty
<1>3. NonEmpty \in SUBSET (0..Size) /\ NonEmpty \in SUBSET Nat
  BY <1>1, <1>2 DEF Cells
<1> QED
  BY <1>1, <1>2, <1>3, SomeCells DEF Inductive, UsedIsExact

LEMMA DecodeStep ==
  ASSUME Inductive, NEW s \in SeqIds, NEW p \in Positions, NEW k \in 1..MaxBatch,
         p + k <= NCtx, NEW tokens \in [1..k -> Tokens], Decode(s, p, tokens)
  PROVE  Inductive'
<1>1. /\ pc = "idle" /\ pc' \in {"defrag", "slot"}
      /\ batch' = [seq |-> s, pos |-> p, tokens |-> tokens]
      /\ has_shift' = FALSE
      /\ UNCHANGED <<head, used, do_defrag, n_tested, i0, nh, nf, i1, cont, n_moves, attended>>
  BY DEF Decode, loopVars, defragVars
<1>2. ASSUME NEW c \in Cells
      PROVE  /\ cells'[c] \in Cell /\ cells'[c].delta = 0
             /\ cells'[c].pos = cells[c].pos /\ cells'[c].seq_id = cells[c].seq_id
  <2>1. /\ cells[c] \in EditedCell /\ cells[c] \in Cell
        /\ cells[c].pos \in Positions \union {-1} /\ cells[c].seq_id \in SUBSET SeqIds
    BY CellFacts
  <2>2. CASE has_shift
    <3>1. cells'[c] = [cells[c] EXCEPT !.delta = 0]
      BY <2>2 DEF Decode
    <3>2. [cells[c] EXCEPT !.delta = 0]
            = [pos |-> cells[c].pos, delta |-> 0, seq_id |-> cells[c].seq_id]
      BY <2>1 DEF EditedCell
    <3>3. 0 \in Int
      OBVIOUS
    <3>4. [pos |-> cells[c].pos, delta |-> 0, seq_id |-> cells[c].seq_id] \in Cell
      BY <2>1, <3>3, MadeCell, Zenon
    <3>5. cells'[c] = [pos |-> cells[c].pos, delta |-> 0, seq_id |-> cells[c].seq_id]
      BY <3>1, <3>2
    <3> QED
      BY <3>4, <3>5
  <2>3. CASE ~has_shift
    <3>1. cells'[c] = cells[c]
      BY <2>3 DEF Decode
    <3> QED
      BY <2>1, <2>3, <3>1 DEF Inductive, CellsConsistent
  <2> QED
    BY <2>2, <2>3 DEF Inductive, Typed
<1>3. ASSUME NEW c \in Cells
      PROVE  /\ keys'[c] \in Key
             /\ c \in NonEmpty => keys'[c].rot = cells[c].pos
  <2>1. /\ keys[c] \in Key /\ keys[c].rot \in Int /\ cells[c].delta \in Int /\ cells[c].pos \in Int
        /\ (c \in NonEmpty => keys[c].rot + cells[c].delta = cells[c].pos)
    BY CellFacts
  <2>2. CASE has_shift /\ c \in NonEmpty
    <3>1. keys'[c] = [keys[c] EXCEPT !.rot = @ + cells[c].delta]
      BY <2>2 DEF Decode
    <3>2. keys[c].rot + cells[c].delta \in Int
      BY <2>1
    <3> QED
      BY <2>1, <2>2, <3>1, <3>2 DEF Key
  <2>3. CASE ~(has_shift /\ c \in NonEmpty)
    <3>1. keys'[c] = keys[c]
      BY <2>3 DEF Decode
    <3>2. c \in NonEmpty => cells[c].delta = 0
      BY <2>3 DEF Inductive, CellsConsistent
    <3> QED
      BY <2>1, <3>1, <3>2
  <2> QED
    BY <2>2, <2>3
<1>4. cells' \in [Cells -> Cell] /\ keys' \in [Cells -> Key]
  <2>1. /\ cells' = [c \in Cells |-> cells'[c]]
        /\ keys' = [c \in Cells |-> keys'[c]]
    BY DEF Decode
  <2> QED
    BY <1>2, <1>3, <2>1
<1>5. NonEmpty' = NonEmpty
  BY <1>2 DEF NonEmpty
<1>6. UsedIsExact'
  BY <1>1, <1>5 DEF Inductive, UsedIsExact
<1>7. CellsConsistent'
  <2>1. ASSUME NEW c \in NonEmpty PROVE (keys[c].rot + cells[c].delta = cells[c].pos)'
    <3>1. c \in Cells
      BY <2>1 DEF NonEmpty
    <3>2. cells[c].pos \in Int
      BY <3>1, CellFacts
    <3>3. keys'[c].rot = cells[c].pos /\ cells'[c].delta = 0 /\ cells'[c].pos = cells[c].pos
      BY <1>2, <1>3, <3>1
    <3> QED
      BY <3>2, <3>3
  <2> QED
    BY <1>2, <1>5, <2>1 DEF Inductive, CellsConsistent
<1>8. Typed'
  BY <1>1, <1>4 DEF Inductive, Typed
<1>9. BatchFits'
  <2>1. tokens \in Seq(Tokens) /\ Len(tokens) = k
    BY LenProperties, IsASeq
  <2> QED
    BY <1>1, <2>1 DEF BatchFits, n_tokens, Batch
<1>10. Compacting' /\ Searched'
  <2>1. i0 = 0 /\ n_moves = 0
    BY <1>1 DEF Inductive, BatchFits, LoopsAtRest
  <2>2. i0' <= used' /\ n_moves' < MaxMoves /\ \A c \in 0..(i0' - 1) : FALSE
    BY <1>1, <2>1, CellNumbers
  <2> QED
    BY <1>1, <2>2 DEF Compacting, Searched
<1> QED
  BY <1>6, <1>7, <1>8, <1>9, <1>10 DEF Inductive

\* The bookkeeping of the cells is not disturbed by a step that leaves them alone.
LEMMA CellsAlone ==
  ASSUME Inductive, UNCHANGED <<cells, keys, used, has_shift>>, pc # "idle"
  PROVE  UsedIsExact' /\ CellsConsistent' /\ NonEmpty' = NonEmpty
<1>1. NonEmpty' = NonEmpty
  BY DEF NonEmpty
<1> QED
  BY <1>1 DEF Inductive, UsedIsExact, CellsConsistent

LEMMA KeepCellStep ==
  ASSUME Inductive, KeepCell
  PROVE  Inductive'
<1>1. UsedIsExact' /\ CellsConsistent' /\ NonEmpty' = NonEmpty
  BY CellsAlone DEF KeepCell, Defragging
<1>2. i0 \in 0..Size /\ i0 < used /\ used \in 0..Size /\ Size \in Nat
  BY CellNumbers DEF Inductive, Typed, KeepCell
<1>3. Typed'
  BY <1>2 DEF Inductive, Typed, KeepCell, Defragging
<1>4. BatchFits'
  BY DEF Inductive, BatchFits, KeepCell, Defragging, n_tokens
<1>5. Compacting'
  <2>1. \A c \in 0..(i0' - 1) : c \in 0..(i0 - 1) \/ c = i0
    BY <1>2 DEF KeepCell
  <2>2. i0' <= used'
    BY <1>2 DEF KeepCell, Defragging
  <2> QED
    BY <1>1, <2>1, <2>2 DEF Inductive, Compacting, KeepCell
<1>6. Searched'
  BY DEF Searched, KeepCell
<1> QED
  BY <1>1, <1>3, <1>4, <1>5, <1>6 DEF Inductive

LEMMA NoHoleLeftStep ==
  ASSUME Inductive, NoHoleLeft
  PROVE  Inductive'
<1>1. UsedIsExact' /\ CellsConsistent'
  BY CellsAlone DEF NoHoleLeft, Defragging
<1>2. Typed' /\ BatchFits' /\ Compacting' /\ Searched'
  BY DEF Inductive, Typed, BatchFits, n_tokens, Compacting, Searched, NoHoleLeft, Defragging,
         EndDefrag, defragVars
<1> QED
  BY <1>1, <1>2 DEF Inductive

\* A hole is no larger than what is left below used, and the last cells in use, of
\* which there are enough, all lie behind it.
LEMMA HoleFacts ==
  ASSUME Inductive, pc = "defrag", i0 < used, i0 \notin NonEmpty
  PROVE  /\ HoleSize \in 1..Size /\ i0 + HoleSize <= used
         /\ \A c \in i0..(i0 + HoleSize - 1) : c \notin NonEmpty
         /\ Cardinality(Fillers(HoleSize)) = HoleSize
         /\ Fillers(HoleSize) \in SUBSET NonEmpty
         /\ \A c \in Fillers(HoleSize) : c >= used
         /\ \A c \in Fillers(HoleSize), d \in NonEmpty : d >= c => d \in Fillers(HoleSize)
<1>1. /\ i0 \in 0..Size /\ used \in 0..Size /\ Size \in Nat \ {0} /\ used = Cardinality(NonEmpty)
      /\ NonEmpty \in SUBSET (0..Size) /\ NonEmpty \in SUBSET Nat /\ IsFiniteSet(NonEmpty)
  BY CellNumbers DEF Inductive, Typed
<1> DEFINE Ends == {k \in 1..Size : i0 + k >= used \/ (i0 + k) \in NonEmpty}
           h == HoleSize
<1>2. h \in Ends /\ \A k \in Ends : h <= k
  <2>1. used - i0 \in 1..Size /\ i0 + (used - i0) >= used
    BY <1>1
  <2>2. Ends \in SUBSET Nat /\ used - i0 \in Ends
    BY <2>1
  <2>3. h = Least(Ends)
    BY DEF HoleSize
  <2> HIDE DEF Ends, h
  <2> QED
    BY <2>2, <2>3, LeastIs
<1>3. h \in 1..Size /\ i0 + h <= used
  <2>1. used - i0 \in Ends
    BY <1>1
  <2> HIDE DEF h
  <2>2. h \in 1..Size /\ h <= used - i0
    BY <1>2, <2>1
  <2> QED
    BY <1>1, <2>2
<1>4. \A c \in i0..(i0 + h - 1) : c \notin NonEmpty
  <2> SUFFICES ASSUME NEW c \in i0..(i0 + h - 1), c \in NonEmpty, c # i0 PROVE FALSE
    OBVIOUS
  <2> HIDE DEF h
  <2>1. c - i0 \in 1..Size /\ i0 + (c - i0) = c /\ c - i0 < h
    BY <1>1, <1>3
  <2>2. c - i0 \in Ends
    BY <2>1
  <2> QED
    BY <1>2, <1>3, <2>1, <2>2
<1> HIDE DEF h, Ends
<1>5. Cardinality(From(NonEmpty, used)) >= h
  <2> DEFINE below == {d \in NonEmpty : d < used}
             low == 0..(i0 - 1)
             high == (i0 + h)..(used - 1)
  <2>1. /\ Cardinality(From(NonEmpty, used)) \in Nat /\ Cardinality(below) \in Nat
        /\ Cardinality(NonEmpty) = Cardinality(From(NonEmpty, used)) + Cardinality(below)
    <3>1. NonEmpty \in SUBSET Int /\ used \in Int
      BY <1>1
    <3> QED
      BY <1>1, <3>1, SplitSet DEF From
  <2>2. below \in SUBSET (low \cup high)
    <3> SUFFICES ASSUME NEW d \in NonEmpty, d < used PROVE d \in low \cup high
      OBVIOUS
    <3>1. d \in Nat /\ d \notin i0..(i0 + h - 1)
      BY <1>1, <1>4
    <3> QED
      BY <1>1, <1>3, <3>1
  <2>3. /\ IsFiniteSet(low) /\ Cardinality(low) = i0
        /\ IsFiniteSet(high) /\ Cardinality(high) = used - i0 - h
    <3>1. 0 \in Int /\ i0 - 1 \in Int /\ i0 + h \in Int /\ used - 1 \in Int
      BY <1>1, <1>3
    <3>2. IsFiniteSet(low) /\ Cardinality(low) = IF 0 > i0 - 1 THEN 0 ELSE i0 - 1 - 0 + 1
      BY <3>1, FS_Interval
    <3>3. IsFiniteSet(high)
          /\ Cardinality(high) = IF i0 + h > used - 1 THEN 0 ELSE used - 1 - (i0 + h) + 1
      BY <3>1, FS_Interval
    <3> QED
      BY <1>1, <1>3, <3>2, <3>3
  <2>4. low \cap high = {}
    BY <1>1, <1>3
  <2> HIDE DEF low, high, below
  <2>5. IsFiniteSet(low \cup high) /\ Cardinality(low \cup high) = i0 + (used - i0 - h)
    <3>1. Cardinality(low \cap high) = 0
      BY <2>4, FS_EmptySet
    <3>2. /\ IsFiniteSet(low \cup high)
          /\ Cardinality(low \cup high)
               = Cardinality(low) + Cardinality(high) - Cardinality(low \cap high)
      BY <2>3, FS_Union
    <3> QED
      BY <1>1, <1>3, <2>3, <3>1, <3>2
  <2>6. Cardinality(below) <= i0 + (used - i0 - h)
    BY <2>2, <2>5, FS_Subset
  <2> QED
    BY <1>1, <1>3, <2>1, <2>6
<1>6. ASSUME NEW c \in LastOf(NonEmpty, h)
      PROVE  c >= used
  <2>1. c \in NonEmpty /\ c \in Nat /\ Cardinality(From(NonEmpty, c)) <= h
    BY <1>1 DEF LastOf
  <2> SUFFICES ASSUME c < used PROVE FALSE
    BY <1>1, <2>1
  <2>2. /\ Cardinality(From(NonEmpty, used)) + 1 <= Cardinality(From(NonEmpty, c))
        /\ Cardinality(From(NonEmpty, used)) \in Nat /\ Cardinality(From(NonEmpty, c)) \in Nat
    <3>1. used \in Nat
      BY <1>1
    <3> QED
      BY <1>1, <2>1, <3>1, FromGrows
  <2> QED
    BY <1>3, <1>5, <2>1, <2>2
<1>7. Fillers(h) = LastOf(NonEmpty, h)
  <2>1. \A c \in LastOf(NonEmpty, h) : c > i0
    <3>1. \A c \in LastOf(NonEmpty, h) : c \in Nat
      BY <1>1 DEF LastOf
    <3> QED
      BY <1>1, <1>6, <3>1
  <2> QED
    BY <2>1 DEF Fillers, LastOf, From
<1>8. Cardinality(Fillers(h)) = h
  <2>1. h \in 0..Cardinality(NonEmpty)
    BY <1>1, <1>3
  <2>2. Size \in Nat
    BY <1>1
  <2> QED
    BY <1>1, <1>7, <2>1, <2>2, LastCount
<1>9. Fillers(h) \in SUBSET NonEmpty
  BY DEF Fillers
<1>10. \A c \in Fillers(h), d \in NonEmpty : d >= c => d \in Fillers(h)
  <2>1. h \in Nat
    BY <1>3
  <2> QED
    BY <1>1, <1>7, <2>1, LastAreLast
<1> QED
  BY <1>3, <1>4, <1>6, <1>7, <1>8, <1>9, <1>10 DEF h

LEMMA FindHoleStep ==
  ASSUME Inductive, FindHole
  PROVE  Inductive'
<1> DEFINE h == HoleSize
           F == Fillers(HoleSize)
<1>1. UsedIsExact' /\ CellsConsistent' /\ NonEmpty' = NonEmpty
  BY CellsAlone DEF FindHole, Defragging
<1>2. /\ i0 \in 0..Size /\ used \in 0..Size /\ Size \in Nat \ {0}
      /\ NonEmpty \in SUBSET Cells /\ NonEmpty \in SUBSET Nat
  BY CellNumbers DEF Inductive, Typed
<1>3. /\ h \in 1..Size /\ i0 + h <= used /\ \A c \in i0..(i0 + h - 1) : c \notin NonEmpty
      /\ Cardinality(F) = h /\ F \in SUBSET NonEmpty /\ \A c \in F : c >= used
      /\ \A c \in F, d \in NonEmpty : d >= c => d \in F
  BY HoleFacts DEF FindHole
<1>4. nh' = h /\ i1' = Least(F) /\ nf' = 0 /\ cont' = FALSE /\ pc' = "move"
  BY DEF FindHole
<1> HIDE DEF h, F
<1>5. i1' \in F /\ \A d \in F : i1' <= d
  <2>1. F # {}
    BY <1>3, FS_EmptySet
  <2>2. F \in SUBSET Nat
    BY <1>2, <1>3
  <2> QED
    BY <1>4, <2>1, <2>2, LeastIs
<1>6. i1' \in 0..Size /\ used <= i1'
  BY <1>2, <1>3, <1>5 DEF Cells
<1>7. Typed'
  <2>1. nh' \in 0..Size /\ nf' \in 0..Size /\ pc' = "move"
    BY <1>2, <1>3, <1>4
  <2>2. UNCHANGED <<cells, keys, head, used, has_shift, do_defrag, n_tested, i0, n_moves, attended>>
    BY DEF FindHole, Defragging
  <2>3. cont' \in BOOLEAN
    BY <1>4
  <2> QED
    BY <1>6, <2>1, <2>2, <2>3 DEF Inductive, Typed
<1>8. BatchFits'
  BY DEF Inductive, BatchFits, FindHole, Defragging, n_tokens
<1>9. InUseFrom(i1)' = h
  <2>1. {d \in NonEmpty : d >= i1'} = F
    <3>1. \A d \in F : d \in NonEmpty /\ d >= i1'
      BY <1>2, <1>3, <1>5, <1>6
    <3>2. \A d \in NonEmpty : d >= i1' => d \in F
      BY <1>3, <1>5
    <3> QED
      BY <3>1, <3>2, Zenon
  <2> QED
    BY <1>1, <1>3, <2>1 DEF InUseFrom
<1>10. Compacting'
  <2>1. i0' = i0 /\ used' = used /\ n_moves' = n_moves
    BY DEF FindHole, Defragging
  <2>2. n_moves < MaxMoves /\ \A c \in 0..(i0 - 1) : c \in NonEmpty
    BY DEF Inductive, Compacting, FindHole
  <2>3. nf' < nh' /\ i0' + nh' <= used' /\ nf' + InUseFrom(i1)' = nh' /\ used' <= i1'
    BY <1>2, <1>3, <1>4, <1>6, <1>9, <2>1
  <2>4. i0' + nf' = i0 /\ i0' + nh' = i0 + h
    BY <1>2, <1>3, <1>4, <2>1
  <2>5. pc' = "move" /\ n_moves' < MaxMoves
    BY <1>4, <2>1, <2>2
  <2>6. \A c \in 0..(i0' + nf' - 1) : c \in NonEmpty'
    <3>1. (i0' + nf') - 1 = i0 - 1
      BY <2>4
    <3> QED
      BY <1>1, <1>2, <1>4, <2>1, <2>2
  <2>7. \A c \in (i0' + nf')..(i0' + nh' - 1) : c \notin NonEmpty'
    BY <1>1, <1>2, <1>3, <1>4, <2>1
  <2> QED
    BY <2>3, <2>5, <2>6, <2>7 DEF Compacting
<1>11. Searched'
  BY <1>4 DEF Searched
<1> QED
  BY <1>1, <1>7, <1>8, <1>10, <1>11 DEF Inductive

\* While a hole is being filled a cell in use lies at i1 or behind.
LEMMA MoveFacts ==
  ASSUME Inductive, pc = "move"
  PROVE  /\ i0 \in 0..Size /\ nh \in 0..Size /\ nf \in 0..Size /\ i1 \in 0..(Size - 1)
         /\ used \in 0..Size /\ nf < nh /\ i0 + nh <= used /\ used <= i1
         /\ i0 + nf \in Cells /\ i0 + nf < i1 /\ i0 + nf \notin NonEmpty
         /\ n_moves \in 0..MaxMoves /\ (~cont => n_moves < MaxMoves)
         /\ InUseFrom(i1) = nh - nf
<1>1. /\ i0 \in 0..Size /\ nh \in 0..Size /\ nf \in 0..Size /\ i1 \in 0..Size
      /\ used \in 0..Size /\ Size \in Nat \ {0} /\ n_moves \in 0..MaxMoves
      /\ IsFiniteSet(NonEmpty) /\ NonEmpty \in SUBSET Cells
  BY CellNumbers DEF Inductive, Typed
<1>2. /\ nf < nh /\ i0 + nh <= used /\ used <= i1 /\ nf + InUseFrom(i1) = nh
      /\ \A c \in (i0 + nf)..(i0 + nh - 1) : c \notin NonEmpty
      /\ (~cont => n_moves < MaxMoves)
  BY DEF Inductive, Compacting
<1>3. InUseFrom(i1) \in Nat
  <2>1. {d \in NonEmpty : d >= i1} \in SUBSET NonEmpty
    OBVIOUS
  <2> QED
    BY <1>1, <2>1, FS_Subset, FS_CardinalityType DEF InUseFrom
<1>4. InUseFrom(i1) = nh - nf /\ InUseFrom(i1) # 0
  BY <1>1, <1>2, <1>3
<1>5. PICK d \in NonEmpty : d >= i1
  BY <1>4, FS_EmptySet DEF InUseFrom
<1>6. i1 \in 0..(Size - 1)
  BY <1>1, <1>5 DEF Cells
<1>7. i0 + nf \in (i0 + nf)..(i0 + nh - 1) /\ i0 + nf \in Cells /\ i0 + nf < i1
  BY <1>1, <1>2, <1>6 DEF Cells
<1> QED
  BY <1>1, <1>2, <1>4, <1>6, <1>7

LEMMA SkipGapStep ==
  ASSUME Inductive, SkipGap
  PROVE  Inductive'
<1>1. UsedIsExact' /\ CellsConsistent' /\ NonEmpty' = NonEmpty
  BY CellsAlone DEF SkipGap, Defragging
<1>2. /\ i1 \in 0..(Size - 1) /\ Size \in Nat /\ i1 \notin NonEmpty /\ NonEmpty \in SUBSET Nat
      /\ pc = "move" /\ used \in 0..Size /\ used <= i1 /\ n_moves \in 0..MaxMoves
      /\ MaxMoves \in Nat
  BY MoveFacts, CellNumbers DEF SkipGap
<1>3. BatchFits'
  BY DEF Inductive, BatchFits, SkipGap, EndDefrag, Defragging, n_tokens
<1>4. CASE n_moves = MaxMoves
  <2>1. /\ pc' = "slot" /\ do_defrag' = FALSE
        /\ UNCHANGED <<cells, keys, head, i0, nh, nf, n_moves, cont, i1, used, has_shift, batch,
                       n_tested, attended>>
    BY <1>4 DEF SkipGap, EndDefrag, Defragging
  <2>2. Typed' /\ Compacting' /\ Searched'
    BY <2>1 DEF Inductive, Typed, Compacting, Searched
  <2> QED
    BY <1>1, <1>3, <2>2 DEF Inductive
<1>5. CASE n_moves # MaxMoves
  <2>1. /\ cont' = FALSE /\ i1' = i1 + 1
        /\ UNCHANGED <<cells, keys, head, i0, nh, nf, n_moves, pc, do_defrag, used, has_shift,
                       batch, n_tested, attended>>
    BY <1>5 DEF SkipGap, Defragging
  <2>2. i1' \in 0..Size /\ used <= i1' /\ n_moves < MaxMoves
    BY <1>2, <1>5, <2>1
  <2>3. InUseFrom(i1)' = InUseFrom(i1)
    <3>1. \A d \in NonEmpty : d >= i1 + 1 <=> d >= i1
      BY <1>2
    <3>2. {d \in NonEmpty : d >= i1 + 1} = {d \in NonEmpty : d >= i1}
      BY <3>1
    <3> QED
      BY <1>1, <2>1, <3>2 DEF InUseFrom
  <2>4. Typed'
    BY <2>1, <2>2 DEF Inductive, Typed
  <2>5. Compacting' /\ Searched'
    BY <1>1, <1>2, <2>1, <2>2, <2>3 DEF Inductive, Compacting, Searched
  <2> QED
    BY <1>1, <1>3, <2>4, <2>5 DEF Inductive
<1> QED
  BY <1>4, <1>5

LEMMA MoveCellStep ==
  ASSUME Inductive, MoveCell
  PROVE  Inductive'
<1> DEFINE to == i0 + nf
<1>1. /\ pc = "move" /\ i1 \in NonEmpty /\ Move /\ head' = used
      /\ n_moves' = IF cont THEN n_moves ELSE n_moves + 1
      /\ cont' = TRUE /\ nf' = nf + 1
      /\ IF nf' < nh THEN i1' = i1 + 1 /\ UNCHANGED <<pc, i0, do_defrag>>
         ELSE /\ i0' = i0 + nh
              /\ IF n_moves' = MaxMoves THEN EndDefrag ELSE pc' = "defrag" /\ UNCHANGED do_defrag
              /\ UNCHANGED i1
      /\ UNCHANGED <<used, has_shift, batch, n_tested, attended, nh>>
  BY DEF MoveCell, Defragging
<1>2. /\ i0 \in 0..Size /\ nh \in 0..Size /\ nf \in 0..Size /\ i1 \in 0..(Size - 1)
      /\ used \in 0..Size /\ nf < nh /\ i0 + nh <= used /\ used <= i1
      /\ to \in Cells /\ to < i1 /\ to \notin NonEmpty
      /\ n_moves \in 0..MaxMoves /\ (~cont => n_moves < MaxMoves)
      /\ InUseFrom(i1) = nh - nf
  BY <1>1, MoveFacts
<1>3. /\ Size \in Nat \ {0} /\ MaxMoves \in Nat /\ i1 \in Cells /\ i1 # to
      /\ NonEmpty \in SUBSET Cells /\ NonEmpty \in SUBSET Nat /\ IsFiniteSet(NonEmpty)
  BY <1>2, CellNumbers DEF Cells
<1>4. /\ cells' = [cells EXCEPT ![to] = cells[i1], ![i1] = FreeCell]
      /\ keys' = [keys EXCEPT ![to] = keys[i1], ![i1] = NoKey]
  BY <1>1 DEF Move
<1> HIDE DEF to
<1>5. /\ cells'[to] = cells[i1] /\ keys'[to] = keys[i1]
      /\ cells'[i1] = FreeCell /\ keys'[i1] = NoKey
      /\ \A c \in Cells \ {to, i1} : cells'[c] = cells[c] /\ keys'[c] = keys[c]
  BY <1>2, <1>3, <1>4 DEF Inductive, Typed
<1>6. FreeCell \in Cell /\ NoKey \in Key
  BY DEF FreeCell, Cell, NoKey, Key
<1>7. cells' \in [Cells -> Cell] /\ keys' \in [Cells -> Key]
  BY <1>2, <1>3, <1>4, <1>6 DEF Inductive, Typed
<1>8. NonEmpty' = (NonEmpty \ {i1}) \cup {to}
  <2>1. FreeCell.seq_id = {} /\ cells[i1].seq_id # {}
    BY <1>1 DEF FreeCell, NonEmpty
  <2>2. \A c \in Cells : cells'[c].seq_id # {} <=>
          (c = to \/ (c # i1 /\ cells[c].seq_id # {}))
    BY <1>3, <1>5, <2>1
  <2> QED
    BY <1>2, <2>2 DEF NonEmpty
<1>9. UsedIsExact'
  <2>1. IsFiniteSet(NonEmpty \ {i1}) /\ Cardinality(NonEmpty \ {i1}) = Cardinality(NonEmpty) - 1
    BY <1>1, <1>3, FS_RemoveElement
  <2>2. Cardinality((NonEmpty \ {i1}) \cup {to}) = Cardinality(NonEmpty \ {i1}) + 1
    BY <1>2, <2>1, FS_AddElement
  <2>3. Cardinality(NonEmpty) = used
    BY DEF Inductive, UsedIsExact
  <2> QED
    BY <1>1, <1>2, <1>8, <2>1, <2>2, <2>3 DEF UsedIsExact
<1>10. CellsConsistent'
  <2>1. \A c \in Cells : cells[c].delta = 0
    BY <1>1 DEF Inductive, CellsConsistent
  <2>2. FreeCell.delta = 0 /\ FreeCell.pos = -1 /\ FreeCell.seq_id = {}
    BY DEF FreeCell
  <2>3. \A c \in Cells : cells'[c].delta = 0
    BY <1>2, <1>3, <1>5, <2>1, <2>2
  <2>4. \A c \in Cells : (cells'[c].pos >= 0) <=> (c \in NonEmpty')
    <3> SUFFICES ASSUME NEW c \in Cells PROVE (cells'[c].pos >= 0) <=> (c \in NonEmpty')
      OBVIOUS
    <3>1. CASE c = to
      BY <1>1, <1>3, <1>5, <1>8, <3>1 DEF Inductive, CellsConsistent
    <3>2. CASE c = i1
      <4>1. ~(-1 >= 0)
        OBVIOUS
      <4> QED
        BY <1>3, <1>5, <1>8, <2>2, <3>2, <4>1
    <3>3. CASE c \notin {to, i1}
      BY <1>5, <1>8, <3>3 DEF Inductive, CellsConsistent
    <3> QED
      BY <3>1, <3>2, <3>3
  <2>5. \A c \in NonEmpty' : keys'[c].rot + cells'[c].delta = cells'[c].pos
    <3> SUFFICES ASSUME NEW c \in NonEmpty' PROVE keys'[c].rot + cells'[c].delta = cells'[c].pos
      OBVIOUS
    <3>1. CASE c = to
      BY <1>1, <1>5, <3>1 DEF Inductive, CellsConsistent
    <3>2. CASE c # to
      <4>1. c \in NonEmpty /\ c \in Cells \ {to, i1}
        BY <1>3, <1>8, <3>2
      <4> QED
        BY <1>5, <4>1 DEF Inductive, CellsConsistent
    <3> QED
      BY <3>1, <3>2
  <2> QED
    BY <2>3, <2>4, <2>5 DEF CellsConsistent
<1>11. n_moves' \in 0..MaxMoves /\ nf' \in 0..Size
  BY <1>1, <1>2, <1>3
<1>12. BatchFits'
  BY <1>1 DEF Inductive, BatchFits, EndDefrag, n_tokens
<1>13. \A c \in 0..(to - 1) : c \in NonEmpty
  <2>1. \A c \in 0..(i0 + nf - 1) : c \in NonEmpty
    BY <1>1 DEF Inductive, Compacting
  <2>2. to - 1 = i0 + nf - 1
    BY <1>2 DEF to
  <2> QED
    BY <2>1, <2>2
<1>14. \A c \in 0..to : c \in NonEmpty'
  <2> SUFFICES ASSUME NEW c \in 0..to PROVE c \in NonEmpty'
    OBVIOUS
  <2>1. to \in Int /\ i1 \in Int
    BY <1>2, <1>3 DEF Cells
  <2>2. c = to \/ (c \in 0..(to - 1) /\ c # i1)
    BY <1>2, <2>1
  <2> QED
    BY <1>8, <1>13, <2>2
<1>15. CASE nf' < nh
  <2>1. i1' = i1 + 1 /\ UNCHANGED <<pc, i0, do_defrag>>
    BY <1>1, <1>15
  <2>2. i1' \in 0..Size /\ used <= i1' /\ i0 + nf' = to + 1 /\ to \in Int
    BY <1>1, <1>2, <1>3, <2>1 DEF to
  <2>3. Typed'
    BY <1>1, <1>2, <1>7, <1>11, <2>1, <2>2 DEF Inductive, Typed
  <2>4. InUseFrom(i1)' = nh - nf'
    <3> DEFINE A == {d \in NonEmpty : d >= i1}
               B == {d \in NonEmpty' : d >= i1'}
    <3>1. B = A \ {i1}
      <4>1. ASSUME NEW d \in B PROVE d \in A \ {i1}
        <5>1. d \in NonEmpty' /\ d >= i1 + 1 /\ d # to /\ d # i1
          BY <1>2, <2>1, <2>2
        <5>2. d \in NonEmpty
          BY <1>8, <5>1
        <5> QED
          BY <1>2, <1>3, <5>1, <5>2
      <4>2. ASSUME NEW d \in A \ {i1} PROVE d \in B
        <5>1. d \in NonEmpty /\ d >= i1 /\ d # i1 /\ d \in Nat
          BY <1>3
        <5>2. d \in NonEmpty' /\ d >= i1 + 1
          BY <1>2, <1>8, <5>1
        <5> QED
          BY <2>1, <5>2
      <4> HIDE DEF A, B
      <4> QED
        BY <4>1, <4>2, Zenon
    <3>2. A \in SUBSET NonEmpty /\ i1 \in A
      BY <1>1, <1>2
    <3>3. IsFiniteSet(A)
      BY <1>3, <3>2, FS_Subset
    <3>4. Cardinality(A) = nh - nf
      BY <1>2 DEF InUseFrom
    <3>5. InUseFrom(i1)' = Cardinality(B)
      BY DEF InUseFrom
    <3> HIDE DEF A, B
    <3>6. Cardinality(B) = Cardinality(A) - 1
      BY <3>1, <3>2, <3>3, FS_RemoveElement
    <3> QED
      BY <1>1, <1>2, <3>4, <3>5, <3>6
  <2>5. Compacting'
    <3>1. nf' + InUseFrom(i1)' = nh /\ nh' = nh /\ used' = used /\ pc' = "move" /\ cont' = TRUE
      BY <1>1, <1>2, <2>1, <2>4
    <3>2. \A c \in 0..(i0' + nf' - 1) : c \in NonEmpty'
      <4>1. i0' + nf' - 1 = to
        <5>1. i0' = i0 /\ nf' = nf + 1 /\ i0 \in Int /\ nf \in Int /\ to = i0 + nf
          BY <1>1, <1>2, <2>1 DEF to
        <5> QED
          BY <5>1
      <4> QED
        BY <1>14, <4>1
    <3>3. \A c \in (i0' + nf')..(i0' + nh' - 1) : c \notin NonEmpty'
      <4> SUFFICES ASSUME NEW c \in (i0' + nf')..(i0' + nh' - 1) PROVE c \notin NonEmpty'
        OBVIOUS
      <4>1. c \in (i0 + nf)..(i0 + nh - 1) /\ c # to
        BY <1>1, <1>2, <2>1, <2>2 DEF to
      <4>2. c \notin NonEmpty
        BY <1>1, <4>1 DEF Inductive, Compacting
      <4> QED
        BY <1>8, <4>1, <4>2
    <3> QED
      BY <1>2, <1>15, <2>1, <2>2, <3>1, <3>2, <3>3 DEF Compacting
  <2>6. Searched'
    BY <1>1, <2>1 DEF Searched
  <2> QED
    BY <1>9, <1>10, <1>12, <2>3, <2>5, <2>6 DEF Inductive
<1>16. CASE ~(nf' < nh)
  <2>1. /\ i0' = i0 + nh /\ i1' = i1 /\ pc' \in {"slot", "defrag"} /\ do_defrag' \in BOOLEAN
        /\ pc' = "defrag" => n_moves' # MaxMoves
    BY <1>1, <1>16 DEF EndDefrag, Inductive, Typed
  <2>2. i0' \in 0..Size /\ i0' <= used /\ i0' - 1 = to /\ i1' \in 0..Size
    BY <1>1, <1>2, <1>3, <1>16, <2>1 DEF to
  <2>3. Typed'
    BY <1>1, <1>2, <1>7, <1>11, <2>1, <2>2 DEF Inductive, Typed
  <2>4. pc' = "defrag" => n_moves' < MaxMoves
    BY <1>3, <1>11, <2>1
  <2>5. Compacting'
    BY <1>1, <1>14, <2>1, <2>2, <2>4 DEF Compacting
  <2>6. Searched'
    BY <2>1 DEF Searched
  <2> QED
    BY <1>9, <1>10, <1>12, <2>3, <2>5, <2>6 DEF Inductive
<1> QED
  BY <1>15, <1>16

-----------------------------------------------------------------------------
(* The search for a slot                                                   *)

\* Two stretches without a run are one when nothing lies between them.
LEMMA NoRunJoined ==
  ASSUME NEW a \in Int, NEW b \in Int, NEW c \in Int, NEW d \in Int, c <= b,
         NoRunIn(a, b), NoRunIn(c, d)
  PROVE  NoRunIn(a, d)
<1> SUFFICES ASSUME NEW h \in a..(d - 1), h + n_tokens <= Size
             PROVE  \E e \in Run(h, n_tokens) : cells[e].pos >= 0
  BY DEF NoRunIn
<1>1. h \in a..(b - 1) \/ h \in c..(d - 1)
  OBVIOUS
<1> QED
  BY <1>1 DEF NoRunIn

\* What holds of the numbers and of the batch during the search
LEMMA SearchFacts ==
  ASSUME Inductive, pc \in {"slot", "search"}
  PROVE  /\ Size \in Nat \ {0} /\ head \in 0..Size /\ n_tested \in Nat
         /\ n_tokens \in 1..Size /\ used \in 0..Size
         /\ batch \in Batch /\ batch.pos \in Nat /\ batch.pos + n_tokens <= NCtx
         /\ NCtx \in Nat \ {0}
         /\ \A c \in Cells : cells[c].delta = 0
<1>1. Size \in Nat \ {0} /\ MaxBatch \in 1..Size /\ used \in 0..Size /\ NCtx \in Nat \ {0}
  BY CellNumbers
<1>2. head \in 0..Size /\ n_tested \in Nat
  BY DEF Inductive, Typed
<1>3. batch \in Batch /\ n_tokens \in 1..MaxBatch /\ batch.pos + n_tokens <= NCtx
  BY DEF Inductive, BatchFits
<1>4. batch.pos \in Nat
  BY <1>1, <1>3 DEF Batch, Positions
<1>5. \A c \in Cells : cells[c].delta = 0
  BY DEF Inductive, CellsConsistent
<1> QED
  BY <1>1, <1>2, <1>3, <1>4, <1>5

LEMMA StartSearchStep ==
  ASSUME Inductive, StartSearch
  PROVE  Inductive'
<1>1. /\ pc = "slot" /\ pc' = "search" /\ n_tested' = 0
      /\ UNCHANGED <<cells, keys, used, has_shift, do_defrag, i0, nh, nf, i1, cont, n_moves,
                     attended, batch>>
  BY DEF StartSearch, Searching, defragVars
<1>2. UsedIsExact' /\ CellsConsistent'
  BY <1>1, CellsAlone
<1>3. Size \in Nat /\ head \in 0..Size
  BY <1>1, SearchFacts
<1>4. head' \in 0..Size
  BY <1>3 DEF StartSearch
<1>5. Typed'
  BY <1>1, <1>4 DEF Inductive, Typed
<1>6. BatchFits' /\ Compacting'
  BY <1>1 DEF Inductive, BatchFits, Compacting, n_tokens
<1>7. Searched'
  <2> DEFINE h == head'
  <2>0. h \in Int
    BY <1>3, <1>4
  <2> HIDE DEF h
  <2>1. h <= h /\ 0 + h = h
    BY <2>0
  <2>2. NoRunIn(head, head)'
    <3>1. h..(h - 1) = {}
      BY <2>0
    <3> QED
      BY <3>1 DEF NoRunIn, h
  <2>3. head' <= head' /\ n_tested' + head' = head'
    BY <1>1, <2>1 DEF h
  <2> QED
    BY <1>4, <2>2, <2>3 DEF Searched
<1> QED
  BY <1>2, <1>5, <1>6, <1>7 DEF Inductive

\* The cells at the end that are too few for the batch hold no run of it.
LEMMA WrapStep ==
  ASSUME Inductive, Wrap
  PROVE  Inductive'
<1>1. /\ pc = "search" /\ pc' = "search" /\ head + n_tokens > Size /\ head' = 0
      /\ n_tested' = n_tested + Size - head
      /\ UNCHANGED <<cells, keys, used, has_shift, do_defrag, i0, nh, nf, i1, cont, n_moves,
                     attended, batch>>
  BY DEF Wrap, Searching, defragVars
<1>2. UsedIsExact' /\ CellsConsistent'
  BY <1>1, CellsAlone
<1>3. Size \in Nat \ {0} /\ head \in 0..Size /\ n_tested \in Nat /\ n_tokens \in 1..Size
  BY <1>1, SearchFacts
<1>4. head' \in 0..Size /\ n_tested' \in Nat
  BY <1>1, <1>3
<1>5. Typed'
  BY <1>1, <1>4 DEF Inductive, Typed
<1>6. BatchFits' /\ Compacting'
  BY <1>1 DEF Inductive, BatchFits, Compacting, n_tokens
<1>7. n_tokens' = n_tokens
  BY <1>1 DEF n_tokens
<1>8. \A a, b : NoRunIn(a, b) => NoRunIn(a, b)'
  BY <1>1, <1>7 DEF NoRunIn
<1>9. NoRunIn(head, Size)
  BY <1>1, <1>3 DEF NoRunIn
<1>10. Searched'
  <2>1. PICK h0 \in 0..Size :
          \/ h0 <= head /\ n_tested + h0 = head /\ NoRunIn(h0, head)
          \/ n_tested + h0 = Size + head /\ NoRunIn(h0, Size) /\ NoRunIn(0, head)
          \/ NoRunIn(0, Size)
    BY <1>1 DEF Inductive, Searched
  <2>2. h0 \in Int /\ head \in Int /\ Size \in Int /\ 0 \in Int
    BY <1>3
  <2>3. CASE h0 <= head /\ n_tested + h0 = head /\ NoRunIn(h0, head)
    <3>1. NoRunIn(h0, Size)'
      BY <1>8, <1>9, <2>2, <2>3, NoRunJoined
    <3>2. NoRunIn(0, head)'
      <4>1. 0..(head' - 1) = {}
        BY <1>1
      <4> QED
        BY <4>1 DEF NoRunIn
    <3>3. n_tested' + h0 = Size + head'
      BY <1>1, <1>3, <2>3
    <3> QED
      BY <3>1, <3>2, <3>3 DEF Searched
  <2>4. CASE NoRunIn(0, head) \/ NoRunIn(0, Size)
    <3>1. NoRunIn(0, Size)'
      BY <1>8, <1>9, <2>2, <2>4, NoRunJoined
    <3> QED
      BY <3>1 DEF Searched
  <2> QED
    BY <2>1, <2>3, <2>4
<1> QED
  BY <1>2, <1>5, <1>6, <1>10 DEF Inductive

\* No run of the batch's size starts at head, or up to the first cell taken there:
\* when Size cells have been tested, none starts anywhere.
LEMMA SkipCovers ==
  ASSUME Inductive, pc = "search", head + n_tokens <= Size, Taken # {}
  PROVE  /\ Least(Taken) + 1 \in 0..Size /\ Tested \in Nat
         /\ \E h0 \in 0..Size :
              \/ /\ h0 <= Least(Taken) + 1 /\ Tested + h0 = Least(Taken) + 1
                 /\ NoRunIn(h0, Least(Taken) + 1)
              \/ /\ Tested + h0 = Size + (Least(Taken) + 1)
                 /\ NoRunIn(h0, Size) /\ NoRunIn(0, Least(Taken) + 1)
              \/ NoRunIn(0, Size)
         /\ Tested >= Size => NoRunIn(0, Size)
<1> DEFINE t == Least(Taken)
<1>1. /\ Size \in Nat \ {0} /\ head \in 0..Size /\ n_tested \in Nat /\ n_tokens \in 1..Size
  BY SearchFacts
<1>2. t \in Taken
  <2>1. Taken \in SUBSET Nat
    BY <1>1 DEF Taken, Run
  <2> QED
    BY <2>1, LeastIs
<1>3. /\ t \in Nat /\ head <= t /\ t < head + n_tokens /\ t < Size /\ cells[t].pos >= 0
  BY <1>1, <1>2 DEF Taken, Run
<1>4. Tested = (n_tested + t + 1) - head
  BY <1>1, <1>3 DEF Tested
<1> HIDE DEF t
<1>5. NoRunIn(head, t + 1)
  <2> SUFFICES ASSUME NEW h \in head..((t + 1) - 1), h + n_tokens <= Size
               PROVE  \E e \in Run(h, n_tokens) : cells[e].pos >= 0
    BY DEF NoRunIn
  <2>1. t \in Run(h, n_tokens)
    BY <1>1, <1>3 DEF Run
  <2> QED
    BY <1>3, <2>1
<1>6. t + 1 \in 0..Size /\ Tested \in Nat
  BY <1>1, <1>3, <1>4
<1>7. PICK h0 \in 0..Size :
        \/ h0 <= head /\ n_tested + h0 = head /\ NoRunIn(h0, head)
        \/ n_tested + h0 = Size + head /\ NoRunIn(h0, Size) /\ NoRunIn(0, head)
        \/ NoRunIn(0, Size)
  BY DEF Inductive, Searched
<1>8. h0 \in Int /\ head \in Int /\ Size \in Int /\ 0 \in Int /\ t + 1 \in Int
  BY <1>1, <1>3
<1>9. CASE h0 <= head /\ n_tested + h0 = head /\ NoRunIn(h0, head)
  <2>1. h0 <= t + 1 /\ Tested + h0 = t + 1
    BY <1>1, <1>3, <1>4, <1>9
  <2>2. NoRunIn(h0, t + 1)
    BY <1>5, <1>8, <1>9, NoRunJoined
  <2>3. Tested >= Size => h0 = 0 /\ t + 1 = Size
    BY <1>1, <1>3, <1>6, <2>1
  <2> QED
    BY <1>6, <2>1, <2>2, <2>3 DEF t
<1>10. CASE n_tested + h0 = Size + head /\ NoRunIn(h0, Size) /\ NoRunIn(0, head)
  <2>1. Tested + h0 = Size + (t + 1)
    BY <1>1, <1>3, <1>4, <1>10
  <2>2. NoRunIn(0, t + 1)
    BY <1>5, <1>8, <1>10, NoRunJoined
  <2>3. Tested >= Size => h0 <= t + 1
    BY <1>1, <1>3, <1>6, <2>1
  <2>4. Tested >= Size => NoRunIn(0, Size)
    BY <1>8, <1>10, <2>2, <2>3, NoRunJoined
  <2> QED
    BY <1>6, <1>10, <2>1, <2>2, <2>4 DEF t
<1>11. CASE NoRunIn(0, Size)
  BY <1>6, <1>11 DEF t
<1> QED
  BY <1>7, <1>9, <1>10, <1>11

\* llama_decode has returned: its local variables are gone.
LEMMA ReturnRests ==
  ASSUME Inductive, Return
  PROVE  /\ BatchFits' /\ Compacting' /\ Searched'
         /\ n_tested' \in Nat /\ i0' \in 0..Size /\ nh' \in 0..Size /\ nf' \in 0..Size
         /\ i1' \in 0..Size /\ n_moves' \in 0..MaxMoves /\ cont' \in BOOLEAN
         /\ pc' \in {"idle", "defrag", "move", "slot", "search"}
<1>1. Size \in Nat /\ MaxMoves \in Nat
  BY CellNumbers
<1>2. BatchFits' /\ Compacting' /\ Searched'
  BY DEF Return, BatchFits, Compacting, Searched, LoopsAtRest, NoBatch, n_tokens
<1>3. cont' \in BOOLEAN
  BY DEF Return
<1> QED
  BY <1>1, <1>2, <1>3 DEF Return

LEMMA SkipStep ==
  ASSUME Inductive, Skip
  PROVE  Inductive'
<1>1. /\ pc = "search" /\ head + n_tokens <= Size /\ Taken # {} /\ head' = Least(Taken) + 1
      /\ UNCHANGED <<cells, keys, used, has_shift, do_defrag, attended>>
  BY DEF Skip
<1>2. UsedIsExact' /\ CellsConsistent'
  BY <1>1, CellsAlone
<1>3. head' \in 0..Size /\ Tested \in Nat
  BY <1>1, SkipCovers
<1>4. CASE n_tested' = Tested /\ UNCHANGED <<pc, batch, defragVars>>
  <2>1. UNCHANGED <<pc, batch, i0, nh, nf, i1, cont, n_moves>>
    BY <1>4 DEF defragVars
  <2>2. Typed'
    BY <1>1, <1>3, <1>4, <2>1 DEF Inductive, Typed
  <2>3. BatchFits' /\ Compacting'
    BY <1>1, <2>1 DEF Inductive, BatchFits, Compacting, n_tokens
  <2>4. \A a, b : NoRunIn(a, b) => NoRunIn(a, b)'
    BY <1>1, <2>1 DEF NoRunIn, n_tokens
  <2>5. Searched'
    <3>1. PICK h0 \in 0..Size :
            \/ h0 <= head' /\ n_tested' + h0 = head' /\ NoRunIn(h0, head')
            \/ n_tested' + h0 = Size + head' /\ NoRunIn(h0, Size) /\ NoRunIn(0, head')
            \/ NoRunIn(0, Size)
      BY <1>1, <1>4, SkipCovers
    <3> QED
      BY <2>4, <3>1 DEF Searched
  <2> QED
    BY <1>2, <2>2, <2>3, <2>5 DEF Inductive
<1>5. CASE Return
  <2>1. Typed'
    BY <1>1, <1>3, <1>5, ReturnRests DEF Inductive, Typed
  <2> QED
    BY <1>2, <1>5, <2>1, ReturnRests DEF Inductive
<1> QED
  BY <1>4, <1>5 DEF Skip

\* What Place does to the cells: those of the run get the batch, each with a key
\* that is rotated for its position.
LEMMA Placed ==
  ASSUME Inductive, Place
  PROVE  LET R == Run(head, n_tokens)
             at(c) == batch.pos + (c - head)
         IN  /\ R \in SUBSET Cells /\ IsFiniteSet(R) /\ Cardinality(R) = n_tokens
             /\ R \cap NonEmpty = {} /\ NonEmpty' = NonEmpty \cup R
             /\ \A c \in R :
                  /\ c - head \in 0..(n_tokens - 1) /\ at(c) \in Positions
                  /\ batch.tokens[(c - head) + 1] \in Tokens
                  /\ cells'[c].pos = at(c) /\ cells'[c].delta = 0
                  /\ cells'[c].seq_id = {batch.seq}
                  /\ keys'[c].tok = batch.tokens[(c - head) + 1] /\ keys'[c].rot = at(c)
             /\ \A c \in Cells \ R : cells'[c] = cells[c] /\ keys'[c] = keys[c]
             /\ cells' \in [Cells -> Cell] /\ keys' \in [Cells -> Key]
<1> DEFINE R == Run(head, n_tokens)
           at(c) == batch.pos + (c - head)
           tok(c) == batch.tokens[(c - head) + 1]
<1>1. /\ pc = "search" /\ head + n_tokens <= Size /\ Taken = {}
      /\ cells' = [c \in Cells |-> IF c \in R
                     THEN [cells[c] EXCEPT !.pos = at(c), !.seq_id = @ \union {batch.seq}]
                     ELSE cells[c]]
      /\ keys' = [c \in Cells |-> IF c \in R THEN [tok |-> tok(c), rot |-> at(c)] ELSE keys[c]]
  BY DEF Place
<1>2. /\ Size \in Nat \ {0} /\ head \in 0..Size /\ n_tokens \in 1..Size
      /\ batch \in Batch /\ batch.pos \in Nat /\ batch.pos + n_tokens <= NCtx
      /\ NCtx \in Nat \ {0} /\ \A c \in Cells : cells[c].delta = 0
  BY <1>1, SearchFacts
<1>3. R \in SUBSET Cells /\ IsFiniteSet(R) /\ Cardinality(R) = n_tokens
  <2> DEFINE last == head + n_tokens - 1
  <2>1. /\ head \in Int /\ last \in Int /\ ~(head > last) /\ last - head + 1 = n_tokens
        /\ 0 <= head /\ last <= Size - 1
    <3>1. /\ head \in Nat /\ n_tokens \in Nat \ {0} /\ Size \in Nat
          /\ head + n_tokens <= Size
      <4>1. head + n_tokens <= Size
        BY DEF Place
      <4>2. /\ Size \in Nat \ {0} /\ head \in 0..Size /\ n_tokens \in 1..Size
        BY <1>2
      <4> QED
        BY <4>1, <4>2
    <3> QED
      BY <3>1
  <2>2. R = head..last
    BY DEF Run
  <2> HIDE DEF R, last
  <2>3. R \in SUBSET Cells
    BY <1>2, <2>1, <2>2 DEF Cells
  <2>4. IsFiniteSet(R) /\ Cardinality(R) = n_tokens
    BY <2>1, <2>2, FS_Interval
  <2> QED
    BY <2>3, <2>4
<1>4. ASSUME NEW c \in R
      PROVE  /\ c \in Cells /\ c - head \in 0..(n_tokens - 1) /\ at(c) \in Positions
             /\ tok(c) \in Tokens
  <2>1. c \in Cells /\ c - head \in 0..(n_tokens - 1)
    BY <1>2, <1>3 DEF Run
  <2>2. batch.pos + (c - head) \in Positions
    BY <1>2, <2>1 DEF Positions
  <2>3. tok(c) \in Tokens
    <3>1. batch.tokens \in Seq(Tokens) /\ (c - head) + 1 \in 1..Len(batch.tokens)
      BY <1>2, <2>1 DEF Batch, n_tokens
    <3> QED
      BY <3>1, ElementOfSeq
  <2> QED
    BY <2>1, <2>2, <2>3
<1>5. ASSUME NEW c \in R PROVE c \notin NonEmpty /\ cells[c].seq_id = {}
  BY <1>1, <1>4, CellFacts DEF Taken
<1>6. ASSUME NEW c \in R
      PROVE  /\ cells'[c].pos = at(c) /\ cells'[c].delta = 0 /\ cells'[c].seq_id = {batch.seq}
             /\ keys'[c].tok = tok(c) /\ keys'[c].rot = at(c)
             /\ cells'[c] \in Cell /\ keys'[c] \in Key
  <2>1. /\ cells'[c] = [cells[c] EXCEPT !.pos = at(c),
                          !.seq_id = cells[c].seq_id \union {batch.seq}]
        /\ keys'[c] = [tok |-> tok(c), rot |-> at(c)]
    BY <1>1, <1>4
  <2>2. cells[c] \in EditedCell /\ cells[c].delta = 0 /\ at(c) \in Int /\ c \in Cells
    <3>1. at(c) \in Positions /\ c \in Cells
      BY <1>4
    <3> HIDE DEF at
    <3>2. at(c) \in Int
      BY <1>2, <3>1 DEF Positions
    <3> QED
      BY <1>2, <3>1, <3>2, CellFacts
  <2>3. cells[c].seq_id \cup {batch.seq} = {batch.seq}
    BY <1>5
  <2> HIDE DEF at, tok
  <2>4. cells'[c] = [pos |-> at(c), delta |-> cells[c].delta,
                     seq_id |-> cells[c].seq_id \cup {batch.seq}]
    BY <2>1, <2>2, Reassigned, Zenon
  <2>5. cells'[c] = [pos |-> at(c), delta |-> 0, seq_id |-> {batch.seq}]
    BY <2>2, <2>3, <2>4
  <2>6. 0 \in Int /\ {batch.seq} \in SUBSET SeqIds /\ at(c) \in Positions \union {-1}
    BY <1>2, <1>4 DEF Batch
  <2>7. [pos |-> at(c), delta |-> 0, seq_id |-> {batch.seq}] \in Cell
    BY <2>6, MadeCell, Zenon
  <2>8. keys'[c] \in Key /\ keys'[c].tok = tok(c) /\ keys'[c].rot = at(c)
    BY <1>4, <2>1, <2>2 DEF Key
  <2>9. cells'[c].pos = at(c) /\ cells'[c].delta = 0 /\ cells'[c].seq_id = {batch.seq}
    BY <2>5
  <2>10. cells'[c] \in Cell
    BY <2>5, <2>7
  <2> QED
    BY <2>8, <2>9, <2>10
<1>7. \A c \in Cells \ R : cells'[c] = cells[c] /\ keys'[c] = keys[c]
  BY <1>1
<1>8. cells' \in [Cells -> Cell] /\ keys' \in [Cells -> Key]
  <2>1. /\ cells' = [c \in Cells |-> cells'[c]]
        /\ keys' = [c \in Cells |-> keys'[c]]
    BY <1>1
  <2>2. \A c \in Cells : cells'[c] \in Cell /\ keys'[c] \in Key
    BY <1>6, <1>7, CellFacts
  <2> QED
    BY <2>1, <2>2, Zenon
<1>9. NonEmpty' = NonEmpty \cup R
  <2>1. \A c \in R : cells'[c].seq_id # {}
    BY <1>6
  <2>2. \A c \in Cells : cells'[c].seq_id # {} <=> (cells[c].seq_id # {} \/ c \in R)
    BY <1>7, <2>1
  <2> HIDE DEF R
  <2> QED
    BY <1>3, <2>2 DEF NonEmpty
<1>10. R \cap NonEmpty = {}
  BY <1>5
<1> HIDE DEF R
<1> QED
  BY <1>3, <1>4, <1>6, <1>7, <1>8, <1>9, <1>10 DEF R

LEMMA PlaceStep ==
  ASSUME Inductive, Place
  PROVE  Inductive'
<1> DEFINE R == Run(head, n_tokens)
<1>1. /\ Return /\ used' = used + n_tokens
      /\ UNCHANGED <<has_shift, do_defrag>>
      /\ head' = IF head + n_tokens >= Size THEN 0 ELSE head + n_tokens
  BY DEF Place
<1>2. /\ Size \in Nat \ {0} /\ head \in 0..Size /\ n_tokens \in 1..Size /\ used \in 0..Size
      /\ batch.pos \in Nat /\ \A c \in Cells : cells[c].delta = 0
  BY SearchFacts DEF Place
<1>3. /\ R \in SUBSET Cells /\ IsFiniteSet(R) /\ Cardinality(R) = n_tokens
      /\ R \cap NonEmpty = {} /\ NonEmpty' = NonEmpty \cup R
      /\ \A c \in R :
           /\ c - head \in 0..(n_tokens - 1) /\ batch.pos + (c - head) \in Positions
           /\ cells'[c].pos = batch.pos + (c - head) /\ cells'[c].delta = 0
           /\ cells'[c].seq_id = {batch.seq}
           /\ keys'[c].tok = batch.tokens[(c - head) + 1]
           /\ keys'[c].rot = batch.pos + (c - head)
      /\ \A c \in Cells \ R : cells'[c] = cells[c] /\ keys'[c] = keys[c]
      /\ cells' \in [Cells -> Cell] /\ keys' \in [Cells -> Key]
  BY Placed
<1> HIDE DEF R
<1>4. UsedIsExact'
  <2>1. IsFiniteSet(NonEmpty) /\ Cardinality(NonEmpty) = used
    BY CellNumbers
  <2>2. Cardinality(NonEmpty \cup R)
          = Cardinality(NonEmpty) + Cardinality(R) - Cardinality(NonEmpty \cap R)
    BY <1>3, <2>1, FS_Union
  <2>3. Cardinality(NonEmpty \cap R) = 0
    <3>1. NonEmpty \cap R = {}
      BY <1>3
    <3> QED
      BY <3>1, FS_EmptySet
  <2> QED
    BY <1>1, <1>2, <1>3, <2>1, <2>2, <2>3 DEF UsedIsExact
<1>5. CellsConsistent'
  <2>1. \A c \in Cells : cells'[c].delta = 0
    BY <1>2, <1>3
  <2>2. \A c \in Cells : (cells'[c].pos >= 0) <=> (c \in NonEmpty')
    <3> SUFFICES ASSUME NEW c \in Cells PROVE (cells'[c].pos >= 0) <=> (c \in NonEmpty')
      OBVIOUS
    <3>1. CASE c \in R
      <4>1. cells'[c].pos = batch.pos + (c - head) /\ cells'[c].pos \in Positions
        BY <1>3, <3>1
      <4> QED
        BY <1>3, <3>1, <4>1 DEF Positions
    <3>2. CASE c \notin R
      BY <1>3, <3>2, CellFacts
    <3> QED
      BY <3>1, <3>2
  <2>3. \A c \in NonEmpty' : keys'[c].rot + cells'[c].delta = cells'[c].pos
    <3> SUFFICES ASSUME NEW c \in NonEmpty' PROVE keys'[c].rot + cells'[c].delta = cells'[c].pos
      OBVIOUS
    <3>1. CASE c \in R
      <4>1. /\ batch.pos + (c - head) \in Positions
            /\ keys'[c].rot = batch.pos + (c - head) /\ cells'[c].delta = 0
            /\ cells'[c].pos = batch.pos + (c - head)
        BY <1>3, <3>1
      <4> QED
        BY <4>1 DEF Positions
    <3>2. CASE c \notin R
      <4>1. c \in NonEmpty /\ c \in Cells \ R
        BY <1>3, <3>2 DEF NonEmpty
      <4> QED
        BY <1>3, <4>1, CellFacts
    <3> QED
      BY <3>1, <3>2
  <2> QED
    BY <2>1, <2>2, <2>3 DEF CellsConsistent
<1>6. attended' \subseteq Int \X (Tokens \union {Empty})
  <2>1. \A c \in Cells : keys'[c].rot \in Int /\ keys'[c].tok \in Tokens \union {Empty}
    BY <1>3 DEF Key
  <2> QED
    <3>1. ASSUME NEW a \in attended'
          PROVE  \E c \in Cells : a = <<keys'[c].rot, keys'[c].tok>>
      BY DEF Place
    <3> QED
      BY <2>1, <3>1
<1>7. used' \in Int /\ head' \in 0..Size
  BY <1>1, <1>2
<1>8. has_shift' \in BOOLEAN /\ do_defrag' \in BOOLEAN
  BY <1>1 DEF Inductive, Typed
<1>9. Typed'
  BY <1>1, <1>3, <1>6, <1>7, <1>8, ReturnRests DEF Typed
<1> QED
  BY <1>1, <1>4, <1>5, <1>9, ReturnRests DEF Inductive

-----------------------------------------------------------------------------
(* The invariants                                                          *)

LEMMA InitiallyInductive == Init => Inductive
<1> SUFFICES ASSUME Init PROVE Inductive
  OBVIOUS
<1>1. Size \in Nat \ {0} /\ MaxMoves \in Nat
  BY CacheAssumption
<1>2. FreeCell \in Cell /\ NoKey \in Key
  BY DEF FreeCell, Cell, NoKey, Key
<1>3. cells \in [Cells -> Cell] /\ keys \in [Cells -> Key]
  BY <1>2 DEF Init
<1>4. \A c \in Cells : cells[c] = FreeCell /\ cells[c].seq_id = {} /\ cells[c].delta = 0
  BY DEF Init, FreeCell
<1>5. NonEmpty = {}
  BY <1>4 DEF NonEmpty
<1>6. cont \in BOOLEAN /\ has_shift \in BOOLEAN /\ do_defrag \in BOOLEAN
  BY DEF Init, LoopsAtRest
<1>7. Typed
  BY <1>1, <1>3, <1>6 DEF Init, LoopsAtRest, Typed
<1>8. UsedIsExact
  BY <1>5, FS_EmptySet DEF UsedIsExact, Init
<1>9. CellsConsistent
  <2>1. \A c \in Cells : ~(cells[c].pos >= 0)
    <3>1. \A c \in Cells : cells[c].pos = -1
      BY <1>4 DEF FreeCell
    <3> QED
      BY <3>1
  <2> QED
    BY <1>4, <1>5, <2>1 DEF CellsConsistent
<1>10. BatchFits /\ Compacting /\ Searched
  BY DEF Init, BatchFits, Compacting, Searched
<1> QED
  BY <1>7, <1>8, <1>9, <1>10 DEF Inductive

LEMMA ClientPreserves ==
  ASSUME Inductive, ClientStep
  PROVE  Inductive'
<1>1. CASE CacheClear
  BY <1>1, ClearStep
<1>2. CASE CacheDefrag
  BY <1>2, DefragStep
<1>3. ASSUME NEW s \in SeqIds, Edits(s) PROVE Inductive'
  <2>1. PICK p0 \in Positions, p1 \in 1..NCtx :
          /\ p0 < p1
          /\ \/ CacheSeqRm(s, p0, p1) \/ CacheAllRm(p0, p1)
             \/ \E dst \in SeqIds \ {s} : CacheSeqCp(s, dst, p0, p1)
             \/ \E delta \in Deltas :
                  /\ \A c \in Cells : Has(c, s, p0, p1) => cells[c].pos + delta < NCtx
                  /\ CacheSeqAdd(s, p0, p1, delta)
             \/ \E d \in Divisors : CacheSeqDiv(s, p0, p1, d)
    BY <1>3 DEF Edits
  <2>2. CASE CacheSeqRm(s, p0, p1)
    BY <2>2, SeqRmStep
  <2>3. CASE CacheAllRm(p0, p1)
    BY <2>3, AllRmStep
  <2>4. CASE \E dst \in SeqIds \ {s} : CacheSeqCp(s, dst, p0, p1)
    BY <2>4, SeqCpStep
  <2>5. CASE \E delta \in Deltas :
               /\ \A c \in Cells : Has(c, s, p0, p1) => cells[c].pos + delta < NCtx
               /\ CacheSeqAdd(s, p0, p1, delta)
    BY <2>5, SeqAddStep
  <2>6. CASE \E d \in Divisors : CacheSeqDiv(s, p0, p1, d)
    BY <2>6, SeqDivStep
  <2> QED
    BY <2>1, <2>2, <2>3, <2>4, <2>5, <2>6
<1>4. ASSUME NEW s \in SeqIds, CacheSeqKeep(s) PROVE Inductive'
  BY <1>4, SeqKeepStep
<1>5. ASSUME NEW s \in SeqIds, Decodes(s) PROVE Inductive'
  BY <1>5, DecodeStep DEF Decodes
<1> QED
  BY <1>1, <1>2, <1>3, <1>4, <1>5 DEF ClientStep

LEMMA StepPreserves ==
  ASSUME Inductive, Step
  PROVE  Inductive'
BY KeepCellStep, FindHoleStep, SkipGapStep, MoveCellStep, NoHoleLeftStep, StartSearchStep,
   WrapStep, SkipStep, PlaceStep DEF Step

LEMMA StutterPreserves ==
  ASSUME Inductive, UNCHANGED vars
  PROVE  Inductive'
<1>1. UNCHANGED <<cells, keys, head, used, has_shift, do_defrag, pc, batch, n_tested, i0, nh, nf,
                  i1, cont, n_moves, attended>>
  BY DEF vars, loopVars, defragVars
<1>2. NonEmpty' = NonEmpty /\ n_tokens' = n_tokens
  BY <1>1 DEF NonEmpty, n_tokens
<1>3. Typed' /\ BatchFits' /\ UsedIsExact' /\ CellsConsistent'
  BY <1>1, <1>2 DEF Inductive, Typed, BatchFits, UsedIsExact, CellsConsistent, LoopsAtRest
<1>4. Compacting'
  BY <1>1, <1>2 DEF Inductive, Compacting, InUseFrom
<1>5. Searched'
  BY <1>1, <1>2 DEF Inductive, Searched, NoRunIn
<1> QED
  BY <1>3, <1>4, <1>5 DEF Inductive

\* The strengthening: every step keeps what the invariants below rest on.
THEOREM Invariance == Spec => []Inductive
<1>1. Inductive /\ [Next]_vars => Inductive'
  BY ClientPreserves, StepPreserves, StutterPreserves DEF Next
<1> QED
  BY <1>1, InitiallyInductive, PTL DEF Spec

\* The cells, the key rows and the local variables of llama_decode have their types, and
\* no index leaves the cache.
THEOREM TypeCorrect == Spec => []TypeOK
<1>1. ASSUME Inductive PROVE TypeOK
  <2>1. used \in 0..Size
    BY <1>1, CellNumbers
  <2>2. \/ pc = "idle" /\ batch = NoBatch
        \/ pc # "idle" /\ batch \in [seq : SeqIds, pos : Positions, tokens : Seq(Tokens)]
    BY <1>1 DEF Inductive, BatchFits, Batch
  <2> QED
    BY <1>1, <2>1, <2>2 DEF Inductive, Typed, TypeOK
<1> QED
  BY <1>1, Invariance, PTL

\* used counts the cells in use, after every edit, every batch, and at every step of the
\* compaction.
THEOREM UsedExact == Spec => []UsedIsExact
<1>1. Inductive => UsedIsExact
  BY DEF Inductive
<1> QED
  BY <1>1, Invariance, PTL

\* A cell has a position exactly when it has a sequence, its key is rotated for the position
\* but for the cell's delta, and no delta is forgotten.
THEOREM Consistent == Spec => []CellsConsistent
<1>1. Inductive => CellsConsistent
  BY DEF Inductive
<1> QED
  BY <1>1, Invariance, PTL

\* The assertion of the compaction holds: a hole it finds can be filled, from cells at used
\* or behind.
THEOREM HolesFillable == Spec => []HolesCanBeFilled
<1>1. ASSUME Inductive PROVE HolesCanBeFilled
  <2>1. ASSUME pc = "defrag", i0 < used, i0 \notin NonEmpty
        PROVE  /\ Cardinality(Fillers(HoleSize)) = HoleSize
               /\ \A c \in Fillers(HoleSize) : c >= used
    BY <1>1, <2>1, HoleFacts
  <2>2. ASSUME pc = "move"
        PROVE  i1 >= used /\ i0 + nh <= used /\ i0 + nf \notin NonEmpty
    <3>1. /\ i1 \in 0..(Size - 1) /\ used \in 0..Size /\ i0 + nh <= used /\ used <= i1
          /\ i0 + nf \notin NonEmpty /\ Size \in Nat
      BY <1>1, <2>2, MoveFacts, CellNumbers
    <3> QED
      BY <3>1
  <2> QED
    BY <2>1, <2>2 DEF HolesCanBeFilled
<1> QED
  BY <1>1, Invariance, PTL

\* The search for a slot is given up only when no run of free cells is as long as the batch,
\* although it starts at head and skips what it has seen taken.
THEOREM SlotFound == Spec => SlotIsFound
<1>1. ASSUME Inductive, [Next]_vars, GivesUp PROVE ~FreeRun(n_tokens)
  <2>1. pc = "search" /\ pc' = "idle" /\ used' = used
    BY <1>1 DEF GivesUp
  <2>2. ~ClientStep /\ ~UNCHANGED vars
    BY <2>1 DEF ClientStep, CacheClear, CacheDefrag, Client, Edits, CacheSeqRm, CacheAllRm,
       CacheSeqCp, CacheSeqAdd, CacheSeqDiv, CacheSeqKeep, Decodes, Decode, vars
  <2>3. Step
    BY <1>1, <2>2 DEF Next
  <2>4. n_tokens \in 1..Size /\ used \in 0..Size /\ Size \in Nat \ {0}
    BY <1>1, <2>1, SearchFacts
  <2>5. ~Place
    <3> SUFFICES ASSUME Place PROVE FALSE
      OBVIOUS
    <3>1. used' = used + n_tokens
      BY DEF Place
    <3> QED
      BY <2>1, <2>4, <3>1
  <2>6. Skip
    BY <2>1, <2>3, <2>5 DEF Step, KeepCell, FindHole, SkipGap, MoveCell, NoHoleLeft, StartSearch,
       Wrap
  <2>7. NoRunIn(0, Size)
    <3>1. head + n_tokens <= Size /\ Taken # {} /\ Tested >= Size
      BY <2>1, <2>6 DEF Skip
    <3> QED
      BY <1>1, <2>1, <3>1, SkipCovers
  <2> SUFFICES ASSUME NEW h \in 0..(Size - n_tokens),
                      \A c \in Run(h, n_tokens) : cells[c].pos < 0
               PROVE  FALSE
    BY DEF FreeRun
  <2>8. h \in 0..(Size - 1) /\ h + n_tokens <= Size
    BY <2>4
  <2>9. PICK c \in Run(h, n_tokens) : cells[c].pos >= 0
    BY <2>7, <2>8 DEF NoRunIn
  <2>10. c \in Cells
    BY <2>4, <2>8 DEF Run, Cells
  <2>11. cells[c].pos \in Int
    BY <1>1, <2>10, CellFacts
  <2> QED
    BY <2>9, <2>11
<1>2. Inductive /\ [Next]_vars => [GivesUp => ~FreeRun(n_tokens)]_vars
  BY <1>1
<1> QED
  BY <1>2, Invariance, PTL DEF Spec, SlotIsFound

-----------------------------------------------------------------------------
(***************************************************************************)
(* The store.  Every edit of the cells is the store's edit of the entries  *)
(* they hold, the steps of llama_decode before the last one leave the      *)
(* entries alone, and the last one attends what the store attends.         *)
(***************************************************************************)

(* The entries of the cells                                                *)

\* What cell c stores
EntryOf(c) == [pos |-> cells[c].pos, tok |-> keys[c].tok, seqs |-> cells[c].seq_id]

Entry == [pos : Int, tok : Tokens \union {Empty}, seqs : SUBSET SeqIds]

\* What KvStore makes of the entries with a function g
MappedBy(g) == {e \in {g[x] : x \in Entries} : e.pos >= 0 /\ e.seqs # {}}

LEMMA EntryFacts ==
  ASSUME Inductive, NEW c \in NonEmpty
  PROVE  /\ c \in Cells /\ EntryOf(c) \in Entry /\ EntryOf(c) \in Entries
         /\ EntryOf(c).pos = cells[c].pos /\ EntryOf(c).tok = keys[c].tok
         /\ EntryOf(c).seqs = cells[c].seq_id
         /\ cells[c].pos \in Nat /\ cells[c].seq_id \in SUBSET SeqIds /\ cells[c].seq_id # {}
         /\ keys[c].tok \in Tokens \union {Empty}
<1>1. c \in Cells /\ cells[c].seq_id # {}
  BY DEF NonEmpty
<1>2. /\ cells[c].pos \in Int /\ cells[c].seq_id \in SUBSET SeqIds /\ keys[c] \in Key
      /\ cells[c].pos >= 0
  BY <1>1, CellFacts
<1>3. EntryOf(c) \in Entry
  BY <1>2 DEF EntryOf, Entry, Key
<1>4. EntryOf(c) \in Entries
  BY DEF EntryOf, Entries
<1> QED
  BY <1>1, <1>2, <1>3, <1>4 DEF EntryOf, Key

LEMMA EntriesAre ==
  /\ Entries = {EntryOf(c) : c \in NonEmpty}
  /\ Entries' = {EntryOf(c)' : c \in NonEmpty'}
BY DEF Entries, EntryOf

\* An entry at another position
LEMMA MovedEntry ==
  ASSUME NEW e \in Entry, NEW p \in Int
  PROVE  /\ [e EXCEPT !.pos = p] = [pos |-> p, tok |-> e.tok, seqs |-> e.seqs]
         /\ e = [pos |-> e.pos, tok |-> e.tok, seqs |-> e.seqs]
BY DEF Entry

\* An entry with other sequences
LEMMA SharedEntry ==
  ASSUME NEW e \in Entry, NEW S \in SUBSET SeqIds
  PROVE  /\ [e EXCEPT !.seqs = S] = [pos |-> e.pos, tok |-> e.tok, seqs |-> S]
         /\ e = [pos |-> e.pos, tok |-> e.tok, seqs |-> e.seqs]
BY DEF Entry

-----------------------------------------------------------------------------
(* Edits                                                                   *)

\* Cell c has come to store its token at position p for the sequences S, or nothing if p is
\* before 0 or S is empty.
Became(c, p, S) ==
  /\ (cells'[c].seq_id # {}) <=> (p >= 0 /\ S # {})
  /\ cells'[c].seq_id # {} =>
       cells'[c].pos = p /\ cells'[c].seq_id = S /\ keys'[c].tok = keys[c].tok

\* When every cell in use has come to store what g makes of its entry, and no other cell
\* has come into use, g has been applied to the entries.
LEMMA EntriesMapped ==
  ASSUME NEW g, NEW p, NEW S,
         \A c \in NonEmpty : Became(c, p[c], S[c]),
         \A c \in NonEmpty :
           g[EntryOf(c)] = [pos |-> p[c], tok |-> keys[c].tok, seqs |-> S[c]],
         \A c \in Cells : cells'[c].seq_id # {} => c \in NonEmpty
  PROVE  Entries' = MappedBy(g)
<1>1. \A c : c \in NonEmpty' <=> c \in Cells /\ cells'[c].seq_id # {}
  BY DEF NonEmpty
<1>2. NonEmpty \in SUBSET Cells
  BY DEF NonEmpty
<1>3. ASSUME NEW c \in NonEmpty'
      PROVE  c \in NonEmpty /\ EntryOf(c)' = g[EntryOf(c)]
  <2>1. c \in NonEmpty /\ cells'[c].seq_id # {}
    BY <1>1
  <2>2. cells'[c].pos = p[c] /\ cells'[c].seq_id = S[c] /\ keys'[c].tok = keys[c].tok
    BY <2>1 DEF Became
  <2> QED
    BY <2>1, <2>2 DEF EntryOf
<1>4. ASSUME NEW c \in NonEmpty
      PROVE  c \in NonEmpty' <=> g[EntryOf(c)].pos >= 0 /\ g[EntryOf(c)].seqs # {}
  <2> DEFINE e == g[EntryOf(c)]
  <2>1. e = [pos |-> p[c], tok |-> keys[c].tok, seqs |-> S[c]]
    OBVIOUS
  <2> HIDE DEF e
  <2>2. e.pos = p[c] /\ e.seqs = S[c]
    BY <2>1
  <2> QED
    BY <1>1, <1>2, <2>2 DEF Became, e
<1>5. ASSUME NEW e \in Entries' PROVE e \in MappedBy(g)
  <2>1. PICK c \in NonEmpty' : e = EntryOf(c)'
    BY <1>5, EntriesAre
  <2>2. c \in NonEmpty /\ e = g[EntryOf(c)] /\ EntryOf(c) \in Entries
    BY <1>3, <2>1, EntriesAre
  <2> QED
    BY <1>4, <2>1, <2>2 DEF MappedBy
<1>6. ASSUME NEW e \in MappedBy(g) PROVE e \in Entries'
  <2>1. PICK x \in Entries : e = g[x] /\ e.pos >= 0 /\ e.seqs # {}
    BY <1>6 DEF MappedBy
  <2>2. PICK c \in NonEmpty : x = EntryOf(c)
    BY <2>1, EntriesAre
  <2>3. c \in NonEmpty'
    BY <1>4, <2>1, <2>2
  <2>4. e = EntryOf(c)'
    BY <1>3, <2>1, <2>2, <2>3
  <2> QED
    BY <2>3, <2>4, EntriesAre
<1> QED
  BY <1>5, <1>6, Zenon

\* A cell that an edit clears when it has nothing left to store
LEMMA BecameCleared ==
  ASSUME NEW c \in Cells, NEW cell \in EditedCell,
         cells'[c] = Cleared(cell), keys' = KeysOf(cells')
  PROVE  Became(c, cell.pos, cell.seq_id)
<1>1. cell.pos \in Int
  BY DEF EditedCell
<1>2. CASE cell.seq_id = {} \/ cell.pos < 0
  <2>1. Cleared(cell) = [cell EXCEPT !.pos = -1, !.seq_id = {}]
    BY <1>2 DEF Cleared
  <2>2. -1 \in Int
    OBVIOUS
  <2>3. cells'[c] = [pos |-> -1, delta |-> cell.delta, seq_id |-> {}]
    BY <2>1, <2>2, Reassigned, Zenon
  <2>4. cells'[c].seq_id = {}
    BY <2>3
  <2> QED
    BY <1>1, <1>2, <2>4 DEF Became
<1>3. CASE ~(cell.seq_id = {} \/ cell.pos < 0)
  <2>1. cells'[c] = cell
    BY <1>3 DEF Cleared
  <2>2. keys'[c] = keys[c]
    BY <1>3, <2>1 DEF KeysOf
  <2> QED
    BY <1>1, <1>3, <2>1, <2>2 DEF Became
<1> QED
  BY <1>2, <1>3

LEMMA BecameNothingElse ==
  ASSUME Inductive, NEW c \in NonEmpty, cells'[c] = cells[c], keys'[c].tok = keys[c].tok
  PROVE  Became(c, cells[c].pos, cells[c].seq_id)
BY EntryFacts DEF Became

LEMMA KeyKept ==
  ASSUME NEW c \in NonEmpty, cells'[c] = cells[c], keys' = KeysOf(cells')
  PROVE  keys'[c].tok = keys[c].tok
BY DEF KeysOf, NonEmpty

\* What seq_rm makes of each cell
LEMMA SeqRmCells ==
  ASSUME Inductive, NEW s, NEW p0, NEW p1, CacheSeqRm(s, p0, p1)
  PROVE  /\ \A c \in NonEmpty :
              Became(c, cells[c].pos, IF p0 <= cells[c].pos /\ cells[c].pos < p1
                                      THEN cells[c].seq_id \ {s} ELSE cells[c].seq_id)
         /\ \A c \in Cells : cells'[c].seq_id # {} => c \in NonEmpty
<1> DEFINE e(c) == [cells[c] EXCEPT !.seq_id = @ \ {s}]
           S(c) == IF p0 <= cells[c].pos /\ cells[c].pos < p1 THEN cells[c].seq_id \ {s}
                   ELSE cells[c].seq_id
<1>1. /\ cells' = [c \in Cells |-> IF Has(c, s, p0, p1) THEN Cleared(e(c)) ELSE cells[c]]
      /\ keys' = KeysOf(cells')
  BY DEF CacheSeqRm, Edit
<1>2. ASSUME NEW c \in NonEmpty
      PROVE  Became(c, cells[c].pos, S(c))
  <2>1. c \in Cells /\ cells[c] \in EditedCell
    BY EntryFacts, CellFacts
  <2>2. CASE Has(c, s, p0, p1)
    <3>1. e(c) \in EditedCell /\ e(c).pos = cells[c].pos /\ e(c).seq_id = S(c)
      BY <2>1, <2>2 DEF EditedCell, Has
    <3>2. cells'[c] = Cleared(e(c))
      BY <1>1, <2>1, <2>2
    <3> HIDE DEF e, S
    <3>3. Became(c, e(c).pos, e(c).seq_id)
      BY <1>1, <2>1, <3>1, <3>2, BecameCleared
    <3> QED
      BY <3>1, <3>3
  <2>3. CASE ~Has(c, s, p0, p1)
    <3>1. S(c) = cells[c].seq_id
      BY <2>3 DEF Has
    <3>2. cells'[c] = cells[c]
      BY <1>1, <2>1, <2>3
    <3> HIDE DEF S
    <3> QED
      BY <1>1, <3>1, <3>2, KeyKept, BecameNothingElse
  <2> QED
    BY <2>2, <2>3
<1>3. \A c \in Cells : cells'[c].seq_id # {} => c \in NonEmpty
  BY <1>1 DEF NonEmpty, Has
<1> QED
  BY <1>2, <1>3

LEMMA SeqRmImplements ==
  ASSUME Inductive, NEW s, NEW p0, NEW p1, CacheSeqRm(s, p0, p1)
  PROVE  Store!SeqRm(s, p0, p1)
<1> DEFINE in(n) == p0 <= n /\ n < p1
           g == [x \in Entries |-> IF in(x.pos) THEN [x EXCEPT !.seqs = @ \ {s}] ELSE x]
           p == [c \in NonEmpty |-> cells[c].pos]
           S == [c \in NonEmpty |-> IF in(cells[c].pos) THEN cells[c].seq_id \ {s}
                                    ELSE cells[c].seq_id]
<1>1. ASSUME NEW c \in NonEmpty
      PROVE  g[EntryOf(c)] = [pos |-> p[c], tok |-> keys[c].tok, seqs |-> S[c]]
  <2> DEFINE x == EntryOf(c)
  <2>1. /\ x \in Entry /\ x \in Entries /\ x.pos = cells[c].pos /\ x.tok = keys[c].tok
        /\ x.seqs = cells[c].seq_id
    BY EntryFacts
  <2> HIDE DEF x
  <2>2. x.seqs \ {s} \in SUBSET SeqIds
    BY <2>1 DEF Entry
  <2>3. /\ [x EXCEPT !.seqs = @ \ {s}] = [pos |-> x.pos, tok |-> x.tok, seqs |-> x.seqs \ {s}]
        /\ x = [pos |-> x.pos, tok |-> x.tok, seqs |-> x.seqs]
    BY <2>1, <2>2, SharedEntry
  <2> QED
    BY <2>1, <2>3 DEF x
<1>2. \A c \in NonEmpty : Became(c, p[c], S[c])
  BY SeqRmCells
<1>3. Entries' = MappedBy(g)
  <2> HIDE DEF g, p, S
  <2> QED
    BY <1>1, <1>2, SeqRmCells, EntriesMapped
<1> QED
  BY <1>3 DEF Store!SeqRm, Store!Mapped, Store!InRange, MappedBy

LEMMA AllRmImplements ==
  ASSUME Inductive, NEW p0 \in Positions, NEW p1, CacheAllRm(p0, p1)
  PROVE  Store!AllRm(p0, p1)
<1> DEFINE e(c) == [cells[c] EXCEPT !.seq_id = {}]
           in(n) == p0 <= n /\ n < p1
           g == [x \in Entries |-> IF in(x.pos) THEN [x EXCEPT !.seqs = {}] ELSE x]
           p == [c \in NonEmpty |-> cells[c].pos]
           S == [c \in NonEmpty |-> IF in(cells[c].pos) THEN {} ELSE cells[c].seq_id]
<1>1. /\ cells' = [c \in Cells |-> IF in(cells[c].pos) THEN Cleared(e(c)) ELSE cells[c]]
      /\ keys' = KeysOf(cells')
  BY DEF CacheAllRm, Edit
<1>2. ASSUME NEW c \in NonEmpty
      PROVE  Became(c, p[c], S[c])
  <2>1. c \in Cells /\ cells[c] \in EditedCell
    BY EntryFacts, CellFacts
  <2>2. CASE in(cells[c].pos)
    <3>1. e(c) \in EditedCell /\ e(c).pos = p[c] /\ e(c).seq_id = S[c]
      BY <2>1, <2>2 DEF EditedCell
    <3>2. cells'[c] = Cleared(e(c))
      BY <1>1, <2>1, <2>2
    <3> HIDE DEF e, p, S
    <3> QED
      BY <1>1, <2>1, <3>1, <3>2, BecameCleared
  <2>3. CASE ~in(cells[c].pos)
    <3>1. p[c] = cells[c].pos /\ S[c] = cells[c].seq_id
      BY <2>3
    <3>2. cells'[c] = cells[c]
      BY <1>1, <2>1, <2>3
    <3> HIDE DEF p, S
    <3> QED
      BY <1>1, <3>1, <3>2, KeyKept, BecameNothingElse
  <2> QED
    BY <2>2, <2>3
<1>3. ASSUME NEW c \in NonEmpty
      PROVE  g[EntryOf(c)] = [pos |-> p[c], tok |-> keys[c].tok, seqs |-> S[c]]
  <2> DEFINE x == EntryOf(c)
  <2>1. /\ x \in Entry /\ x \in Entries /\ x.pos = cells[c].pos /\ x.tok = keys[c].tok
        /\ x.seqs = cells[c].seq_id
    BY EntryFacts
  <2> HIDE DEF x
  <2>2. {} \in SUBSET SeqIds
    OBVIOUS
  <2>3. /\ [x EXCEPT !.seqs = {}] = [pos |-> x.pos, tok |-> x.tok, seqs |-> {}]
        /\ x = [pos |-> x.pos, tok |-> x.tok, seqs |-> x.seqs]
    BY <2>1, <2>2, SharedEntry
  <2> QED
    BY <2>1, <2>3 DEF x
<1>4. ASSUME NEW c \in Cells, cells'[c].seq_id # {} PROVE c \in NonEmpty
  <2> SUFFICES ASSUME c \notin NonEmpty PROVE FALSE
    OBVIOUS
  <2>1. /\ cells[c].seq_id = {} /\ ~(cells[c].pos >= 0) /\ cells[c].pos \in Int
    BY CellFacts
  <2>2. p0 \in Nat
    BY CacheAssumption DEF Positions
  <2>3. ~in(cells[c].pos)
    BY <2>1, <2>2
  <2> QED
    BY <1>1, <1>4, <2>1, <2>3
<1>5. Entries' = MappedBy(g)
  <2> HIDE DEF g, p, S
  <2> QED
    BY <1>2, <1>3, <1>4, EntriesMapped
<1>6. MappedBy(g) = {x \in Entries : ~in(x.pos)}
  <2>1. ASSUME NEW x \in Entries PROVE x \in Entry /\ x.pos >= 0 /\ x.seqs # {}
    BY EntryFacts, EntriesAre
  <2>2. ASSUME NEW x \in Entries, in(x.pos) PROVE g[x].seqs = {}
    <3>1. g[x] = [x EXCEPT !.seqs = {}]
      BY <2>2
    <3> QED
      BY <2>1, <3>1 DEF Entry
  <2>3. ASSUME NEW x \in Entries, ~in(x.pos) PROVE g[x] = x
    BY <2>3
  <2> HIDE DEF g, in
  <2>4. ASSUME NEW y \in MappedBy(g) PROVE y \in {x \in Entries : ~in(x.pos)}
    BY <2>2, <2>3 DEF MappedBy
  <2>5. ASSUME NEW y \in Entries, ~in(y.pos) PROVE y \in MappedBy(g)
    BY <2>1, <2>3, <2>5 DEF MappedBy
  <2> QED
    BY <2>4, <2>5
<1> QED
  BY <1>5, <1>6 DEF Store!AllRm, Store!InRange

LEMMA SeqCpImplements ==
  ASSUME Inductive, NEW src, NEW dst \in SeqIds, NEW p0, NEW p1, CacheSeqCp(src, dst, p0, p1)
  PROVE  Store!SeqCp(src, dst, p0, p1)
<1> DEFINE e(c) == [cells[c] EXCEPT !.seq_id = @ \union {dst}]
           in(n, Q) == src \in Q /\ p0 <= n /\ n < p1
           g == [x \in Entries |-> IF in(x.pos, x.seqs) THEN [x EXCEPT !.seqs = @ \union {dst}]
                                   ELSE x]
           p == [c \in NonEmpty |-> cells[c].pos]
           S == [c \in NonEmpty |-> IF in(cells[c].pos, cells[c].seq_id)
                                    THEN cells[c].seq_id \union {dst} ELSE cells[c].seq_id]
<1>1. /\ cells' = [c \in Cells |-> IF Has(c, src, p0, p1) THEN e(c) ELSE cells[c]]
      /\ UNCHANGED keys
  BY DEF CacheSeqCp
<1>2. ASSUME NEW c \in NonEmpty
      PROVE  Became(c, p[c], S[c])
  <2>1. /\ c \in Cells /\ cells[c] \in EditedCell /\ cells[c].pos \in Nat
        /\ cells[c].seq_id # {}
    BY EntryFacts, CellFacts
  <2>2. CASE Has(c, src, p0, p1)
    <3>1. e(c).pos = p[c] /\ e(c).seq_id = S[c] /\ S[c] # {} /\ p[c] >= 0
      BY <2>1, <2>2 DEF EditedCell, Has
    <3>2. cells'[c] = e(c)
      BY <1>1, <2>1, <2>2
    <3> HIDE DEF e, p, S
    <3> QED
      BY <1>1, <3>1, <3>2 DEF Became
  <2>3. CASE ~Has(c, src, p0, p1)
    <3>1. p[c] = cells[c].pos /\ S[c] = cells[c].seq_id
      BY <2>3 DEF Has
    <3>2. cells'[c] = cells[c]
      BY <1>1, <2>1, <2>3
    <3> HIDE DEF p, S
    <3> QED
      BY <1>1, <3>1, <3>2, BecameNothingElse
  <2> QED
    BY <2>2, <2>3
<1>3. ASSUME NEW c \in NonEmpty
      PROVE  g[EntryOf(c)] = [pos |-> p[c], tok |-> keys[c].tok, seqs |-> S[c]]
  <2> DEFINE x == EntryOf(c)
  <2>1. /\ x \in Entry /\ x \in Entries /\ x.pos = cells[c].pos /\ x.tok = keys[c].tok
        /\ x.seqs = cells[c].seq_id
    BY EntryFacts
  <2> HIDE DEF x
  <2>2. x.seqs \union {dst} \in SUBSET SeqIds
    BY <2>1 DEF Entry
  <2>3. /\ [x EXCEPT !.seqs = @ \union {dst}]
             = [pos |-> x.pos, tok |-> x.tok, seqs |-> x.seqs \union {dst}]
        /\ x = [pos |-> x.pos, tok |-> x.tok, seqs |-> x.seqs]
    BY <2>1, <2>2, SharedEntry
  <2> QED
    BY <2>1, <2>3 DEF x
<1>4. \A c \in Cells : cells'[c].seq_id # {} => c \in NonEmpty
  BY <1>1 DEF NonEmpty, Has
<1>5. Entries' = MappedBy(g)
  <2> HIDE DEF g, p, S
  <2> QED
    BY <1>2, <1>3, <1>4, EntriesMapped
<1> QED
  BY <1>5 DEF Store!SeqCp, Store!Mapped, Store!InRange, MappedBy

LEMMA SeqKeepImplements ==
  ASSUME Inductive, NEW s \in SeqIds, CacheSeqKeep(s)
  PROVE  Store!SeqKeep(s)
<1> DEFINE without(c) == [cells[c] EXCEPT !.pos = -1, !.seq_id = {}]
           with(c) == [cells[c] EXCEPT !.seq_id = {s}]
           g == [x \in Entries |-> [x EXCEPT !.seqs = @ \intersect {s}]]
           p == [c \in NonEmpty |-> cells[c].pos]
           S == [c \in NonEmpty |-> cells[c].seq_id \intersect {s}]
<1>1. /\ cells' = [c \in Cells |-> IF c \in {d \in Cells : s \notin cells[d].seq_id}
                                   THEN without(c) ELSE with(c)]
      /\ keys' = KeysOf(cells')
  BY DEF CacheSeqKeep
<1>2. ASSUME NEW c \in Cells, s \notin cells[c].seq_id
      PROVE  cells'[c].seq_id = {}
  <2>1. cells[c] \in EditedCell /\ -1 \in Int
    BY CellFacts, FreedCell, Zenon
  <2>2. without(c) = [pos |-> -1, delta |-> cells[c].delta, seq_id |-> {}]
    BY <2>1, Reassigned, Zenon
  <2>3. cells'[c] = without(c)
    BY <1>1, <1>2
  <2> HIDE DEF without
  <2> QED
    BY <2>2, <2>3
<1>3. ASSUME NEW c \in NonEmpty
      PROVE  Became(c, p[c], S[c])
  <2>1. /\ c \in Cells /\ cells[c] \in EditedCell /\ cells[c].pos \in Nat
        /\ cells[c].seq_id # {}
    BY EntryFacts, CellFacts
  <2>2. CASE s \in cells[c].seq_id
    <3>1. /\ with(c).pos = p[c] /\ with(c).seq_id = {s} /\ S[c] = {s} /\ {s} # {}
          /\ p[c] >= 0
      BY <2>1, <2>2 DEF EditedCell
    <3>2. cells'[c] = with(c)
      BY <1>1, <2>1, <2>2
    <3> HIDE DEF with, p, S
    <3>3. keys'[c] = keys[c]
      BY <1>1, <2>1, <3>1, <3>2 DEF KeysOf
    <3> QED
      BY <3>1, <3>2, <3>3 DEF Became
  <2>3. CASE s \notin cells[c].seq_id
    <3>1. S[c] = {}
      BY <2>3
    <3> QED
      BY <1>2, <2>1, <2>3, <3>1 DEF Became
  <2> QED
    BY <2>2, <2>3
<1>4. ASSUME NEW c \in NonEmpty
      PROVE  g[EntryOf(c)] = [pos |-> p[c], tok |-> keys[c].tok, seqs |-> S[c]]
  <2> DEFINE x == EntryOf(c)
  <2>1. /\ x \in Entry /\ x \in Entries /\ x.pos = cells[c].pos /\ x.tok = keys[c].tok
        /\ x.seqs = cells[c].seq_id
    BY EntryFacts
  <2> HIDE DEF x
  <2>2. x.seqs \intersect {s} \in SUBSET SeqIds
    BY <2>1 DEF Entry
  <2>3. [x EXCEPT !.seqs = @ \intersect {s}]
          = [pos |-> x.pos, tok |-> x.tok, seqs |-> x.seqs \intersect {s}]
    BY <2>1, <2>2, SharedEntry
  <2> QED
    BY <2>1, <2>3 DEF x
<1>5. \A c \in Cells : cells'[c].seq_id # {} => c \in NonEmpty
  BY <1>2 DEF NonEmpty
<1>6. Entries' = MappedBy(g)
  <2> HIDE DEF g, p, S
  <2> QED
    BY <1>3, <1>4, <1>5, EntriesMapped
<1> QED
  BY <1>6 DEF Store!SeqKeep, Store!Mapped, MappedBy

\* What seq_add makes of each cell
LEMMA SeqAddCells ==
  ASSUME Inductive, NEW s, NEW p0, NEW p1, NEW delta \in Deltas, CacheSeqAdd(s, p0, p1, delta)
  PROVE  /\ \A c \in NonEmpty :
              Became(c, IF Has(c, s, p0, p1) THEN cells[c].pos + delta ELSE cells[c].pos,
                     cells[c].seq_id)
         /\ \A c \in Cells : cells'[c].seq_id # {} => c \in NonEmpty
<1> DEFINE e(c) == [cells[c] EXCEPT !.pos = @ + delta, !.delta = @ + delta]
<1>1. /\ cells' = [c \in Cells |-> IF Has(c, s, p0, p1) THEN Cleared(e(c)) ELSE cells[c]]
      /\ keys' = KeysOf(cells')
  BY DEF CacheSeqAdd, Shifted
<1> delta \in Int
  BY CacheAssumption
<1>2. ASSUME NEW c \in NonEmpty
      PROVE  Became(c, IF Has(c, s, p0, p1) THEN cells[c].pos + delta ELSE cells[c].pos,
                    cells[c].seq_id)
  <2>1. /\ c \in Cells /\ cells[c] \in EditedCell /\ cells[c].pos \in Int
        /\ cells[c].delta \in Int
    BY EntryFacts, CellFacts
  <2>2. CASE Has(c, s, p0, p1)
    <3>1. cells[c].pos + delta \in Int /\ cells[c].delta + delta \in Int
      BY <2>1
    <3>2. e(c) = [pos |-> cells[c].pos + delta, delta |-> cells[c].delta + delta,
                  seq_id |-> cells[c].seq_id]
      BY <2>1, <3>1, Displaced
    <3>3. cells'[c] = Cleared(e(c))
      BY <1>1, <2>1, <2>2
    <3> HIDE DEF e
    <3>4. e(c).pos = cells[c].pos + delta /\ e(c).seq_id = cells[c].seq_id
      BY <3>2
    <3>5. e(c) \in EditedCell
      BY <2>1, <3>1, <3>2 DEF EditedCell
    <3>6. Became(c, e(c).pos, e(c).seq_id)
      BY <1>1, <2>1, <3>3, <3>5, BecameCleared
    <3> QED
      BY <2>2, <3>4, <3>6
  <2>3. CASE ~Has(c, s, p0, p1)
    <3>1. cells'[c] = cells[c]
      BY <1>1, <2>1, <2>3
    <3> QED
      BY <1>1, <2>3, <3>1, KeyKept, BecameNothingElse
  <2> QED
    BY <2>2, <2>3
<1>3. \A c \in Cells : cells'[c].seq_id # {} => c \in NonEmpty
  BY <1>1 DEF NonEmpty, Has
<1> QED
  BY <1>2, <1>3

LEMMA SeqAddImplements ==
  ASSUME Inductive, NEW s, NEW p0, NEW p1, NEW delta \in Deltas, CacheSeqAdd(s, p0, p1, delta)
  PROVE  Store!SeqAdd(s, p0, p1, delta)
<1> DEFINE in(n, Q) == s \in Q /\ p0 <= n /\ n < p1
           g == [x \in Entries |-> IF in(x.pos, x.seqs) THEN [x EXCEPT !.pos = @ + delta] ELSE x]
           p == [c \in NonEmpty |-> IF Has(c, s, p0, p1) THEN cells[c].pos + delta
                                    ELSE cells[c].pos]
           S == [c \in NonEmpty |-> cells[c].seq_id]
<1> delta \in Int
  BY CacheAssumption
<1>1. ASSUME NEW c \in NonEmpty
      PROVE  g[EntryOf(c)] = [pos |-> p[c], tok |-> keys[c].tok, seqs |-> S[c]]
  <2> DEFINE x == EntryOf(c)
  <2>1. /\ x \in Entry /\ x \in Entries /\ x.pos = cells[c].pos /\ x.tok = keys[c].tok
        /\ x.seqs = cells[c].seq_id
    BY EntryFacts
  <2> HIDE DEF x
  <2>2. x.pos + delta \in Int
    BY <2>1 DEF Entry
  <2>3. /\ [x EXCEPT !.pos = @ + delta] = [pos |-> x.pos + delta, tok |-> x.tok, seqs |-> x.seqs]
        /\ x = [pos |-> x.pos, tok |-> x.tok, seqs |-> x.seqs]
    BY <2>1, <2>2, MovedEntry
  <2> QED
    BY <2>1, <2>3 DEF x, Has
<1>2. \A c \in NonEmpty : Became(c, p[c], S[c])
  BY SeqAddCells
<1>3. Entries' = MappedBy(g)
  <2> HIDE DEF g, p, S
  <2> QED
    BY <1>1, <1>2, SeqAddCells, EntriesMapped
<1> QED
  BY <1>3 DEF Store!SeqAdd, Store!Mapped, Store!InRange, MappedBy

LEMMA SeqDivImplements ==
  ASSUME Inductive, NEW s, NEW p0, NEW p1, NEW d \in Divisors, CacheSeqDiv(s, p0, p1, d)
  PROVE  Store!SeqDiv(s, p0, p1, d)
<1> DEFINE q(c) == cells[c].pos \div d
           e(c) == [cells[c] EXCEPT !.pos = @ \div d, !.delta = @ + q(c) - cells[c].pos]
           in(n, Q) == s \in Q /\ p0 <= n /\ n < p1
           g == [x \in Entries |-> IF in(x.pos, x.seqs) THEN [x EXCEPT !.pos = @ \div d] ELSE x]
           p == [c \in NonEmpty |-> IF in(cells[c].pos, cells[c].seq_id)
                                    THEN cells[c].pos \div d ELSE cells[c].pos]
           S == [c \in NonEmpty |-> cells[c].seq_id]
<1>1. /\ cells' = [c \in Cells |-> IF Has(c, s, p0, p1) THEN e(c) ELSE cells[c]]
      /\ UNCHANGED keys
  BY DEF CacheSeqDiv
<1>2. ASSUME NEW n \in Nat PROVE n \div d \in Nat
  <2>1. d \in Nat /\ d >= 2
    BY CacheAssumption
  <2> QED
    BY <2>1
<1>3. ASSUME NEW c \in NonEmpty
      PROVE  Became(c, p[c], S[c])
  <2>1. /\ c \in Cells /\ cells[c] \in EditedCell /\ cells[c].pos \in Nat
        /\ cells[c].delta \in Int /\ cells[c].seq_id # {}
    BY EntryFacts, CellFacts
  <2>2. CASE Has(c, s, p0, p1)
    <3>1. p[c] = q(c) /\ S[c] = cells[c].seq_id /\ q(c) \in Nat
      BY <1>2, <2>1, <2>2 DEF Has
    <3> HIDE DEF q
    <3>2. q(c) \in Int /\ cells[c].delta + q(c) - cells[c].pos \in Int
      BY <2>1, <3>1
    <3>3. e(c) = [pos |-> q(c), delta |-> cells[c].delta + q(c) - cells[c].pos,
                  seq_id |-> cells[c].seq_id]
      BY <2>1, <3>2, Displaced DEF q
    <3>4. cells'[c] = e(c)
      BY <1>1, <2>1, <2>2
    <3> HIDE DEF e, p, S
    <3>5. e(c).pos = p[c] /\ e(c).seq_id = S[c] /\ p[c] >= 0 /\ S[c] # {}
      BY <2>1, <3>1, <3>3
    <3> QED
      BY <1>1, <3>4, <3>5 DEF Became
  <2>3. CASE ~Has(c, s, p0, p1)
    <3>1. p[c] = cells[c].pos /\ S[c] = cells[c].seq_id
      BY <2>3 DEF Has
    <3>2. cells'[c] = cells[c]
      BY <1>1, <2>1, <2>3
    <3> HIDE DEF p, S
    <3> QED
      BY <1>1, <3>1, <3>2, BecameNothingElse
  <2> QED
    BY <2>2, <2>3
<1>4. ASSUME NEW c \in NonEmpty
      PROVE  g[EntryOf(c)] = [pos |-> p[c], tok |-> keys[c].tok, seqs |-> S[c]]
  <2> DEFINE x == EntryOf(c)
  <2>1. /\ x \in Entry /\ x \in Entries /\ x.pos = cells[c].pos /\ x.tok = keys[c].tok
        /\ x.seqs = cells[c].seq_id /\ cells[c].pos \in Nat
    BY EntryFacts
  <2> HIDE DEF x
  <2>2. x.pos \div d \in Int
    BY <1>2, <2>1
  <2>3. /\ [x EXCEPT !.pos = @ \div d] = [pos |-> x.pos \div d, tok |-> x.tok, seqs |-> x.seqs]
        /\ x = [pos |-> x.pos, tok |-> x.tok, seqs |-> x.seqs]
    BY <2>1, <2>2, MovedEntry
  <2> QED
    BY <2>1, <2>3 DEF x
<1>5. ASSUME NEW c \in Cells, cells'[c].seq_id # {} PROVE c \in NonEmpty
  <2> SUFFICES ASSUME c \notin NonEmpty PROVE FALSE
    OBVIOUS
  <2>1. cells[c].seq_id = {}
    BY DEF NonEmpty
  <2>2. cells'[c] = cells[c]
    BY <1>1, <2>1 DEF Has
  <2> QED
    BY <1>5, <2>1, <2>2
<1>6. Entries' = MappedBy(g)
  <2> HIDE DEF g, p, S
  <2> QED
    BY <1>3, <1>4, <1>5, EntriesMapped
<1> QED
  BY <1>6 DEF Store!SeqDiv, Store!Mapped, Store!InRange, MappedBy

LEMMA ClearImplements ==
  ASSUME Inductive, CacheClear
  PROVE  Store!Clear
<1>1. ASSUME NEW c \in Cells PROVE cells'[c].seq_id = {}
  <2>1. cells[c] \in EditedCell /\ -1 \in Int
    BY CellFacts, FreedCell, Zenon
  <2>2. cells'[c] = [cells[c] EXCEPT !.pos = -1, !.seq_id = {}]
    BY DEF CacheClear
  <2>3. cells'[c] = [pos |-> -1, delta |-> cells[c].delta, seq_id |-> {}]
    BY <2>1, <2>2, Reassigned, Zenon
  <2> QED
    BY <2>3
<1>2. NonEmpty' = {}
  BY <1>1 DEF NonEmpty
<1> QED
  BY <1>2, EntriesAre DEF Store!Clear

-----------------------------------------------------------------------------
(* llama_decode                                                            *)

LEMMA EntriesAlone ==
  ASSUME NonEmpty' = NonEmpty, \A c \in NonEmpty : EntryOf(c)' = EntryOf(c)
  PROVE  Entries' = Entries
BY EntriesAre

LEMMA CellsUnchanged ==
  ASSUME UNCHANGED <<cells, keys>>
  PROVE  Entries' = Entries
BY DEF Entries, NonEmpty

\* The rotation of the keys is not seen.
LEMMA DecodeImplements ==
  ASSUME Inductive, NEW s, NEW p, NEW tokens, Decode(s, p, tokens)
  PROVE  Entries' = Entries /\ attended' = attended
<1>1. /\ keys' = [c \in Cells |-> IF has_shift /\ c \in NonEmpty
                                  THEN [keys[c] EXCEPT !.rot = @ + cells[c].delta]
                                  ELSE keys[c]]
      /\ cells' = [c \in Cells |-> IF has_shift THEN [cells[c] EXCEPT !.delta = 0] ELSE cells[c]]
      /\ attended' = attended
  BY DEF Decode
<1>2. ASSUME NEW c \in Cells
      PROVE  /\ cells'[c].pos = cells[c].pos /\ cells'[c].seq_id = cells[c].seq_id
             /\ keys'[c].tok = keys[c].tok
  <2>1. cells[c] \in EditedCell /\ keys[c] \in Key
    BY CellFacts
  <2> QED
    BY <1>1, <2>1 DEF EditedCell, Key
<1>3. NonEmpty' = NonEmpty
  BY <1>2 DEF NonEmpty
<1>4. \A c \in NonEmpty : EntryOf(c)' = EntryOf(c)
  BY <1>2 DEF NonEmpty, EntryOf
<1> QED
  BY <1>1, <1>3, <1>4, EntriesAlone

\* Nor is a cell that is moved into a hole.
LEMMA MoveCellImplements ==
  ASSUME Inductive, MoveCell
  PROVE  Entries' = Entries /\ attended' = attended
<1>0. PICK to \in Cells : to = i0 + nf
  BY MoveFacts DEF MoveCell
<1>10. PICK from \in NonEmpty : from = i1
  BY DEF MoveCell
<1>1. /\ attended' = attended
      /\ cells' = [cells EXCEPT ![to] = cells[from], ![from] = FreeCell]
      /\ keys' = [keys EXCEPT ![to] = keys[from], ![from] = NoKey]
  BY <1>0, <1>10 DEF MoveCell, Move, Defragging
<1>2. /\ to \in Cells /\ to \notin NonEmpty /\ from \in Cells /\ from # to
      /\ NonEmpty \in SUBSET Cells
  BY <1>0, <1>10, MoveFacts, CellNumbers DEF MoveCell
<1>3. cells \in [Cells -> Cell] /\ keys \in [Cells -> Key]
  BY DEF Inductive, Typed
<1>4. /\ cells'[to] = cells[from] /\ keys'[to] = keys[from] /\ cells'[from] = FreeCell
      /\ \A c \in Cells \ {to, from} : cells'[c] = cells[c] /\ keys'[c] = keys[c]
  BY <1>1, <1>2, <1>3
<1>5. NonEmpty' = (NonEmpty \ {from}) \cup {to}
  <2>1. FreeCell.seq_id = {} /\ cells[from].seq_id # {}
    BY DEF FreeCell, NonEmpty
  <2>2. \A c \in Cells : cells'[c].seq_id # {} <=>
          (c = to \/ (c # from /\ cells[c].seq_id # {}))
    BY <1>2, <1>4, <2>1
  <2> QED
    BY <1>2, <2>2 DEF NonEmpty
<1>6. EntryOf(to)' = EntryOf(from)
  BY <1>2, <1>4 DEF EntryOf
<1>7. ASSUME NEW c \in NonEmpty, c # from PROVE c \in NonEmpty' /\ EntryOf(c)' = EntryOf(c)
  <2>1. c \in Cells \ {to, from}
    BY <1>2, <1>7
  <2>2. c \in NonEmpty'
    BY <1>5, <1>7
  <2> QED
    BY <1>4, <2>1, <2>2 DEF EntryOf
<1>8. ASSUME NEW e \in Entries PROVE e \in Entries'
  <2>1. PICK c \in NonEmpty : e = EntryOf(c)
    BY <1>8, EntriesAre
  <2>2. CASE c = from
    <3>1. to \in NonEmpty'
      BY <1>5
    <3>2. \E d \in NonEmpty' : e = EntryOf(d)'
      BY <1>6, <2>1, <2>2, <3>1
    <3> QED
      BY <3>2, EntriesAre
  <2>3. CASE c # from
    BY <1>7, <2>1, <2>3, EntriesAre
  <2> QED
    BY <2>2, <2>3
<1>9. ASSUME NEW e \in Entries' PROVE e \in Entries
  <2>1. PICK c \in NonEmpty' : e = EntryOf(c)'
    BY <1>9, EntriesAre
  <2>2. CASE c = to
    <3>1. e = EntryOf(from)
      BY <1>6, <2>1, <2>2
    <3> QED
      BY <3>1, EntriesAre
  <2>3. CASE c # to
    <3>1. c \in NonEmpty /\ c # from
      BY <1>2, <1>5, <2>3
    <3> QED
      BY <1>7, <2>1, <3>1, EntriesAre
  <2> QED
    BY <2>2, <2>3
<1> QED
  BY <1>1, <1>8, <1>9, Zenon

\* What is attended is a multiple of Pad that reaches every cell in use.
LEMMA PaddedCovers ==
  ASSUME NEW k \in Nat
  PROVE  Padded(k) \in Int /\ Padded(k) >= k
<1>1. Pad \in Nat \ {0}
  BY CacheAssumption
<1> DEFINE q == (k + Pad - 1) \div Pad
           r == (k + Pad - 1) % Pad
<1>2. k + Pad - 1 \in Nat
  BY <1>1
<1>3. q \in Int /\ r \in 0..(Pad - 1) /\ k + Pad - 1 = q * Pad + r
  BY <1>1, <1>2
<1> HIDE DEF q, r
<1>4. q * Pad \in Int
  BY <1>1, <1>3
<1>5. q * Pad >= k
  BY <1>1, <1>3, <1>4
<1> QED
  BY <1>4, <1>5 DEF Padded, q

LEMMA AllAttended ==
  ASSUME Inductive', NEW c \in NonEmpty'
  PROVE  c < AttendedSize(cells')
<1>1. Size \in Nat \ {0} /\ Cells \in SUBSET Nat
  BY SomeCells
<1>2. \A d \in Cells : (cells'[d].pos >= 0) <=> (d \in NonEmpty')
  BY DEF Inductive, CellsConsistent
<1>3. \A d \in NonEmpty' : d \in Cells /\ cells'[d].seq_id # {}
  BY DEF NonEmpty
<1>4. \A d \in Cells : cells'[d].pos \in Int /\ (d \in NonEmpty' <=> cells'[d].seq_id # {})
  <2>1. cells' \in [Cells -> Cell] /\ NCtx \in Nat
    BY CacheAssumption DEF Inductive, Typed
  <2> QED
    BY <2>1 DEF Cell, Positions, NonEmpty
<1>5. PICK m \in NonEmpty' : \A d \in NonEmpty' : d <= m
  <2>1. NonEmpty' \in SUBSET (0..(Size - 1)) /\ Size - 1 \in Nat /\ NonEmpty' # {}
    BY <1>1, <1>3 DEF Cells
  <2> DEFINE N == NonEmpty'
  <2> HIDE DEF N
  <2>2. \E i \in N : \A j \in N : j <= i
    BY <2>1, GreatestNumber DEF N
  <2> QED
    BY <2>2 DEF N
<1> DEFINE Ok(k) == /\ cells'[k - 1].pos >= 0 /\ cells'[k - 1].seq_id # {}
                    /\ \A d \in k..(Size - 1) : cells'[d].pos < 0 \/ cells'[d].seq_id = {}
           top == CellMax(cells')
<1>6. m + 1 \in 1..Size /\ Ok(m + 1)
  <2>1. m \in Nat /\ m < Size /\ (m + 1) - 1 = m /\ m \in Cells
    BY <1>1, <1>3 DEF Cells
  <2>2. \A d \in (m + 1)..(Size - 1) : d \in Cells /\ d \notin NonEmpty'
    BY <1>1, <1>5, <2>1 DEF Cells
  <2> QED
    BY <1>1, <1>2, <1>3, <1>4, <2>1, <2>2
<1>7. top \in 1..Size /\ Ok(top)
  <2>1. top = CHOOSE k \in 1..Size : Ok(k)
    BY DEF CellMax
  <2> HIDE DEF Ok, top
  <2> QED
    BY <1>6, <2>1
<1>8. c < top
  <2> SUFFICES ASSUME ~(c < top) PROVE FALSE
    OBVIOUS
  <2> HIDE DEF top
  <2>1. c \in top..(Size - 1) /\ c \in Cells
    BY <1>1, <1>3, <1>7 DEF Cells
  <2>2. cells'[c].pos < 0 \/ cells'[c].seq_id = {}
    BY <1>7, <2>1
  <2> QED
    BY <1>2, <1>3, <1>4, <2>1, <2>2
<1> HIDE DEF top
<1>9. Padded(top) \in Int /\ Padded(top) >= top /\ Pad \in Nat
  BY <1>1, <1>7, PaddedCovers, CacheAssumption
<1>10. c \in Nat /\ c < Size
  BY <1>1, <1>3 DEF Cells
<1> QED
  BY <1>1, <1>7, <1>8, <1>9, <1>10 DEF AttendedSize, Smaller, Larger, top

\* The batch becomes entries, and attends what the store attends.
LEMMA PlaceImplements ==
  ASSUME Inductive, Inductive', Place
  PROVE  Store!Decode(batch.seq, batch.pos, batch.tokens)
<1> DEFINE R == Run(head, n_tokens)
           entry(k) == [pos |-> batch.pos + k - 1, tok |-> batch.tokens[k], seqs |-> {batch.seq}]
           New == {entry(k) : k \in 1..Len(batch.tokens)}
<1>1. /\ Size \in Nat /\ head \in Nat /\ n_tokens \in Nat /\ batch.pos \in Nat
      /\ Len(batch.tokens) = n_tokens
  <2>1. /\ Size \in Nat \ {0} /\ head \in 0..Size /\ n_tokens \in 1..Size /\ batch.pos \in Nat
    BY SearchFacts DEF Place
  <2>2. Len(batch.tokens) = n_tokens
    BY DEF n_tokens
  <2> QED
    BY <2>1, <2>2
<1>2. /\ R \in SUBSET Cells /\ R \cap NonEmpty = {} /\ NonEmpty' = NonEmpty \cup R
      /\ \A c \in R :
           /\ c - head \in 0..(n_tokens - 1)
           /\ cells'[c].pos = batch.pos + (c - head) /\ cells'[c].seq_id = {batch.seq}
           /\ keys'[c].tok = batch.tokens[(c - head) + 1]
      /\ \A c \in Cells \ R : cells'[c] = cells[c] /\ keys'[c] = keys[c]
  BY Placed
<1>3. R = head..(head + n_tokens - 1)
  BY DEF Run
<1> HIDE DEF R
<1>4. ASSUME NEW c \in R
      PROVE  (c - head) + 1 \in 1..n_tokens /\ EntryOf(c)' = entry((c - head) + 1)
  <2>1. c \in Int /\ c - head \in 0..(n_tokens - 1)
    BY <1>1, <1>2, <1>3
  <2>2. (c - head) + 1 \in 1..n_tokens /\ batch.pos + ((c - head) + 1) - 1 = batch.pos + (c - head)
    BY <1>1, <2>1
  <2> QED
    BY <1>2, <2>2 DEF EntryOf
<1>5. ASSUME NEW k \in 1..n_tokens PROVE \E c \in R : k = (c - head) + 1
  <2>1. head + (k - 1) \in R /\ k = ((head + (k - 1)) - head) + 1
    BY <1>1, <1>3
  <2> QED
    BY <2>1
<1>6. ASSUME NEW c \in NonEmpty PROVE c \in NonEmpty' /\ EntryOf(c)' = EntryOf(c)
  <2>1. c \in Cells \ R
    BY <1>2 DEF NonEmpty
  <2> QED
    BY <1>2, <2>1 DEF EntryOf
<1> HIDE DEF entry
<1>7. Entries' = Entries \cup New
  <2>1. ASSUME NEW e \in Entries' PROVE e \in Entries \cup New
    <3>1. PICK c \in NonEmpty' : e = EntryOf(c)'
      BY <2>1, EntriesAre
    <3>2. CASE c \in R
      BY <1>1, <1>4, <3>1, <3>2
    <3>3. CASE c \in NonEmpty
      BY <1>6, <3>1, <3>3, EntriesAre
    <3> QED
      BY <1>2, <3>2, <3>3
  <2>2. ASSUME NEW e \in Entries PROVE e \in Entries'
    BY <1>6, EntriesAre
  <2>3. ASSUME NEW e \in New PROVE e \in Entries'
    <3>1. PICK k \in 1..n_tokens : e = entry(k)
      BY <1>1, <2>3
    <3>2. PICK c \in R : k = (c - head) + 1
      BY <1>5
    <3>3. c \in NonEmpty' /\ e = EntryOf(c)'
      BY <1>2, <1>4, <3>1, <3>2
    <3> QED
      BY <3>3, EntriesAre
  <2> HIDE DEF New
  <2> QED
    BY <2>1, <2>2, <2>3, Zenon
<1>8. attended' = {<<e.pos, e.tok>> : e \in {x \in Entries' :
                     batch.seq \in x.seqs /\ x.pos < batch.pos + Len(batch.tokens)}}
  <2> DEFINE Near == {d \in Cells : /\ d < AttendedSize(cells')
                                    /\ batch.seq \in cells'[d].seq_id
                                    /\ cells'[d].pos < batch.pos + n_tokens}
             Seen == {x \in Entries' :
                        batch.seq \in x.seqs /\ x.pos < batch.pos + Len(batch.tokens)}
  <2>1. attended' = {<<keys'[c].rot, keys'[c].tok>> : c \in Near}
    BY DEF Place
  <2>2. ASSUME NEW c \in NonEmpty' PROVE c < AttendedSize(cells')
    BY <2>2, AllAttended
  <2>3. \A c \in NonEmpty' : keys'[c].rot = cells'[c].pos
    <3>1. \A c \in NonEmpty' : keys'[c].rot + cells'[c].delta = cells'[c].pos
      BY DEF Inductive, CellsConsistent
    <3>2. \A c \in NonEmpty' : c \in Cells /\ keys'[c].rot \in Int /\ cells'[c].delta = 0
      <4>1. \A c \in NonEmpty' : c \in Cells
        BY DEF NonEmpty
      <4>2. \A c \in Cells : keys'[c].rot \in Int
        BY DEF Inductive, Typed, Key
      <4>3. \A c \in Cells : cells'[c].delta = 0
        <5>1. \A c \in Cells : cells[c].delta = 0
          BY SearchFacts DEF Place
        <5> QED
          BY <5>1, Placed
      <4> QED
        BY <4>1, <4>2, <4>3
    <3> QED
      BY <3>1, <3>2
  <2>4. ASSUME NEW c \in Near
        PROVE  EntryOf(c)' \in Seen /\ <<keys'[c].rot, keys'[c].tok>>
                                        = <<EntryOf(c)'.pos, EntryOf(c)'.tok>>
    <3>1. c \in Cells /\ c \in NonEmpty'
      BY DEF NonEmpty
    <3>2. EntryOf(c)' \in Entries'
      BY <3>1, EntriesAre
    <3> QED
      BY <1>1, <2>3, <3>1, <3>2 DEF EntryOf
  <2>5. ASSUME NEW x \in Seen
        PROVE  \E c \in Near : <<keys'[c].rot, keys'[c].tok>> = <<x.pos, x.tok>>
    <3>1. PICK c \in NonEmpty' : x = EntryOf(c)'
      BY EntriesAre
    <3>2. /\ x.pos = cells'[c].pos /\ x.tok = keys'[c].tok /\ x.seqs = cells'[c].seq_id
          /\ c \in Cells
      BY <3>1 DEF EntryOf, NonEmpty
    <3>3. c \in Near
      BY <1>1, <2>2, <3>2
    <3> QED
      BY <2>3, <3>2, <3>3
  <2> HIDE DEF Near, Seen
  <2>6. ASSUME NEW a \in attended' PROVE a \in {<<x.pos, x.tok>> : x \in Seen}
    BY <2>1, <2>4
  <2>7. ASSUME NEW a \in {<<x.pos, x.tok>> : x \in Seen} PROVE a \in attended'
    BY <2>1, <2>5
  <2>8. attended' = {<<x.pos, x.tok>> : x \in Seen}
    BY <2>6, <2>7, Zenon
  <2> QED
    BY <2>8 DEF Seen
<1> QED
  BY <1>7, <1>8 DEF Store!Decode, entry

-----------------------------------------------------------------------------
(* The refinement                                                          *)

LEMMA ClientImplements ==
  ASSUME Inductive, ClientStep
  PROVE  [Store!Next]_<<Entries, attended>>
<1>1. CASE CacheClear
  BY <1>1, ClearImplements DEF Store!Next, Store!Edit, CacheClear, Client
<1>2. CASE CacheDefrag
  <2>1. Entries' = Entries /\ attended' = {}
    BY <1>2, CellsUnchanged DEF CacheDefrag, Client
  <2> QED
    BY <2>1 DEF Store!Next, Store!Edit, Store!Defrag
<1>3. ASSUME NEW s \in SeqIds, Edits(s) PROVE Store!Next
  <2>1. PICK p0 \in Positions, p1 \in 1..NCtx :
          /\ p0 < p1
          /\ \/ CacheSeqRm(s, p0, p1) \/ CacheAllRm(p0, p1)
             \/ \E dst \in SeqIds \ {s} : CacheSeqCp(s, dst, p0, p1)
             \/ \E delta \in Deltas :
                  /\ \A c \in Cells : Has(c, s, p0, p1) => cells[c].pos + delta < NCtx
                  /\ CacheSeqAdd(s, p0, p1, delta)
             \/ \E d \in Divisors : CacheSeqDiv(s, p0, p1, d)
    BY <1>3 DEF Edits
  <2>2. attended' = {}
    BY <2>1 DEF CacheSeqRm, CacheAllRm, CacheSeqCp, CacheSeqAdd, CacheSeqDiv, Client
  <2>3. p0 \in 0..(NCtx - 1) /\ p0 < p1
    BY <2>1 DEF Positions
  <2>4. \/ Store!AllRm(p0, p1) \/ Store!SeqRm(s, p0, p1)
        \/ \E dst \in SeqIds \ {s} : Store!SeqCp(s, dst, p0, p1)
        \/ \E delta \in Deltas : Store!SeqAdd(s, p0, p1, delta)
        \/ \E d \in Divisors : Store!SeqDiv(s, p0, p1, d)
    <3>1. CASE CacheSeqRm(s, p0, p1)
      BY <3>1, SeqRmImplements
    <3>2. CASE CacheAllRm(p0, p1)
      BY <3>2, AllRmImplements
    <3>3. CASE \E dst \in SeqIds \ {s} : CacheSeqCp(s, dst, p0, p1)
      BY <3>3, SeqCpImplements
    <3>4. CASE \E delta \in Deltas : CacheSeqAdd(s, p0, p1, delta)
      BY <3>4, SeqAddImplements
    <3>5. CASE \E d \in Divisors : CacheSeqDiv(s, p0, p1, d)
      BY <3>5, SeqDivImplements
    <3> QED
      BY <2>1, <3>1, <3>2, <3>3, <3>4, <3>5
  <2> QED
    BY <2>2, <2>3, <2>4 DEF Store!Next, Store!Edit
<1>4. ASSUME NEW s \in SeqIds, CacheSeqKeep(s) PROVE Store!Next
  <2>1. Store!SeqKeep(s) /\ attended' = {}
    BY <1>4, SeqKeepImplements DEF CacheSeqKeep, Client
  <2> QED
    BY <2>1 DEF Store!Next, Store!Edit
<1>5. ASSUME NEW s \in SeqIds, Decodes(s) PROVE Entries' = Entries /\ attended' = attended
  BY <1>5, DecodeImplements DEF Decodes
<1> QED
  BY <1>1, <1>2, <1>3, <1>4, <1>5 DEF ClientStep

LEMMA StepImplements ==
  ASSUME Inductive, Inductive', Step
  PROVE  [Store!Next]_<<Entries, attended>>
<1>1. CASE Place
  <2>1. /\ batch \in Batch /\ n_tokens \in 1..MaxBatch /\ batch.pos \in Positions
        /\ batch.seq \in SeqIds /\ batch.tokens \in Seq(Tokens)
    BY <1>1 DEF Inductive, BatchFits, Place, Batch
  <2>2. batch.tokens \in [1..n_tokens -> Tokens]
    BY <2>1, LenProperties DEF n_tokens
  <2>3. Store!Decode(batch.seq, batch.pos, batch.tokens)
    BY <1>1, PlaceImplements
  <2> QED
    BY <2>1, <2>2, <2>3 DEF Store!Next, Positions
<1>2. CASE MoveCell
  BY <1>2, MoveCellImplements
<1>3. CASE KeepCell \/ FindHole \/ SkipGap \/ NoHoleLeft
  <2>1. UNCHANGED <<cells, keys, attended>>
    BY <1>3 DEF KeepCell, FindHole, SkipGap, NoHoleLeft, Defragging
  <2> QED
    BY <2>1, CellsUnchanged
<1>4. CASE StartSearch \/ Wrap \/ Skip
  <2>1. UNCHANGED <<cells, keys, attended>>
    BY <1>4 DEF StartSearch, Wrap, Skip, Searching
  <2> QED
    BY <2>1, CellsUnchanged
<1> QED
  BY <1>1, <1>2, <1>3, <1>4 DEF Step

\* Wherever tokens lie, are moved or wait for their rotation, the cells behave as the store:
\* an edit edits the entries, and a batch attends every entry of its sequence up to its
\* last position and nothing else.
THEOREM StoreImplemented == Spec => Implements
<1>1. ASSUME Init PROVE Store!Init
  <2>1. NonEmpty = {}
    BY <1>1 DEF Init, NonEmpty, FreeCell
  <2> QED
    BY <1>1, <2>1, EntriesAre DEF Store!Init, Init
<1>2. ASSUME Inductive, Inductive', [Next]_vars PROVE [Store!Next]_<<Entries, attended>>
  <2>1. CASE UNCHANGED vars
    BY <2>1, CellsUnchanged DEF vars
  <2> QED
    BY <1>2, <2>1, ClientImplements, StepImplements DEF Next
<1> QED
  BY <1>1, <1>2, Invariance, PTL DEF Spec, Implements, Store!Spec

-----------------------------------------------------------------------------
(* A sequence seen by position                                             *)

\* Cell c has position p of sequence s.
At(c, s, p) == c \in NonEmpty /\ s \in cells[c].seq_id /\ cells[c].pos = p

\* Where positions are distinct, a sequence has at a position what its cell there stores.
LEMMA TokenAt ==
  ASSUME NEW s, NEW p \in Positions, Distinct(s)
  PROVE  /\ \A c : At(c, s, p) => ByPosition(s)[p] = keys[c].tok
         /\ (\A c : ~At(c, s, p)) => ByPosition(s)[p] = Empty
<1> DEFINE there(c) == s \in cells[c].seq_id /\ cells[c].pos = p
           d == CHOOSE c \in NonEmpty : there(c)
<1>1. ByPosition(s)[p] = IF \E c \in NonEmpty : there(c) THEN keys[d].tok ELSE Empty
  BY DEF ByPosition
<1>2. ASSUME NEW c, At(c, s, p) PROVE d = c
  <2>1. c \in NonEmpty /\ there(c)
    BY <1>2 DEF At
  <2>2. d \in NonEmpty /\ there(d)
    BY <2>1
  <2> HIDE DEF d
  <2> QED
    BY <2>1, <2>2 DEF Distinct
<1> HIDE DEF d
<1> QED
  BY <1>1, <1>2 DEF At

LEMMA TokenAtNext ==
  ASSUME NEW s, NEW p \in Positions, Distinct(s)'
  PROVE  /\ \A c : At(c, s, p)' => ByPosition(s)'[p] = keys'[c].tok
         /\ (\A c : ~At(c, s, p)') => ByPosition(s)'[p] = Empty
<1> DEFINE there(c) == s \in cells'[c].seq_id /\ cells'[c].pos = p
           N == NonEmpty'
           d == CHOOSE c \in N : there(c)
<1>1. ByPosition(s)'[p] = IF \E c \in N : there(c) THEN keys'[d].tok ELSE Empty
  BY DEF ByPosition
<1>2. ASSUME NEW c, At(c, s, p)' PROVE d = c
  <2>1. c \in N /\ there(c)
    BY <1>2 DEF At
  <2>2. d \in N /\ there(d)
    BY <2>1
  <2> HIDE DEF d
  <2> QED
    BY <2>1, <2>2 DEF Distinct
<1> HIDE DEF d
<1> QED
  BY <1>1, <1>2 DEF At

\* Positions that agree everywhere are the same.
LEMMA SamePositions ==
  ASSUME NEW s, NEW f, f = [p \in Positions |-> f[p]],
         \A p \in Positions : ByPosition(s)'[p] = f[p]
  PROVE  ByPosition(s)' = f
<1>1. ByPosition(s)' = [p \in Positions |-> ByPosition(s)'[p]]
  BY DEF ByPosition
<1> QED
  BY <1>1, Zenon

LEMMA CellsInUse ==
  ASSUME Inductive
  PROVE  /\ \A c : c \in NonEmpty <=> c \in Cells /\ cells[c].seq_id # {}
         /\ \A c : c \in NonEmpty' <=> c \in Cells /\ cells'[c].seq_id # {}
BY DEF NonEmpty

\* seq_rm empties the range.
LEMMA RmActsAsPositions ==
  ASSUME Inductive, NEW s \in SeqIds, Distinct(s), Distinct(s)',
         NEW p0 \in Positions, NEW p1 \in 1..NCtx, CacheSeqRm(s, p0, p1)
  PROVE  ByPosition(s)' = SeqRm(ByPosition(s), p0, p1)
<1> DEFINE f == SeqRm(ByPosition(s), p0, p1)
           in(p) == p0 <= p /\ p < p1
<1>1. \A c \in NonEmpty : Became(c, cells[c].pos, IF in(cells[c].pos) THEN cells[c].seq_id \ {s}
                                                  ELSE cells[c].seq_id)
  BY SeqRmCells
<1>2. \A c : c \in NonEmpty' => c \in NonEmpty /\ cells'[c].seq_id # {}
  BY SeqRmCells, CellsInUse
<1>3. ASSUME NEW c, NEW p, At(c, s, p)'
      PROVE  ~in(p) /\ At(c, s, p) /\ keys'[c].tok = keys[c].tok
  <2>1. c \in NonEmpty' /\ s \in cells'[c].seq_id /\ cells'[c].pos = p
    BY <1>3 DEF At
  <2>2. c \in NonEmpty /\ cells'[c].seq_id # {}
    BY <1>2, <2>1
  <2>3. /\ cells'[c].pos = cells[c].pos /\ keys'[c].tok = keys[c].tok
        /\ cells'[c].seq_id = IF in(cells[c].pos) THEN cells[c].seq_id \ {s} ELSE cells[c].seq_id
    BY <1>1, <2>2 DEF Became
  <2> QED
    BY <2>1, <2>2, <2>3 DEF At
<1>4. ASSUME NEW c, NEW p, At(c, s, p), ~in(p)
      PROVE  At(c, s, p)' /\ keys'[c].tok = keys[c].tok
  <2>1. c \in NonEmpty /\ s \in cells[c].seq_id /\ cells[c].pos = p /\ c \in Cells
    BY <1>4, CellsInUse DEF At
  <2>2. Became(c, cells[c].pos, cells[c].seq_id) /\ cells[c].pos >= 0
    <3>1. ~in(cells[c].pos)
      BY <1>4, <2>1
    <3> HIDE DEF in
    <3>2. Became(c, cells[c].pos, cells[c].seq_id)
      BY <1>1, <2>1, <3>1
    <3>3. cells[c].pos \in Nat
      BY <2>1, EntryFacts
    <3> QED
      BY <3>2, <3>3
  <2>3. /\ cells'[c].seq_id = cells[c].seq_id /\ cells'[c].pos = p /\ cells'[c].seq_id # {}
        /\ keys'[c].tok = keys[c].tok
    BY <2>1, <2>2 DEF Became
  <2>4. c \in NonEmpty'
    BY <2>1, <2>3, CellsInUse
  <2> QED
    BY <2>1, <2>3, <2>4 DEF At
<1>5. ASSUME NEW p \in Positions PROVE ByPosition(s)'[p] = f[p]
  <2>1. f[p] = IF in(p) THEN Empty ELSE ByPosition(s)[p]
    BY DEF SeqRm
  <2> HIDE DEF f, in
  <2>2. CASE \E c : At(c, s, p)'
    <3>1. PICK c : At(c, s, p)'
      BY <2>2
    <3> QED
      BY <1>3, <2>1, <3>1, TokenAt, TokenAtNext
  <2>3. CASE \A c : ~At(c, s, p)'
    BY <1>4, <2>1, <2>3, TokenAt, TokenAtNext
  <2> QED
    BY <2>2, <2>3
<1>6. f = [p \in Positions |-> f[p]]
  BY DEF SeqRm
<1> HIDE DEF f
<1> QED
  BY <1>5, <1>6, SamePositions DEF f

\* seq_add to the end moves the positions behind p0.
LEMMA AddActsAsPositions ==
  ASSUME Inductive, Inductive', NEW s \in SeqIds, Distinct(s), Distinct(s)',
         NEW p0 \in Positions, NEW delta \in Deltas,
         \A p \in Positions : p0 + delta <= p /\ p < p0 => ByPosition(s)[p] = Empty,
         CacheSeqAdd(s, p0, NCtx, delta)
  PROVE  ByPosition(s)' = SeqAdd(ByPosition(s), p0, delta)
<1> DEFINE f == SeqAdd(ByPosition(s), p0, delta)
<1>1. NCtx \in Nat /\ delta \in Int /\ p0 \in Nat /\ \A p \in Positions : p \in Nat /\ p < NCtx
  BY CacheAssumption DEF Positions
<1>2. \A c \in NonEmpty :
        Became(c, IF Has(c, s, p0, NCtx) THEN cells[c].pos + delta ELSE cells[c].pos,
               cells[c].seq_id)
  BY SeqAddCells
<1>3. \A c : c \in NonEmpty' => c \in NonEmpty /\ cells'[c].seq_id # {}
  BY SeqAddCells, CellsInUse
<1>4. \A c \in NonEmpty : cells[c].pos \in Positions /\ c \in Cells
  <2> SUFFICES ASSUME NEW c \in NonEmpty PROVE cells[c].pos \in Positions /\ c \in Cells
    OBVIOUS
  <2>1. c \in Cells /\ cells[c].pos \in Nat
    BY EntryFacts
  <2>2. cells[c].pos \in Int /\ cells[c].pos < NCtx
    BY <2>1, CellFacts
  <2> QED
    BY <1>1, <2>1, <2>2 DEF Positions
<1>5. ASSUME NEW c, NEW p \in Positions, At(c, s, p)'
      PROVE  /\ keys'[c].tok = keys[c].tok
             /\ \/ At(c, s, p) /\ p < p0
                \/ At(c, s, p - delta) /\ p - delta >= p0 /\ p - delta \in Positions
  <2>1. c \in NonEmpty' /\ s \in cells'[c].seq_id /\ cells'[c].pos = p
    BY <1>5 DEF At
  <2>2. c \in NonEmpty /\ cells'[c].seq_id # {}
    BY <1>3, <2>1
  <2>3. /\ cells'[c].pos = IF Has(c, s, p0, NCtx) THEN cells[c].pos + delta ELSE cells[c].pos
        /\ keys'[c].tok = keys[c].tok /\ cells'[c].seq_id = cells[c].seq_id
    BY <1>2, <2>2 DEF Became
  <2>4. cells[c].pos \in Positions /\ cells[c].pos \in Nat /\ cells[c].pos < NCtx /\ p \in Nat
    BY <1>1, <1>4, <2>2
  <2>5. CASE Has(c, s, p0, NCtx)
    <3>1. p = cells[c].pos + delta /\ p0 <= cells[c].pos
      BY <2>1, <2>3, <2>5 DEF Has
    <3>2. p - delta = cells[c].pos
      BY <1>1, <2>4, <3>1
    <3> QED
      BY <1>1, <2>1, <2>2, <2>3, <2>4, <3>1, <3>2 DEF At
  <2>6. CASE ~Has(c, s, p0, NCtx)
    <3>1. p = cells[c].pos /\ p < p0
      BY <1>1, <2>1, <2>3, <2>4, <2>6 DEF Has
    <3> QED
      BY <2>1, <2>2, <2>3, <3>1 DEF At
  <2> QED
    BY <2>5, <2>6
<1>6. ASSUME NEW c, NEW p \in Positions, NEW n \in Positions, At(c, s, n),
             \/ n < p0 /\ p = n
             \/ n >= p0 /\ p = n + delta
      PROVE  At(c, s, p)' /\ keys'[c].tok = keys[c].tok
  <2>1. c \in NonEmpty /\ s \in cells[c].seq_id /\ cells[c].pos = n /\ c \in Cells
    BY <1>6, CellsInUse DEF At
  <2>2. Has(c, s, p0, NCtx) <=> n >= p0
    BY <1>1, <2>1 DEF Has
  <2>3. Became(c, p, cells[c].seq_id) /\ p >= 0 /\ cells[c].seq_id # {}
    <3>1. p = IF Has(c, s, p0, NCtx) THEN cells[c].pos + delta ELSE cells[c].pos
      BY <1>1, <1>6, <2>1, <2>2
    <3> QED
      BY <1>1, <1>2, <2>1, <3>1
  <2>4. /\ cells'[c].seq_id = cells[c].seq_id /\ cells'[c].pos = p /\ cells'[c].seq_id # {}
        /\ keys'[c].tok = keys[c].tok
    BY <2>3 DEF Became
  <2>5. c \in NonEmpty'
    BY <2>1, <2>4, CellsInUse
  <2> QED
    BY <2>1, <2>4, <2>5 DEF At
<1>7. ASSUME NEW p \in Positions PROVE ByPosition(s)'[p] = f[p]
  <2>0. p \in Nat
    BY <1>1
  <2>1. CASE p - delta >= p0 /\ p - delta \in Positions
    <3> DEFINE n == p - delta
    <3>1. f[p] = ByPosition(s)[n] /\ n \in Positions /\ n >= p0 /\ p = n + delta
      BY <1>1, <2>0, <2>1 DEF SeqAdd
    <3> HIDE DEF f, n
    <3>2. CASE \E c : At(c, s, n)
      <4>1. PICK c : At(c, s, n)
        BY <3>2
      <4>2. At(c, s, p)' /\ keys'[c].tok = keys[c].tok
        BY <1>6, <3>1, <4>1
      <4> QED
        BY <3>1, <4>1, <4>2, TokenAt, TokenAtNext
    <3>3. CASE \A c : ~At(c, s, n)
      <4>1. ByPosition(s)[n] = Empty
        BY <3>1, <3>3, TokenAt
      <4>2. CASE \E c : At(c, s, p)'
        <5>1. PICK c : At(c, s, p)'
          BY <4>2
        <5>2. keys'[c].tok = keys[c].tok /\ At(c, s, p) /\ p < p0
          BY <1>5, <3>3, <5>1 DEF n
        <5>3. p0 + delta <= p
          BY <1>1, <2>0, <2>1
        <5>4. ByPosition(s)[p] = Empty /\ ByPosition(s)[p] = keys[c].tok
          BY <5>2, <5>3, TokenAt
        <5> QED
          BY <3>1, <4>1, <5>1, <5>2, <5>4, TokenAtNext
      <4>3. CASE \A c : ~At(c, s, p)'
        BY <3>1, <4>1, <4>3, TokenAtNext
      <4> QED
        BY <4>2, <4>3
    <3> QED
      BY <3>2, <3>3
  <2>2. CASE ~(p - delta >= p0 /\ p - delta \in Positions)
    <3>1. CASE \E c : At(c, s, p)'
      <4>1. PICK c : At(c, s, p)'
        BY <3>1
      <4>2. keys'[c].tok = keys[c].tok /\ At(c, s, p) /\ p < p0
        BY <1>5, <2>2, <4>1
      <4>3. ByPosition(s)[p] = keys[c].tok /\ ByPosition(s)'[p] = keys'[c].tok
        BY <4>1, <4>2, TokenAt, TokenAtNext
      <4>4. CASE p - delta >= p0
        <5>1. f[p] = Empty
          BY <2>2, <4>4 DEF SeqAdd
        <5>2. p0 + delta <= p
          BY <1>1, <2>0, <4>4
        <5>3. ByPosition(s)[p] = Empty
          BY <4>2, <5>2
        <5> QED
          BY <4>2, <4>3, <5>1, <5>3
      <4>5. CASE ~(p - delta >= p0)
        <5>1. f[p] = ByPosition(s)[p]
          BY <4>2, <4>5 DEF SeqAdd
        <5> QED
          BY <4>2, <4>3, <5>1
      <4> QED
        BY <4>4, <4>5
    <3>2. CASE \A c : ~At(c, s, p)'
      <4>1. ByPosition(s)'[p] = Empty
        BY <3>2, TokenAtNext
      <4>2. p < p0 => ByPosition(s)[p] = Empty
        BY <1>6, <3>2, TokenAt
      <4>3. f[p] = Empty
        BY <2>2, <4>2 DEF SeqAdd
      <4> QED
        BY <4>1, <4>3
    <3> QED
      BY <3>1, <3>2
  <2> QED
    BY <2>1, <2>2
<1>8. f = [p \in Positions |-> f[p]]
  BY DEF SeqAdd
<1> HIDE DEF f
<1> QED
  BY <1>7, <1>8, SamePositions DEF f

\* A batch is stored behind its position.
LEMMA PlaceActsAsPositions ==
  ASSUME Inductive, Place, NEW s \in SeqIds, s = batch.seq, Distinct(s), Distinct(s)'
  PROVE  ByPosition(s)' = Stored(ByPosition(s), batch.pos, batch.tokens)
<1> DEFINE R == Run(head, n_tokens)
           f == Stored(ByPosition(s), batch.pos, batch.tokens)
<1>1. /\ Size \in Nat /\ head \in Nat /\ n_tokens \in Nat /\ batch.pos \in Nat
      /\ Len(batch.tokens) = n_tokens
  <2>1. /\ Size \in Nat \ {0} /\ head \in 0..Size /\ n_tokens \in 1..Size /\ batch.pos \in Nat
    BY SearchFacts DEF Place
  <2>2. Len(batch.tokens) = n_tokens
    BY DEF n_tokens
  <2> QED
    BY <2>1, <2>2
<1>2. /\ R \in SUBSET Cells /\ R \cap NonEmpty = {} /\ NonEmpty' = NonEmpty \cup R
      /\ \A c \in R :
           /\ c - head \in 0..(n_tokens - 1)
           /\ cells'[c].pos = batch.pos + (c - head) /\ cells'[c].seq_id = {batch.seq}
           /\ keys'[c].tok = batch.tokens[(c - head) + 1]
      /\ \A c \in Cells \ R : cells'[c] = cells[c] /\ keys'[c] = keys[c]
  BY Placed
<1>3. R = head..(head + n_tokens - 1)
  BY DEF Run
<1> HIDE DEF R
<1>4. ASSUME NEW c \in NonEmpty
      PROVE  \A p : (At(c, s, p)' <=> At(c, s, p)) /\ keys'[c] = keys[c]
  <2>1. c \in Cells \ R
    BY <1>2, CellsInUse
  <2> QED
    BY <1>2, <2>1 DEF At
<1>5. \A c, p : At(c, s, p) => c \in NonEmpty
  BY DEF At
<1>6. ASSUME NEW p \in Positions, batch.pos <= p, p < batch.pos + n_tokens
      PROVE  ByPosition(s)'[p] = batch.tokens[p - batch.pos + 1]
  <2>1. p \in Nat
    BY CacheAssumption DEF Positions
  <2>2. PICK c \in Int : c = head + (p - batch.pos)
    BY <1>1, <2>1
  <2>3. c \in R /\ c - head = p - batch.pos /\ batch.pos + (c - head) = p
    BY <1>1, <1>3, <1>6, <2>1, <2>2
  <2>4. At(c, s, p)'
    BY <1>2, <2>3 DEF At
  <2> QED
    BY <1>2, <2>3, <2>4, TokenAtNext
<1>7. ASSUME NEW p \in Positions, ~(batch.pos <= p /\ p < batch.pos + n_tokens)
      PROVE  ByPosition(s)'[p] = ByPosition(s)[p]
  <2>1. p \in Nat
    BY CacheAssumption DEF Positions
  <2>2. \A c : At(c, s, p)' => c \in NonEmpty
    <3> SUFFICES ASSUME NEW c, At(c, s, p)', c \in R PROVE FALSE
      BY <1>2 DEF At
    <3>1. cells'[c].pos = p /\ cells'[c].pos = batch.pos + (c - head)
      BY <1>2 DEF At
    <3>2. c - head \in 0..(n_tokens - 1)
      BY <1>2
    <3> QED
      BY <1>1, <1>7, <2>1, <3>1, <3>2
  <2> QED
    BY <1>4, <1>5, <2>2, TokenAt, TokenAtNext
<1>8. \A p \in Positions : ByPosition(s)'[p] = f[p]
  BY <1>1, <1>6, <1>7 DEF Stored
<1>9. f = [p \in Positions |-> f[p]]
  BY DEF Stored
<1> HIDE DEF f
<1> QED
  BY <1>8, <1>9, SamePositions DEF f

\* Seen by position a sequence is what ContextReuse takes it for: erasing, shifting and
\* evaluating are the functions SeqRm, SeqAdd and Stored of KvPositions, as long as the
\* positions of its cells are distinct and cells move only to where none is.
THEOREM PositionsActed == Spec => ActsAsPositions
<1> DEFINE A ==
      \A s \in SeqIds : (CellsEdited(s) \/ Place) /\ Distinct(s) /\ Distinct(s)' =>
       /\ CellsEdited(s) => \A p0 \in Positions, p1 \in 1..NCtx : p0 < p1 /\ CacheSeqRm(s, p0, p1) =>
            ByPosition(s)' = SeqRm(ByPosition(s), p0, p1)
       /\ CellsEdited(s) => \A p0 \in Positions, delta \in Deltas :
            (\A p \in Positions : p0 + delta <= p /\ p < p0 => ByPosition(s)[p] = Empty)
              /\ CacheSeqAdd(s, p0, NCtx, delta) =>
              ByPosition(s)' = SeqAdd(ByPosition(s), p0, delta)
       /\ Place /\ s = batch.seq =>
            ByPosition(s)' = Stored(ByPosition(s), batch.pos, batch.tokens)
<1>1. ASSUME Inductive, Inductive' PROVE A
  <2> SUFFICES ASSUME NEW s \in SeqIds, Distinct(s), Distinct(s)'
               PROVE  /\ \A p0 \in Positions, p1 \in 1..NCtx : p0 < p1 /\ CacheSeqRm(s, p0, p1) =>
                           ByPosition(s)' = SeqRm(ByPosition(s), p0, p1)
                      /\ \A p0 \in Positions, delta \in Deltas :
                           (\A p \in Positions :
                              p0 + delta <= p /\ p < p0 => ByPosition(s)[p] = Empty)
                             /\ CacheSeqAdd(s, p0, NCtx, delta) =>
                           ByPosition(s)' = SeqAdd(ByPosition(s), p0, delta)
                      /\ Place /\ s = batch.seq =>
                           ByPosition(s)' = Stored(ByPosition(s), batch.pos, batch.tokens)
    OBVIOUS
  <2>1. ASSUME NEW p0 \in Positions, NEW p1 \in 1..NCtx, CacheSeqRm(s, p0, p1)
        PROVE  ByPosition(s)' = SeqRm(ByPosition(s), p0, p1)
    BY <1>1, <2>1, RmActsAsPositions
  <2>2. ASSUME NEW p0 \in Positions, NEW delta \in Deltas,
               \A p \in Positions : p0 + delta <= p /\ p < p0 => ByPosition(s)[p] = Empty,
               CacheSeqAdd(s, p0, NCtx, delta)
        PROVE  ByPosition(s)' = SeqAdd(ByPosition(s), p0, delta)
    BY <1>1, <2>2, AddActsAsPositions
  <2>3. ASSUME Place, s = batch.seq
        PROVE  ByPosition(s)' = Stored(ByPosition(s), batch.pos, batch.tokens)
    BY <1>1, <2>3, PlaceActsAsPositions
  <2> QED
    BY <2>1, <2>2, <2>3
<1>2. Inductive /\ Inductive' => [A]_vars
  BY <1>1
<1> QED
  BY <1>2, Invariance, PTL DEF ActsAsPositions
=============================================================================
