------------------------------ MODULE KvCache ------------------------------
(***************************************************************************)
(* The KV cache of llama.cpp for a Transformer: Size cells, each with the  *)
(* position and the sequences of the token whose keys it stores.           *)
(*                                                                         *)
(* A client edits the cells between evaluations, llama_kv_cache_seq_rm and *)
(* the like.  Decoding then rotates the keys of shifted cells, compacts    *)
(* the cells when that was asked for, looks for a contiguous run of free   *)
(* cells for the batch and attends the cells below n.  Its loops are steps *)
(* of pc.                                                                  *)
(***************************************************************************)
EXTENDS KvPositions, FiniteSets

CONSTANTS
  Size,        \* cells (kv_size)
  Pad,         \* n is a multiple of it (llama_kv_cache_get_padding)
  MaxMoves,    \* blocks of cells one defragmentation may move
  Tokens,
  SeqIds,
  MaxBatch,    \* tokens in a batch
  Deltas,      \* what a client adds to positions
  Divisors     \* what it divides them by

ASSUME CacheAssumption ==
  /\ {NCtx, Size, Pad, MaxMoves, MaxBatch} \subseteq Nat \ {0} /\ MaxBatch <= Size
  /\ Deltas \subseteq Int /\ Divisors \subseteq Nat \ {0, 1}
  /\ Empty \notin Tokens

VARIABLES
  cells, head, used, has_shift, do_defrag,  \* struct llama_kv_cache
  keys,      \* the cells' rows of k_l and v_l: a token and the position its
             \* key is rotated for
  pc, batch, \* llama_decode, and its batch
  n_tested,               \* llama_kv_cache_find_slot
  i0, nh, nf, i1, cont, n_moves,  \* llama_kv_cache_defrag_internal
  attended   \* what the latest batch attended, until the next edit (history)

defragVars == <<i0, nh, nf, i1, cont, n_moves>>
loopVars == <<n_tested, defragVars>>
vars == <<cells, keys, head, used, has_shift, do_defrag, pc, batch, loopVars, attended>>

Cells == 0..(Size - 1)
FreeCell == [pos |-> -1, delta |-> 0, seq_id |-> {}]
NoKey == [tok |-> Empty, rot |-> 0]
NoBatch == [seq |-> Empty, pos |-> 0, tokens |-> <<>>]

\* The loop variables are not in use.
LoopsAtRest ==
  n_tested = 0 /\ i0 = 0 /\ nh = 0 /\ nf = 0 /\ i1 = 0 /\ cont = FALSE /\ n_moves = 0

NonEmpty == {c \in Cells : cells[c].seq_id # {}}

\* The cells that f changes to hold nothing: their number, the least of them, and
\* the rows of keys that stay of interest.
Freed(f) == {c \in NonEmpty : f[c].seq_id = {}}
Least(S) == CHOOSE c \in S : \A d \in S : c <= d
KeysOf(f) == [c \in Cells |-> IF f[c].seq_id = {} THEN NoKey ELSE keys[c]]

\* Mutant: a cell that has moved before position 0 stays.
ClearedIfUnused(cell) == IF cell.seq_id = {} THEN [cell EXCEPT !.pos = -1] ELSE cell

\* A cell that lost its last sequence, or has moved before position 0.
Cleared(cell) ==
  IF cell.seq_id = {} \/ cell.pos < 0 THEN [cell EXCEPT !.pos = -1, !.seq_id = {}] ELSE cell

\* Mutant: the range starts behind p0.
HasBehind(c, s, p0, p1) ==
  s \in cells[c].seq_id /\ p0 < cells[c].pos /\ cells[c].pos < p1

Has(c, s, p0, p1) ==
  s \in cells[c].seq_id /\ p0 <= cells[c].pos /\ cells[c].pos < p1

-----------------------------------------------------------------------------
Init ==
  /\ cells = [c \in Cells |-> FreeCell]
  /\ keys = [c \in Cells |-> NoKey]
  /\ head = 0 /\ used = 0 /\ has_shift = FALSE /\ do_defrag = FALSE
  /\ pc = "idle" /\ batch = NoBatch /\ LoopsAtRest
  /\ attended = {}

-----------------------------------------------------------------------------
(* What a client may do between evaluations                                *)

Client ==
  /\ pc = "idle" /\ attended' = {}
  /\ UNCHANGED <<pc, batch, loopVars>>

\* The cells become f; used counts what is left, and the next search starts at the
\* first cell freed if that is before head.
Edit(f) ==
  LET freed == Freed(f)
  IN  /\ cells' = f /\ keys' = KeysOf(f)
      /\ used' = used - Cardinality(freed)
      /\ head' = IF freed # {} /\ Least(freed) < head THEN Least(freed) ELSE head

CacheClear ==
  /\ Client
  /\ cells' = [c \in Cells |-> [cells[c] EXCEPT !.pos = -1, !.seq_id = {}]]
  /\ keys' = [c \in Cells |-> NoKey]
  /\ head' = 0 /\ used' = 0
  /\ UNCHANGED <<has_shift, do_defrag>>

CacheSeqRm(s, p0, p1) ==
  /\ Client
  /\ Edit([c \in Cells |-> IF Has(c, s, p0, p1)
                           THEN Cleared([cells[c] EXCEPT !.seq_id = @ \ {s}])
                           ELSE cells[c]])
  /\ UNCHANGED <<has_shift, do_defrag>>

CacheAllRm(p0, p1) ==  \* the same for seq_id < 0: every sequence
  /\ Client
  /\ Edit([c \in Cells |-> IF p0 <= cells[c].pos /\ cells[c].pos < p1
                           THEN Cleared([cells[c] EXCEPT !.seq_id = {}])
                           ELSE cells[c]])
  /\ UNCHANGED <<has_shift, do_defrag>>

CacheSeqCp(src, dst, p0, p1) ==
  /\ Client
  /\ cells' = [c \in Cells |-> IF Has(c, src, p0, p1)
                               THEN [cells[c] EXCEPT !.seq_id = @ \union {dst}]
                               ELSE cells[c]]
  /\ head' = 0
  /\ UNCHANGED <<keys, used, has_shift, do_defrag>>

CacheSeqKeep(s) ==
  LET freed == {c \in Cells : s \notin cells[c].seq_id}
  IN  /\ Client
      /\ cells' = [c \in Cells |-> IF c \in freed
                                   THEN [cells[c] EXCEPT !.pos = -1, !.seq_id = {}]
                                   ELSE [cells[c] EXCEPT !.seq_id = {s}]]
      /\ keys' = KeysOf(cells')
      /\ used' = used - Cardinality({c \in freed : cells[c].pos >= 0})
      /\ head' = IF freed # {} /\ Least(freed) < head THEN Least(freed) ELSE head
      /\ UNCHANGED <<has_shift, do_defrag>>

\* The cells as seq_add leaves them; a freed cell keeps its delta.
Shifted(s, p0, p1, delta) ==
  [c \in Cells |-> IF Has(c, s, p0, p1)
                   THEN Cleared([cells[c] EXCEPT !.pos = @ + delta, !.delta = @ + delta])
                   ELSE cells[c]]

\* Mutant: used counts the freed cells on.
SeqAddKeepsUsed(s, p0, p1, delta) ==
  LET f == Shifted(s, p0, p1, delta)
  IN  /\ Client
      /\ cells' = f /\ keys' = KeysOf(f)
      /\ has_shift' = (has_shift \/ \E c \in Cells : Has(c, s, p0, p1))
      /\ head' = IF Freed(f) # {} THEN Least(Freed(f)) ELSE 0
      /\ UNCHANGED <<used, do_defrag>>

CacheSeqAdd(s, p0, p1, delta) ==
  LET f == Shifted(s, p0, p1, delta)
  IN  /\ Client /\ p0 # p1
      /\ cells' = f /\ keys' = KeysOf(f)
      /\ has_shift' = (has_shift \/ \E c \in Cells : Has(c, s, p0, p1))
      /\ used' = used - Cardinality(Freed(f))
      /\ head' = IF Freed(f) # {} THEN Least(Freed(f)) ELSE 0
      /\ UNCHANGED do_defrag

CacheSeqDiv(s, p0, p1, d) ==
  /\ Client /\ p0 # p1
  /\ cells' = [c \in Cells |-> IF Has(c, s, p0, p1)
                               THEN [cells[c] EXCEPT !.pos = @ \div d,
                                       !.delta = @ + (cells[c].pos \div d) - cells[c].pos]
                               ELSE cells[c]]
  /\ has_shift' = (has_shift \/ \E c \in Cells : Has(c, s, p0, p1))
  /\ UNCHANGED <<keys, head, used, do_defrag>>

CacheDefrag ==
  /\ Client
  /\ do_defrag' = TRUE
  /\ UNCHANGED <<cells, keys, head, used, has_shift>>

-----------------------------------------------------------------------------
(* llama_decode                                                            *)

n_tokens == Len(batch.tokens)

\* Mutant: the shift stays pending after the keys have been rotated.
ShiftTwice(s, p, tokens) ==
  /\ pc = "idle"
  /\ batch' = [seq |-> s, pos |-> p, tokens |-> tokens]
  /\ keys' = [c \in Cells |-> IF has_shift /\ c \in NonEmpty
                              THEN [keys[c] EXCEPT !.rot = @ + cells[c].delta]
                              ELSE keys[c]]
  /\ has_shift' = FALSE
  /\ pc' = IF do_defrag THEN "defrag" ELSE "slot"
  /\ UNCHANGED <<cells, head, used, do_defrag, loopVars, attended>>

\* llama_decode of one batch: keys are rotated by their cell's delta first.
Decode(s, p, tokens) ==
  /\ pc = "idle"
  /\ batch' = [seq |-> s, pos |-> p, tokens |-> tokens]
  /\ keys' = [c \in Cells |-> IF has_shift /\ c \in NonEmpty
                              THEN [keys[c] EXCEPT !.rot = @ + cells[c].delta]
                              ELSE keys[c]]
  /\ cells' = [c \in Cells |-> IF has_shift THEN [cells[c] EXCEPT !.delta = 0]
                               ELSE cells[c]]
  /\ has_shift' = FALSE
  /\ pc' = IF do_defrag THEN "defrag" ELSE "slot"
  /\ UNCHANGED <<head, used, do_defrag, loopVars, attended>>

Defragging == UNCHANGED <<used, has_shift, batch, n_tested, attended>>

EndDefrag == pc' = "slot" /\ do_defrag' = FALSE

\* A cell below used is kept.
KeepCell ==
  /\ pc = "defrag" /\ i0 < used /\ i0 \in NonEmpty
  /\ i0' = i0 + 1
  /\ Defragging
  /\ UNCHANGED <<cells, keys, head, do_defrag, pc, nh, nf, i1, cont, n_moves>>

\* The cells with which a hole of size k behind i0 is filled: the last k.
Fillers(k) == {c \in NonEmpty : c > i0 /\ Cardinality({d \in NonEmpty : d >= c}) <= k}

HoleSize ==
  Least({k \in 1..Size : i0 + k >= used \/ (i0 + k) \in NonEmpty})

\* There is a hole below used: the cells that fill it start at i1.  The code
\* asserts that there are enough of them, and goes on from there.
FindHole ==
  /\ pc = "defrag" /\ i0 < used /\ i0 \notin NonEmpty
  /\ Cardinality(Fillers(HoleSize)) = HoleSize
  /\ nh' = HoleSize
  /\ i1' = Least(Fillers(HoleSize))
  /\ nf' = 0 /\ cont' = FALSE
  /\ pc' = "move"
  /\ Defragging
  /\ UNCHANGED <<cells, keys, head, do_defrag, i0, n_moves>>

\* A gap between the cells to move: the next one starts another block.
SkipGap ==
  /\ pc = "move" /\ i1 \notin NonEmpty
  /\ IF n_moves = MaxMoves
     THEN EndDefrag /\ UNCHANGED <<cont, i1>>
     ELSE cont' = FALSE /\ i1' = i1 + 1 /\ UNCHANGED <<pc, do_defrag>>
  /\ Defragging
  /\ UNCHANGED <<cells, keys, head, i0, nh, nf, n_moves>>

Move ==
  /\ cells' = [cells EXCEPT ![i0 + nf] = cells[i1], ![i1] = FreeCell]
  /\ keys' = [keys EXCEPT ![i0 + nf] = keys[i1], ![i1] = NoKey]

MoveCell ==
  /\ pc = "move" /\ i1 \in NonEmpty
  /\ Move
  /\ head' = used
  /\ n_moves' = IF cont THEN n_moves ELSE n_moves + 1
  /\ cont' = TRUE
  /\ nf' = nf + 1
  /\ IF nf' < nh THEN i1' = i1 + 1 /\ UNCHANGED <<pc, i0, do_defrag>>
     ELSE /\ i0' = i0 + nh
          /\ IF n_moves' = MaxMoves THEN EndDefrag ELSE pc' = "defrag" /\ UNCHANGED do_defrag
          /\ UNCHANGED i1
  /\ Defragging
  /\ UNCHANGED nh

NoHoleLeft ==
  /\ pc = "defrag" /\ i0 >= used
  /\ EndDefrag
  /\ Defragging
  /\ UNCHANGED <<cells, keys, head, defragVars>>

Searching == UNCHANGED <<cells, keys, used, has_shift, do_defrag, defragVars, attended>>

\* llama_decode returns, and its local variables are gone.
Return ==
  /\ pc' = "idle" /\ batch' = NoBatch
  /\ n_tested' = 0 /\ i0' = 0 /\ nh' = 0 /\ nf' = 0 /\ i1' = 0 /\ cont' = FALSE /\ n_moves' = 0

\* The search begins at the start of the cache when enough cells should be free there.
StartSearch ==
  /\ pc = "slot"
  /\ head' = IF head > used + 2 * n_tokens THEN 0 ELSE head
  /\ n_tested' = 0
  /\ pc' = "search"
  /\ Searching /\ UNCHANGED batch

\* Mutant: the cells at the end count as tested after the head has been reset.
WrapMiscounted ==
  /\ pc = "search" /\ head + n_tokens > Size
  /\ head' = 0
  /\ n_tested' = n_tested + Size
  /\ Searching /\ UNCHANGED <<pc, batch>>

Wrap ==
  /\ pc = "search" /\ head + n_tokens > Size
  /\ head' = 0
  /\ n_tested' = n_tested + Size - head
  /\ Searching /\ UNCHANGED <<pc, batch>>

Run(c, k) == c..(c + k - 1)

Taken == {c \in Run(head, n_tokens) : cells[c].pos >= 0}

\* Mutant: the taken cell does not count.
TestedBeforeTaken == n_tested + Least(Taken) - head

Tested == n_tested + Least(Taken) + 1 - head

\* The run at head is not free: the search goes on behind its first taken cell,
\* or is given up.
Skip ==
  /\ pc = "search" /\ head + n_tokens <= Size
  /\ Taken # {}
  /\ head' = Least(Taken) + 1
  /\ \/ Tested < Size /\ n_tested' = Tested /\ UNCHANGED <<pc, batch, defragVars>>
     \/ Tested >= Size /\ Return
  /\ UNCHANGED <<cells, keys, used, has_shift, do_defrag, attended>>

Padded(k) == ((k + Pad - 1) \div Pad) * Pad
Smaller(a, b) == IF a < b THEN a ELSE b
Larger(a, b) == IF a > b THEN a ELSE b

\* llama_kv_cache_cell_max, for cells f of which one at least is taken
CellMax(f) ==
  CHOOSE k \in 1..Size : /\ f[k - 1].pos >= 0 /\ f[k - 1].seq_id # {}
                         /\ \A c \in k..(Size - 1) : f[c].pos < 0 \/ f[c].seq_id = {}

\* Mutant: the batch's own cells may lie behind the attended ones.
AttendUsed(f) == Smaller(Size, Larger(Pad, Padded(used)))

AttendedSize(f) == Smaller(Size, Larger(Pad, Padded(CellMax(f))))

\* The batch goes to the free cells at head; it attends every cell below n whose
\* sequence and position match, and head moves behind it.
Place ==
  /\ pc = "search" /\ head + n_tokens <= Size
  /\ Taken = {}
  /\ cells' = [c \in Cells |->
       IF c \in Run(head, n_tokens)
       THEN [cells[c] EXCEPT !.pos = batch.pos + c - head, !.seq_id = @ \union {batch.seq}]
       ELSE cells[c]]
  /\ keys' = [c \in Cells |->
       IF c \in Run(head, n_tokens)
       THEN [tok |-> batch.tokens[c - head + 1], rot |-> batch.pos + c - head]
       ELSE keys[c]]
  /\ used' = used + n_tokens
  /\ attended' = {<<keys'[c].rot, keys'[c].tok>> : c \in {d \in Cells :
       d < AttendedSize(cells') /\ batch.seq \in cells'[d].seq_id /\ cells'[d].pos < batch.pos + n_tokens}}
  /\ head' = IF head + n_tokens >= Size THEN 0 ELSE head + n_tokens
  /\ Return
  /\ UNCHANGED <<has_shift, do_defrag>>

Step ==
  \/ KeepCell \/ FindHole \/ SkipGap \/ MoveCell \/ NoHoleLeft
  \/ StartSearch \/ Wrap \/ Skip \/ Place

\* The inputs: ranges that the positions can tell apart (a negative p1 stands for
\* NCtx), no position moved to NCtx or behind, and batches that come behind what
\* their sequence has and stay below NCtx.
Edits(s) ==
  \E p0 \in Positions, p1 \in 1..NCtx :
    /\ p0 < p1
    /\ \/ CacheSeqRm(s, p0, p1) \/ CacheAllRm(p0, p1)
       \/ \E dst \in SeqIds \ {s} : CacheSeqCp(s, dst, p0, p1)
       \/ \E delta \in Deltas :
            /\ \A c \in Cells : Has(c, s, p0, p1) => cells[c].pos + delta < NCtx
            /\ CacheSeqAdd(s, p0, p1, delta)
       \/ \E d \in Divisors : CacheSeqDiv(s, p0, p1, d)

Decodes(s) ==
  \E p \in Positions, k \in 1..MaxBatch :
    /\ p + k <= NCtx /\ \A c \in Cells : ~Has(c, s, p, NCtx)
    /\ \E tokens \in [1..k -> Tokens] : Decode(s, p, tokens)

ClientStep ==
  \/ CacheClear \/ CacheDefrag
  \/ \E s \in SeqIds : Edits(s) \/ CacheSeqKeep(s) \/ Decodes(s)

Next == ClientStep \/ Step

Spec == Init /\ [][Next]_vars
FairSpec == Spec /\ WF_vars(Step)

-----------------------------------------------------------------------------
(* Properties                                                              *)

Cell == [pos : Positions \union {-1}, delta : Int, seq_id : SUBSET SeqIds]
Key == [tok : Tokens \union {Empty}, rot : Int]

\* The cache, its key rows and the loop variables of llama_decode have their types;
\* head may stand behind the last cell, where a search was given up.
TypeOK ==
  /\ cells \in [Cells -> Cell] /\ keys \in [Cells -> Key]
  /\ head \in 0..Size /\ used \in 0..Size
  /\ has_shift \in BOOLEAN /\ do_defrag \in BOOLEAN /\ cont \in BOOLEAN
  /\ pc \in {"idle", "defrag", "move", "slot", "search"}
  /\ \/ pc = "idle" /\ batch = NoBatch
     \/ pc # "idle" /\ batch \in [seq : SeqIds, pos : Positions, tokens : Seq(Tokens)]
  /\ n_tested \in Nat /\ i0 \in 0..Size /\ nh \in 0..Size /\ nf \in 0..Size
  /\ i1 \in 0..Size /\ n_moves \in 0..MaxMoves
  /\ attended \subseteq Int \X (Tokens \union {Empty})

\* used counts the cells in use.  Every operation keeps its own account of what it
\* frees, the head heuristic and the defragmentation rely on the sum
\* ("this can only happen if n_used is not accurate, which would be a bug").
UsedIsExact == used = Cardinality(NonEmpty)

\* A cell has a position exactly when it has a sequence, its key is rotated for that
\* position but for its delta, and a delta is never forgotten: has_shift announces
\* it, and no batch is placed while any cell, a freed one included, has one left.
CellsConsistent ==
  /\ \A c \in Cells : (cells[c].pos >= 0) <=> (c \in NonEmpty)
  /\ \A c \in NonEmpty : keys[c].rot + cells[c].delta = cells[c].pos
  /\ \A c \in Cells : cells[c].delta # 0 => has_shift /\ pc = "idle"

\* A hole that defragmentation finds can be filled, and only from cells at used or
\* behind: GGML_ASSERT(nf == nh && "KV defrag bug: nf != nh").
HolesCanBeFilled ==
  /\ pc = "defrag" /\ i0 < used /\ i0 \notin NonEmpty =>
       /\ Cardinality(Fillers(HoleSize)) = HoleSize
       /\ \A c \in Fillers(HoleSize) : c >= used
  /\ pc = "move" => i1 >= used /\ i0 + nh <= used /\ i0 + nf \notin NonEmpty

\* The search for a slot is given up only when no run of free cells is as long as
\* the batch, wherever it started.
GivesUp == pc = "search" /\ pc' = "idle" /\ used' = used
FreeRun(k) == \E h \in 0..(Size - k) : \A c \in Run(h, k) : cells[c].pos < 0
SlotIsFound == [][GivesUp => ~FreeRun(n_tokens)]_vars

\* The cells implement the store: wherever tokens lie, are moved or wait for their
\* rotation, a batch attends what the client has stored for its sequence.
Entries ==
  {[pos |-> cells[c].pos, tok |-> keys[c].tok, seqs |-> cells[c].seq_id] : c \in NonEmpty}
Store == INSTANCE KvStore WITH entries <- Entries
Implements == Store!Spec

Distinct(s) ==
  \A c, d \in NonEmpty : s \in cells[c].seq_id \intersect cells[d].seq_id
                          /\ cells[c].pos = cells[d].pos => c = d
ByPosition(s) ==
  [p \in Positions |->
     IF \E c \in NonEmpty : s \in cells[c].seq_id /\ cells[c].pos = p
     THEN keys[CHOOSE c \in NonEmpty : s \in cells[c].seq_id /\ cells[c].pos = p].tok
     ELSE Empty]
\* A client's step that changes cells, s having some.
CellsEdited(s) ==
  /\ pc = "idle" /\ pc' = "idle" /\ cells' # cells
  /\ \E c \in NonEmpty : s \in cells[c].seq_id
\* Seen by position, sequence s behaves as ContextReuse assumes of sequence 0:
\* erasing, shifting and evaluating are SeqRm, SeqAdd and Stored, as long as its
\* positions are distinct and cells move only to where none is.
ActsAsPositions ==
  [][\A s \in SeqIds : (CellsEdited(s) \/ Place) /\ Distinct(s) /\ Distinct(s)' =>
       /\ CellsEdited(s) => \A p0 \in Positions, p1 \in 1..NCtx : p0 < p1 /\ CacheSeqRm(s, p0, p1) =>
            ByPosition(s)' = SeqRm(ByPosition(s), p0, p1)
       /\ CellsEdited(s) => \A p0 \in Positions, delta \in Deltas :
            (\A p \in Positions : p0 + delta <= p /\ p < p0 => ByPosition(s)[p] = Empty)
              /\ CacheSeqAdd(s, p0, NCtx, delta) =>
              ByPosition(s)' = SeqAdd(ByPosition(s), p0, delta)
       /\ Place /\ s = batch.seq =>
            ByPosition(s)' = Stored(ByPosition(s), batch.pos, batch.tokens)]_vars

\* llama_decode returns: neither the compaction nor the search runs forever.
DecodeReturns == pc # "idle" ~> pc = "idle"

=============================================================================
