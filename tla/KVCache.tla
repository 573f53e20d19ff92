------------------------------- MODULE KVCache -------------------------------
(***************************************************************************)
(* The KV cache of a context of the root engine (llama.cpp): a ring of     *)
(* cells with their positions and sequences, the shifts that seq_shift     *)
(* leaves for the next decode, and the keys and values of the cells.       *)
(* llama_decode searches a run of free cells, fills in their metadata,     *)
(* then builds and computes a graph that rotates the keys of all cells by  *)
(* their pending shifts, stores the keys and values of the batch, and lets *)
(* every row attend the cells its mask admits.  One thread calls; between  *)
(* two calls of llama_decode the caller edits sequences, or saves the      *)
(* state for a process that starts later and loads it, whatever is pending *)
(* or in use behind the head.                                              *)
(*                                                                         *)
(* A key is its token and the position it is rotated to; layers, heads and *)
(* values are alike for every cell and left out.  The keys are rotated     *)
(* (RoPE), and the builder of the architecture expands llm_build_k_shift:  *)
(* build_llama, _baichuan, _falcon, _persimmon and _stablelm.  Whether it  *)
(* puts the copies of llm_build_kv_store into the graph is a constant.     *)
(***************************************************************************)
EXTENDS Integers, Sequences, FiniteSets

CONSTANTS
    Size,          \* cache.size, n_ctx
    MinKv,         \* the 32 in llama_decode: attend at least so many cells
    SeqIds,        \* the sequences
    AnySeq,        \* seq_id < 0: match any sequence
    Tokens,        \* the tokens of the vocabulary
    NoToken,       \* what a cell's key and value are before the first store
    Free,          \* a slot of KVStore without a token
    Batches,       \* the batches the caller decodes
    Spans,         \* the pairs <<p0, p1>> the caller names
    Deltas,        \* the distances it shifts by
    MaxPos,        \* bound: the largest position
    MaxRot,        \* bound: how far a shift may rotate a key, either way
    TiesCopies     \* does the builder tie the copies of llm_build_kv_store to
                   \* k_cpy and v_cpy?  LLaMA, OPT and Falcon do

\* A row of a batch: batch.token, pos, seq_id as a set, and seq_id[0].
Rows == {r \in [token : Tokens, pos : 0..MaxPos, seqs : SUBSET SeqIds, seq : SeqIds] :
           r.seq \in r.seqs}

KVAssumption ==
    /\ Size \in Nat \ {0} /\ MinKv \in Nat \ {0}
    /\ AnySeq \notin SeqIds /\ NoToken \notin Tokens
    /\ MaxPos \in Nat /\ MaxRot \in Nat
    /\ Batches \subseteq Seq(Rows) \ {<<>>}
    /\ Spans \subseteq Int \X Int
    /\ Deltas \subseteq Int
    /\ TiesCopies \in BOOLEAN
    /\ Free \notin [token : Tokens \cup {NoToken}, pos : Int, seqs : SUBSET SeqIds]

ASSUME KVAssumptionHolds == KVAssumption

Cells == 0..(Size - 1)

VARIABLES
    has_shift, head,      \* llama_kv_cache
    pos, delta, seq_id,   \* llama_kv_cell
    kv,                   \* k and v: the token and the rotation of each cell
    lost,                 \* history: cells whose key or shift a save left out
    pc,                   \* where llama_decode is
    batch, n_tested,      \* its batch, and what find_slot has counted
    attended              \* what its rows attended, until the next call

metaVars == <<has_shift, head, pos, delta, seq_id>>
callVars == <<pc, batch, n_tested>>
vars == <<metaVars, kv, lost, callVars, attended>>

n_tokens == Len(batch)

\* The run of cells of the batch, once it is found, and the row of a cell.
Slot == IF pc = "compute" THEN head..(head + n_tokens - 1) ELSE {}
RowOf(i) == batch[i - head + 1]

TypeOK ==
    /\ has_shift \in BOOLEAN
    /\ head \in 0..Size
    /\ pos \in [Cells -> -1..MaxPos]
    /\ delta \in [Cells -> Int]
    /\ seq_id \in [Cells -> SUBSET SeqIds]
    /\ kv \in [Cells -> [token : Tokens \cup {NoToken}, rot : Int]]
    /\ lost \subseteq Cells
    /\ pc \in {"ready", "search", "compute"}
    /\ batch \in Batches \cup {<<>>}
    /\ pc # "ready" => batch \in Batches /\ n_tokens <= Size
    /\ pc = "compute" => head + n_tokens <= Size
    /\ n_tested \in 0..(2 * Size)

Blank == [token |-> NoToken, rot |-> 0]

Init ==
    /\ has_shift = FALSE /\ head = 0
    /\ pos = [i \in Cells |-> -1]
    /\ delta = [i \in Cells |-> 0]
    /\ seq_id = [i \in Cells |-> {}]
    /\ kv = [i \in Cells |-> Blank] /\ lost = {}
    /\ pc = "ready" /\ batch = <<>> /\ n_tested = 0
    /\ attended = <<>>

-----------------------------------------------------------------------------
(* llama_decode.                                                           *)

\* A batch that is larger than the cache is refused at once.
TooLarge(b) ==
    /\ pc = "ready"
    /\ Len(b) > Size
    /\ attended' = <<>>
    /\ UNCHANGED <<metaVars, kv, lost, callVars>>

Decode(b) ==
    /\ pc = "ready"
    /\ Len(b) <= Size
    /\ pc' = "search" /\ batch' = b /\ n_tested' = 0
    /\ attended' = <<>>
    /\ UNCHANGED <<metaVars, kv, lost>>

\* Mutant: starts to count again when it wraps.
WrapRestarts ==
    /\ pc = "search"
    /\ head + n_tokens > Size
    /\ n_tested' = 0
    /\ head' = 0
    /\ UNCHANGED <<has_shift, pos, delta, seq_id, kv, lost, pc, batch, attended>>

\* find_slot: too few cells from here to the end of the ring.
Wrap ==
    /\ pc = "search"
    /\ head + n_tokens > Size
    /\ n_tested' = n_tested + (Size - head)
    /\ head' = 0
    /\ UNCHANGED <<has_shift, pos, delta, seq_id, kv, lost, pc, batch, attended>>

IsFree(i) == pos[i] < 0

\* The first cell in use of the run at head is the k-th after head.
FirstUsed(k) ==
    /\ pc = "search"
    /\ head + n_tokens <= Size
    /\ ~IsFree(head + k)
    /\ \A j \in 0..(k - 1) : IsFree(head + j)

\* Mutant: forgets to compare what it has tested with the size.
SkipForEver(k) ==
    /\ FirstUsed(k)
    /\ head' = head + k + 1
    /\ n_tested' = n_tested + k + 1
    /\ UNCHANGED <<has_shift, pos, delta, seq_id, kv, lost, pc, batch, attended>>

\* find_slot goes on behind that cell, ...
Skip(k) ==
    /\ FirstUsed(k)
    /\ n_tested + k + 1 < Size
    /\ head' = head + k + 1
    /\ n_tested' = n_tested + k + 1
    /\ UNCHANGED <<has_shift, pos, delta, seq_id, kv, lost, pc, batch, attended>>

\* Mutant: takes the whole run for tested.
FailEarly(k) ==
    /\ FirstUsed(k)
    /\ n_tested + n_tokens >= Size
    /\ head' = head + k + 1
    /\ pc' = "ready" /\ batch' = <<>> /\ n_tested' = 0
    /\ UNCHANGED <<has_shift, pos, delta, seq_id, kv, lost, attended>>

\* ... or gives up: llama_decode returns 1, and head stays where it is.
Fail(k) ==
    /\ FirstUsed(k)
    /\ n_tested + k + 1 >= Size
    /\ head' = head + k + 1
    /\ pc' = "ready" /\ batch' = <<>> /\ n_tested' = 0
    /\ UNCHANGED <<has_shift, pos, delta, seq_id, kv, lost, attended>>

\* find_slot has found a free run and fills in the metadata of its cells.
Found ==
    /\ pc = "search"
    /\ head + n_tokens <= Size
    /\ \A j \in 0..(n_tokens - 1) : IsFree(head + j)
    /\ LET run == head..(head + n_tokens - 1) IN
         /\ pos' = [i \in Cells |-> IF i \in run THEN RowOf(i).pos ELSE pos[i]]
         /\ seq_id' = [i \in Cells |->
                         IF i \in run THEN seq_id[i] \cup RowOf(i).seqs ELSE seq_id[i]]
         /\ lost' = lost \ run
    /\ pc' = "compute"
    /\ n_tested' = 0
    /\ UNCHANGED <<has_shift, head, delta, kv, batch, attended>>

InUse(i) == pos[i] >= 0 /\ seq_id[i] # {}

\* llama_kv_cache_cell_max returns m: it looks from the end, and not at cell 0.
CellMax(m) ==
    /\ \A i \in Cells : i > 0 /\ InUse(i) => i < m
    /\ m # 0 => m > 1 /\ InUse(m - 1)

\* kv_self.n: how many cells are attended.
AtLeast(a, b) == IF a >= b THEN a ELSE b
AtMost(a, b)  == IF a <= b THEN a ELSE b
NKv(m) == AtMost(Size, AtLeast(MinKv, m))

\* The graph: llm_build_k_shift, llm_build_kv_store, KQ_mask.  The copies of
\* llm_build_kv_store are computed only if the builder has tied them to k_cpy
\* and v_cpy, which llm_build_kqv makes sources of its reads.
Shifted ==
    [i \in Cells |->
        IF has_shift THEN [kv[i] EXCEPT !.rot = @ + delta[i]] ELSE kv[i]]
Stored(data) ==
    [i \in Cells |->
        IF TiesCopies /\ i \in Slot
          THEN [token |-> RowOf(i).token, rot |-> RowOf(i).pos]
          ELSE data[i]]
Unmasked(row, n) ==
    {i \in Cells : i < n /\ row.seq \in seq_id[i] /\ pos[i] <= row.pos}

\* Mutant: the keys are shifted after those of the batch are stored.
ComputeShiftLast ==
    /\ pc = "compute"
    /\ kv' = [i \in Cells |->
                IF has_shift THEN [Stored(kv)[i] EXCEPT !.rot = @ + delta[i]]
                             ELSE Stored(kv)[i]]
    /\ \E m \in 0..Size :
         /\ CellMax(m)
         /\ attended' = [j \in 1..n_tokens |->
                           {[slot |-> i, token |-> kv'[i].token, pos |-> kv'[i].rot] :
                               i \in Unmasked(batch[j], NKv(m))}]
    /\ has_shift' = FALSE
    /\ delta' = IF has_shift THEN [i \in Cells |-> 0] ELSE delta
    /\ head' = IF head + n_tokens >= Size THEN 0 ELSE head + n_tokens
    /\ pc' = "ready" /\ batch' = <<>>
    /\ UNCHANGED <<pos, seq_id, lost, n_tested>>

\* The graph is computed, then the ring is updated.
Compute ==
    /\ pc = "compute"
    /\ kv' = Stored(Shifted)
    /\ \E m \in 0..Size :
         /\ CellMax(m)
         /\ attended' = [j \in 1..n_tokens |->
                           {[slot |-> i, token |-> kv'[i].token, pos |-> kv'[i].rot] :
                               i \in Unmasked(batch[j], NKv(m))}]
    /\ has_shift' = FALSE
    /\ delta' = IF has_shift THEN [i \in Cells |-> 0] ELSE delta
    /\ head' = IF head + n_tokens >= Size THEN 0 ELSE head + n_tokens
    /\ pc' = "ready" /\ batch' = <<>>
    /\ UNCHANGED <<pos, seq_id, lost, n_tested>>

-----------------------------------------------------------------------------
(* The calls that edit sequences, between two calls of llama_decode.       *)

InSpan(p, span) ==
    /\ p >= 0 /\ p >= span[1]
    /\ span[2] < 0 \/ p < span[2]

Matches(i, s) == s = AnySeq \/ s \in seq_id[i]

\* new_head: the first cell of a set, or where head goes if there is none.
HeadToFirst(freed, otherwise) ==
    \/ freed = {} /\ head' = otherwise
    \/ head' \in freed /\ \A i \in freed : head' <= i

Returns ==
    /\ pc = "ready"
    /\ attended' = <<>>
    /\ UNCHANGED <<kv, lost, callVars>>

Clear ==
    /\ Returns
    /\ pos' = [i \in Cells |-> -1]
    /\ seq_id' = [i \in Cells |-> {}]
    /\ head' = 0
    /\ UNCHANGED <<has_shift, delta>>

SeqRm(s, span) ==
    LET hits  == {i \in Cells : InSpan(pos[i], span) /\ Matches(i, s)}
        left(i) == IF s = AnySeq THEN {} ELSE seq_id[i] \ {s}
        freed == {i \in hits : left(i) = {}}
    IN  /\ Returns
        /\ seq_id' = [i \in Cells |-> IF i \in hits THEN left(i) ELSE seq_id[i]]
        /\ pos' = [i \in Cells |-> IF i \in freed THEN -1 ELSE pos[i]]
        /\ HeadToFirst(freed, head)
        /\ UNCHANGED <<has_shift, delta>>

SeqCp(src, dst, span) ==
    /\ Returns
    /\ src # dst
    /\ seq_id' = [i \in Cells |->
                    IF src \in seq_id[i] /\ InSpan(pos[i], span)
                      THEN seq_id[i] \cup {dst} ELSE seq_id[i]]
    /\ head' = 0
    /\ UNCHANGED <<has_shift, pos, delta>>

\* Mutant: leaves the sequences of a cell it frees.
SeqKeepLeavesIds(s) ==
    LET others == {i \in Cells : s \notin seq_id[i]}
    IN  /\ Returns
        /\ pos' = [i \in Cells |-> IF i \in others THEN -1 ELSE pos[i]]
        /\ seq_id' = [i \in Cells |-> IF i \in others THEN seq_id[i] ELSE {s}]
        /\ HeadToFirst(others, head)
        /\ UNCHANGED <<has_shift, delta>>

SeqKeep(s) ==
    LET others == {i \in Cells : s \notin seq_id[i]}
    IN  /\ Returns
        /\ pos' = [i \in Cells |-> IF i \in others THEN -1 ELSE pos[i]]
        /\ seq_id' = [i \in Cells |-> IF i \in others THEN {} ELSE {s}]
        /\ HeadToFirst(others, head)
        /\ UNCHANGED <<has_shift, delta>>

SeqShift(s, span, d) ==
    LET hits  == {i \in Cells : s \in seq_id[i] /\ InSpan(pos[i], span)}
        freed == {i \in hits : pos[i] + d < 0}
    IN  /\ Returns
        /\ \A i \in hits : /\ pos[i] + d <= MaxPos
                            /\ kv[i].rot + delta[i] + d \in (-MaxRot)..MaxRot
        /\ has_shift' = (has_shift \/ hits # {})
        /\ pos' = [i \in Cells |->
                     IF i \in freed THEN -1
                     ELSE IF i \in hits THEN pos[i] + d ELSE pos[i]]
        /\ delta' = [i \in Cells |-> IF i \in hits THEN delta[i] + d ELSE delta[i]]
        /\ seq_id' = [i \in Cells |-> IF i \in freed THEN {} ELSE seq_id[i]]
        /\ HeadToFirst(freed, 0)

\* What llama_copy_state_data leaves out: the keys and values of the cells in
\* use from head on, and the pending shifts.
LeftOut == {i \in Cells : pos[i] >= 0 /\ (i >= head \/ delta[i] # 0)}

\* The caller saves the state, at any time between two calls, and a later
\* process loads it into the context it has just made.
Resume ==
    /\ pc = "ready"
    /\ kv' = [i \in Cells |-> IF i < head THEN kv[i] ELSE Blank]
    /\ has_shift' = FALSE
    /\ delta' = [i \in Cells |-> 0]
    /\ lost' = {i \in lost : pos[i] >= 0} \cup LeftOut
    /\ attended' = <<>>
    /\ UNCHANGED <<head, pos, seq_id, callVars>>

Search == Wrap \/ Found \/ \E k \in 0..(n_tokens - 1) : Skip(k) \/ Fail(k)

Edit ==
    \/ Clear
    \/ \E s \in SeqIds \cup {AnySeq}, span \in Spans : SeqRm(s, span)
    \/ \E s, t \in SeqIds, span \in Spans : SeqCp(s, t, span)
    \/ \E s \in SeqIds : SeqKeep(s)
    \/ \E s \in SeqIds, span \in Spans, d \in Deltas : SeqShift(s, span, d)

Next ==
    \/ \E b \in Batches : TooLarge(b) \/ Decode(b)
    \/ Search \/ Compute \/ Edit \/ Resume

Spec == Init /\ [][Next]_vars

\* llama_decode runs to its end once it is called.
FairSpec == Spec /\ WF_vars(Search \/ Compute)

-----------------------------------------------------------------------------
(* Properties.                                                             *)

\* Cells that hold a token: those of the batch do once it is computed.  Kept
\* are the tokens that no restart has lost.
Held == {i \in Cells : pos[i] >= 0} \ Slot
Kept == Held \ lost

\* A cell is free in all of its fields or in none, so that no token enters
\* a sequence by a leftover of its cell; and where the builder ties the copies
\* (TiesCopies), the key of every token is rotated to its position, but for
\* shifts that the next decode will apply, unless a save has left it out:
\* then a restart loses that token's key and no other's.
CellsExact ==
    /\ \A i \in Cells : pos[i] >= 0 <=> seq_id[i] # {}
    /\ \A i \in Kept : kv[i].token # NoToken /\ kv[i].rot + delta[i] = pos[i]
    /\ \A i \in Cells : delta[i] # 0 => has_shift

\* "important: storing RoPE-ed version of K in the KV cache!" (llama.cpp on
\* llm_build_kv_store); "Copies the state to the specified destination
\* address" (llama.h on llama_copy_state_data).  Every key a row attends was
\* stored, and is rotated to the position its token now has.  It is not so for
\* a builder that drops the copies, nor after a save that leaves keys out.
AttendsStored ==
    \A j \in DOMAIN attended : \A e \in attended[j] :
        e.token # NoToken /\ e.pos = pos[e.slot]

\* llama.cpp on find_slot: "find an empty slot of size n_tokens in the
\* cache".  llama_decode refuses a batch only if there is no such slot,
\* wherever in the ring its search began.
RoomFor(n) ==
    \E h \in Cells : h + n <= Size /\ \A i \in h..(h + n - 1) : IsFree(i)

FailsOnlyWhenFull ==
    [][pc = "search" /\ pc' = "ready" => ~RoomFor(n_tokens)]_vars

\* Where the builder ties the copies, the cache is the store of tokens that
\* llama.h describes, but that a restart may lose tokens: decoding a batch
\* shows each of its rows exactly the tokens of its sequence up to its
\* position, all of them that no save has left out, at the positions they now
\* have, whatever edits, pending shifts, reused cells, failed searches and
\* restarts came before.  Of the cells a save has left out (LeftOut) it says
\* nothing until they are reused; what their readers see, AttendsStored does.
Entries ==
    [i \in Cells |->
        IF i \in Kept
          THEN [token |-> kv[i].token, pos |-> pos[i], seqs |-> seq_id[i]]
          ELSE Free]

Shown == [j \in DOMAIN attended |-> {e \in attended[j] : e.slot \notin lost}]

Store == INSTANCE KVStore WITH Slots <- Cells, store <- Entries, attended <- Shown

IsStore == Store!Spec

\* The search for a slot ends, and with it llama_decode.
DecodeReturns == (pc = "search") ~> (pc = "ready")
=============================================================================
