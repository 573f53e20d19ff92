---------------------------- MODULE KVCacheProofs ----------------------------
(***************************************************************************)
(* Proofs about KVCache, for every size of the ring, every set of batches, *)
(* spans and distances, and with a state saved and loaded at any time      *)
(* between two calls.  What is said of the keys assumes that the builder   *)
(* ties the copies of llm_build_kv_store, and is said of those tokens that *)
(* no save has left out; types and the search need neither.                *)
(***************************************************************************)
EXTENDS KVCache, TLAPS

\* The builder of the graph is build_llama, build_falcon, ...
CopiesTied == TiesCopies = TRUE

\* No free run of n cells starts at h.
Bad(h, n) == h + n > Size \/ \E i \in h..(h + n - 1) : ~IsFree(i)

\* What find_slot knows while it searches: the starts it has passed are bad.
\* It began at head - n_tested; once it has wrapped, at Size + head - n_tested.
SearchInv ==
    pc = "search" =>
        \/ /\ n_tested <= head
           /\ \A h \in (head - n_tested)..(head - 1) : Bad(h, n_tokens)
        \/ /\ n_tested >= head /\ n_tested <= Size + head
           /\ \A h \in 0..(head - 1) : Bad(h, n_tokens)
           /\ \A h \in (Size + head - n_tested)..(Size - 1) : Bad(h, n_tokens)
        \/ /\ n_tested >= Size /\ head = 0
           /\ \A h \in Cells : Bad(h, n_tokens)

\* The cells of the batch hold its metadata and nothing else, and no restart
\* has lost what they held: they were free.  The rows attend nothing yet.
SlotInv ==
    /\ \A i \in Slot :
         pos[i] = RowOf(i).pos /\ seq_id[i] = RowOf(i).seqs /\ i \notin lost
    /\ pc # "ready" => attended = <<>>

\* The parts of CellsExact; only the keys ask for the copies.
KeysExact == \A i \in Kept : kv[i].token # NoToken /\ kv[i].rot + delta[i] = pos[i]

CellsInv ==
    /\ \A i \in Cells : pos[i] >= 0 <=> seq_id[i] # {}
    /\ \A i \in Cells : delta[i] # 0 => has_shift
    /\ CopiesTied => KeysExact

Inv == TypeOK /\ SearchInv /\ CellsInv /\ SlotInv

-----------------------------------------------------------------------------
(* Rows and batches.                                                       *)

LEMMA BatchShape ==
    ASSUME KVAssumption, NEW b \in Batches
    PROVE  /\ Len(b) \in Nat \ {0}
           /\ \A j \in 1..Len(b) :
                /\ b[j] \in Rows
                /\ b[j].pos \in 0..MaxPos /\ b[j].token \in Tokens
                /\ b[j].seqs \subseteq SeqIds /\ b[j].seq \in b[j].seqs
<1>1. b \in Seq(Rows) /\ b # <<>>
  BY DEF KVAssumption
<1>2. Len(b) \in Nat \ {0}
  BY <1>1
<1>3. \A j \in 1..Len(b) : b[j] \in Rows
  BY <1>1
<1>4. \A r \in Rows : /\ r.pos \in 0..MaxPos /\ r.token \in Tokens
                      /\ r.seqs \subseteq SeqIds /\ r.seq \in r.seqs
  BY DEF Rows
<1> QED
  BY <1>2, <1>3, <1>4

LEMMA RowOfCell ==
    ASSUME KVAssumption, TypeOK, pc # "ready", head + n_tokens <= Size,
           NEW i \in head..(head + n_tokens - 1)
    PROVE  /\ i \in Cells
           /\ i - head + 1 \in 1..n_tokens
           /\ RowOf(i).pos \in 0..MaxPos /\ RowOf(i).token \in Tokens
           /\ RowOf(i).seqs \subseteq SeqIds /\ RowOf(i).seqs # {}
<1>1. batch \in Batches /\ head \in 0..Size /\ Size \in Nat
  BY DEF TypeOK, KVAssumption
<1>2. n_tokens \in Nat \ {0}
  BY <1>1, BatchShape DEF n_tokens
<1>3. i \in Cells /\ i - head + 1 \in 1..n_tokens
  BY <1>1, <1>2 DEF Cells
<1>4. /\ batch[i - head + 1].pos \in 0..MaxPos
      /\ batch[i - head + 1].token \in Tokens
      /\ batch[i - head + 1].seqs \subseteq SeqIds
      /\ batch[i - head + 1].seq \in batch[i - head + 1].seqs
  BY <1>1, <1>3, BatchShape DEF n_tokens
<1> QED
  BY <1>3, <1>4 DEF RowOf

\* Every cell in use is attended: the heuristic of llama_decode cuts off
\* free cells only.
LEMMA AttendedCoversUse ==
    ASSUME KVAssumption, NEW i \in Cells, InUse(i),
           NEW m \in 0..Size, CellMax(m)
    PROVE  i < NKv(m)
<1>1. Size \in Nat \ {0} /\ MinKv \in Nat \ {0} /\ m \in Nat /\ i \in Nat /\ i < Size
  BY DEF KVAssumption, Cells
<1>2. i = 0 \/ i < m
  BY <1>1 DEF CellMax
<1> QED
  BY <1>1, <1>2 DEF NKv, AtMost, AtLeast

\* HeadToFirst keeps head within the ring.
LEMMA HeadStaysInRing ==
    ASSUME KVAssumption, NEW freed \in SUBSET Cells, NEW h \in 0..Size,
           HeadToFirst(freed, h)
    PROVE  head' \in 0..Size
<1>1. Size \in Nat
  BY DEF KVAssumption
<1>2. CASE freed = {} /\ head' = h
  BY <1>2
<1>3. CASE head' \in freed
  BY <1>1, <1>3 DEF Cells
<1> QED
  BY <1>2, <1>3 DEF HeadToFirst

-----------------------------------------------------------------------------
(* The search for a slot.                                                  *)

\* A used cell of the run at head spoils every start up to that cell.
LEMMA UsedSpoilsStarts ==
    ASSUME KVAssumption, TypeOK, NEW k \in 0..(n_tokens - 1), FirstUsed(k)
    PROVE  /\ \A h \in head..(head + k) : Bad(h, n_tokens)
           /\ head + k < Size /\ k \in Nat /\ n_tokens \in Nat \ {0}
<1>1. batch \in Batches /\ head \in 0..Size /\ Size \in Nat
  BY DEF FirstUsed, TypeOK, KVAssumption
<1>2. n_tokens \in Nat \ {0}
  BY <1>1, BatchShape DEF n_tokens
<1>3. ~IsFree(head + k) /\ head + n_tokens <= Size
  BY DEF FirstUsed
<1>4. ASSUME NEW h \in head..(head + k) PROVE Bad(h, n_tokens)
  <2>1. head + k \in h..(h + n_tokens - 1)
    BY <1>1, <1>2
  <2> QED BY <2>1, <1>3 DEF Bad
<1> QED
  BY <1>1, <1>2, <1>3, <1>4

LEMMA WrapKeepsSearch ==
    ASSUME KVAssumption, TypeOK, SearchInv, Wrap
    PROVE  SearchInv' /\ n_tested' \in 0..(2 * Size)
<1> USE DEF Wrap
<1>1. batch \in Batches /\ head \in 0..Size /\ Size \in Nat /\ n_tested \in Nat
      /\ n_tokens \in Nat \ {0} /\ n_tokens <= Size
  BY BatchShape DEF TypeOK, KVAssumption, n_tokens
<1>2. n_tokens' = n_tokens /\ \A h : Bad(h, n_tokens)' <=> Bad(h, n_tokens)
  BY DEF Bad, IsFree, n_tokens
<1>3. \A h \in head..(Size - 1) : Bad(h, n_tokens)
  BY <1>1 DEF Bad
<1>4. CASE /\ n_tested <= head
           /\ \A h \in (head - n_tested)..(head - 1) : Bad(h, n_tokens)
  <2>1. n_tested' = n_tested + (Size - head) /\ head' = 0
    OBVIOUS
  <2>2. n_tested' >= 0 /\ n_tested' <= Size
    BY <1>1, <1>4, <2>1
  <2>3. \A h \in (Size + head' - n_tested')..(Size - 1) : Bad(h, n_tokens)
    BY <1>1, <1>3, <1>4, <2>1
  <2>4. \A h \in 0..(head' - 1) : Bad(h, n_tokens)
    BY <2>1
  <2> QED BY <1>1, <1>2, <2>1, <2>2, <2>3, <2>4 DEF SearchInv
<1>5. CASE /\ n_tested >= head /\ n_tested <= Size + head
           /\ \A h \in 0..(head - 1) : Bad(h, n_tokens)
           /\ \A h \in (Size + head - n_tested)..(Size - 1) : Bad(h, n_tokens)
  <2>1. n_tested' = n_tested + (Size - head) /\ head' = 0
    OBVIOUS
  <2>2. n_tested' >= Size /\ n_tested' <= 2 * Size
    BY <1>1, <1>5, <2>1
  <2>3. \A h \in Cells : Bad(h, n_tokens)
    BY <1>1, <1>3, <1>5 DEF Cells
  <2> QED BY <1>1, <1>2, <2>1, <2>2, <2>3 DEF SearchInv
<1>6. CASE n_tested >= Size /\ head = 0
  BY <1>1, <1>6
<1> QED
  BY <1>4, <1>5, <1>6 DEF SearchInv

LEMMA SkipKeepsSearch ==
    ASSUME KVAssumption, TypeOK, SearchInv, NEW k \in 0..(n_tokens - 1), Skip(k)
    PROVE  SearchInv' /\ n_tested' \in 0..(2 * Size) /\ head' \in 0..Size
<1> USE DEF Skip
<1>0. FirstUsed(k) /\ n_tested + k + 1 < Size
  OBVIOUS
<1>1. /\ head \in 0..Size /\ Size \in Nat /\ n_tested \in Nat
      /\ k \in Nat /\ n_tokens \in Nat \ {0} /\ head + k < Size
      /\ \A h \in head..(head + k) : Bad(h, n_tokens)
  BY <1>0, UsedSpoilsStarts DEF TypeOK, KVAssumption
<1>2. n_tokens' = n_tokens /\ \A h : Bad(h, n_tokens)' <=> Bad(h, n_tokens)
  BY DEF Bad, IsFree, n_tokens
<1>3. head' = head + k + 1 /\ n_tested' = n_tested + k + 1
  OBVIOUS
<1>4. CASE /\ n_tested <= head
           /\ \A h \in (head - n_tested)..(head - 1) : Bad(h, n_tokens)
  <2>1. n_tested' <= head'
    BY <1>1, <1>3, <1>4
  <2>2. \A h \in (head' - n_tested')..(head' - 1) : Bad(h, n_tokens)
    BY <1>1, <1>3, <1>4
  <2> QED BY <1>0, <1>1, <1>2, <1>3, <2>1, <2>2 DEF SearchInv
<1>5. CASE /\ n_tested >= head /\ n_tested <= Size + head
           /\ \A h \in 0..(head - 1) : Bad(h, n_tokens)
           /\ \A h \in (Size + head - n_tested)..(Size - 1) : Bad(h, n_tokens)
  <2>1. n_tested' >= head' /\ n_tested' <= Size + head'
    BY <1>1, <1>3, <1>5
  <2>2. \A h \in 0..(head' - 1) : Bad(h, n_tokens)
    BY <1>1, <1>3, <1>5
  <2>3. \A h \in (Size + head' - n_tested')..(Size - 1) : Bad(h, n_tokens)
    BY <1>1, <1>3, <1>5
  <2> QED BY <1>0, <1>1, <1>2, <1>3, <2>1, <2>2, <2>3 DEF SearchInv
<1>6. CASE n_tested >= Size
  BY <1>0, <1>1, <1>6
<1> QED
  BY <1>4, <1>5, <1>6 DEF SearchInv, FirstUsed

\* When find_slot gives up, it has passed every start.
LEMMA FailMeansFull ==
    ASSUME KVAssumption, TypeOK, SearchInv, NEW k \in 0..(n_tokens - 1), Fail(k)
    PROVE  ~RoomFor(n_tokens) /\ head' \in 0..Size
<1> USE DEF Fail
<1>0. FirstUsed(k) /\ n_tested + k + 1 >= Size
  OBVIOUS
<1>1. /\ head \in 0..Size /\ Size \in Nat /\ n_tested \in Nat
      /\ k \in Nat /\ n_tokens \in Nat \ {0} /\ head + k < Size
      /\ \A h \in head..(head + k) : Bad(h, n_tokens)
  BY <1>0, UsedSpoilsStarts DEF TypeOK, KVAssumption
<1>2. \A h \in Cells : Bad(h, n_tokens)
  <2>1. CASE /\ n_tested <= head
             /\ \A h \in (head - n_tested)..(head - 1) : Bad(h, n_tokens)
    BY <1>0, <1>1, <2>1 DEF Cells
  <2>2. CASE /\ n_tested >= head /\ n_tested <= Size + head
             /\ \A h \in 0..(head - 1) : Bad(h, n_tokens)
             /\ \A h \in (Size + head - n_tested)..(Size - 1) : Bad(h, n_tokens)
    BY <1>0, <1>1, <2>2 DEF Cells
  <2> QED
    BY <2>1, <2>2 DEF SearchInv, FirstUsed
<1>3. \A h \in Cells : h + n_tokens > Size \/ \E i \in h..(h + n_tokens - 1) : ~IsFree(i)
  BY <1>2 DEF Bad
<1>4. \A h \in Cells : h + n_tokens <= Size => ~(h + n_tokens > Size)
  BY <1>1 DEF Cells
<1>5. ~RoomFor(n_tokens)
  BY <1>3, <1>4 DEF RoomFor
<1>6. head' = head + k + 1
  OBVIOUS
<1> QED
  BY <1>1, <1>5, <1>6

-----------------------------------------------------------------------------
(* Each action keeps Inv.                                                  *)

\* Only the search step changes what SearchInv and SlotInv speak of, and it
\* leaves the cells alone.
LEMMA InitInv == KVAssumption /\ Init => Inv
<1> SUFFICES ASSUME KVAssumption, Init PROVE Inv
  OBVIOUS
<1>1. Size \in Nat \ {0} /\ MaxPos \in Nat
  BY DEF KVAssumption
<1>2. TypeOK
  <2>1. pos \in [Cells -> -1..MaxPos] /\ delta \in [Cells -> Int]
    BY <1>1 DEF Init
  <2>2. seq_id \in [Cells -> SUBSET SeqIds]
    BY DEF Init
  <2>3. kv \in [Cells -> [token : Tokens \cup {NoToken}, rot : Int]]
    BY DEF Init, Blank
  <2>4. has_shift \in BOOLEAN /\ head \in 0..Size /\ n_tested \in 0..(2 * Size)
    <3>1. has_shift = FALSE /\ head = 0 /\ n_tested = 0
      BY DEF Init
    <3>2. 0 \in 0..Size /\ 0 \in 0..(2 * Size)
      BY <1>1
    <3> QED BY <3>1, <3>2
  <2>5. pc = "ready" /\ batch \in Batches \cup {<<>>}
    BY DEF Init
  <2>6. pc \in {"ready", "search", "compute"} /\ ~(pc # "ready") /\ ~(pc = "compute")
    BY <2>5
  <2>7. lost \subseteq Cells
    BY DEF Init
  <2> QED BY <2>1, <2>2, <2>3, <2>4, <2>5, <2>6, <2>7 DEF TypeOK
<1>3. SearchInv /\ SlotInv
  BY DEF Init, SearchInv, SlotInv, Slot
<1>4. CellsInv
  BY DEF Init, CellsInv, KeysExact, Kept, Held
<1> QED
  BY <1>2, <1>3, <1>4 DEF Inv

LEMMA DecodeKeepsInv ==
    ASSUME KVAssumption, Inv, NEW b \in Batches, Decode(b)
    PROVE  Inv'
<1> USE DEF Decode, metaVars
<1>1. Len(b) \in Nat \ {0} /\ Size \in Nat \ {0}
  BY BatchShape DEF KVAssumption
<1>2. TypeOK'
  BY <1>1 DEF Inv, TypeOK, n_tokens
<1>3. SearchInv'
  BY <1>1 DEF Inv, TypeOK, SearchInv
<1>4. SlotInv'
  BY DEF SlotInv, Slot
<1>5. CellsInv'
  <2>1. Kept' = Kept
    BY DEF Kept, Held, Slot
  <2> QED BY <2>1 DEF Inv, CellsInv, KeysExact
<1> QED
  BY <1>2, <1>3, <1>4, <1>5 DEF Inv

LEMMA SearchKeepsInv ==
    ASSUME KVAssumption, Inv, Wrap \/ \E k \in 0..(n_tokens - 1) : Skip(k)
    PROVE  Inv'
<1>1. SearchInv' /\ n_tested' \in 0..(2 * Size) /\ head' \in 0..Size
  <2>1. CASE Wrap
    BY <2>1, WrapKeepsSearch DEF Inv, Wrap, KVAssumption
  <2>2. CASE \E k \in 0..(n_tokens - 1) : Skip(k)
    BY <2>2, SkipKeepsSearch DEF Inv
  <2> QED BY <2>1, <2>2
<1>2. /\ pc = "search"
      /\ UNCHANGED <<has_shift, pos, delta, seq_id, kv, lost, pc, batch, attended>>
  BY DEF Wrap, Skip, FirstUsed
<1>3. TypeOK'
  BY <1>1, <1>2 DEF Inv, TypeOK, n_tokens
<1>4. SlotInv' /\ Kept' = Kept
  BY <1>2 DEF Inv, SlotInv, Slot, Kept, Held
<1>5. CellsInv'
  BY <1>2, <1>4 DEF Inv, CellsInv, KeysExact
<1> QED
  BY <1>1, <1>3, <1>4, <1>5 DEF Inv

LEMMA FailKeepsInv ==
    ASSUME KVAssumption, Inv, NEW k \in 0..(n_tokens - 1), Fail(k)
    PROVE  Inv'
<1>1. head' \in 0..Size
  BY FailMeansFull DEF Inv
<1>2. /\ pc = "search" /\ pc' = "ready" /\ batch' = <<>> /\ n_tested' = 0
      /\ UNCHANGED <<has_shift, pos, delta, seq_id, kv, lost>>
  BY DEF Fail, FirstUsed
<1>3. TypeOK'
  BY <1>1, <1>2 DEF Inv, TypeOK, KVAssumption
<1>4. SearchInv' /\ SlotInv' /\ Kept' = Kept
  BY <1>2 DEF SearchInv, SlotInv, Slot, Kept, Held
<1>5. CellsInv'
  BY <1>2, <1>4 DEF Inv, CellsInv, KeysExact
<1> QED
  BY <1>3, <1>4, <1>5 DEF Inv

\* The run that find_slot returns is free in every field, and only its cells
\* change.
LEMMA FoundKeepsHeld ==
    ASSUME KVAssumption, Inv, Found
    PROVE  /\ \A i \in head..(head + n_tokens - 1) : pos[i] < 0 /\ seq_id[i] = {}
           /\ Held' = Held /\ Kept' = Kept /\ UNCHANGED <<kv, attended>>
           /\ \A i \in Held : pos'[i] = pos[i] /\ seq_id'[i] = seq_id[i]
<1> DEFINE run == head..(head + n_tokens - 1)
<1>0. /\ pc = "search" /\ head + n_tokens <= Size
      /\ \A j \in 0..(n_tokens - 1) : IsFree(head + j)
      /\ pos' = [i \in Cells |-> IF i \in run THEN RowOf(i).pos ELSE pos[i]]
      /\ seq_id' = [i \in Cells |->
                      IF i \in run THEN seq_id[i] \cup RowOf(i).seqs ELSE seq_id[i]]
      /\ pc' = "compute" /\ UNCHANGED <<head, kv, batch, attended>>
      /\ lost' = lost \ run
  BY DEF Found
<1>1. /\ Size \in Nat \ {0} /\ MaxPos \in Nat /\ head \in 0..Size
      /\ batch \in Batches /\ n_tokens \in Nat \ {0}
  BY <1>0, BatchShape DEF Inv, TypeOK, KVAssumption, n_tokens
<1>2. \A i \in run : i \in Cells /\ RowOf(i).pos \in 0..MaxPos
  BY <1>0, RowOfCell DEF Inv
<1>3. ASSUME NEW i \in run PROVE pos[i] < 0 /\ ~(pos[i] >= 0) /\ seq_id[i] = {}
  <2>1. i - head \in 0..(n_tokens - 1) /\ head + (i - head) = i
    BY <1>1
  <2>2. IsFree(head + (i - head))
    BY <2>1, <1>0
  <2>3. i \in Cells /\ pos[i] < 0 /\ pos[i] \in -1..MaxPos
    BY <1>2, <2>1, <2>2 DEF IsFree, Inv, TypeOK
  <2>4. ~(pos[i] >= 0)
    BY <2>3, <1>1
  <2> QED BY <2>3, <2>4 DEF Inv, CellsInv
<1>4. Slot' = run /\ Slot = {}
  BY <1>0 DEF Slot, n_tokens
<1>5. ASSUME NEW i \in Cells
      PROVE  pos'[i] >= 0 /\ i \notin run <=> pos[i] >= 0
  <2>1. CASE i \in run
    BY <2>1, <1>3
  <2>2. CASE i \notin run
    <3>1. pos'[i] = pos[i]
      BY <1>0, <2>2, <1>5
    <3> QED BY <2>2, <3>1
  <2> QED BY <2>1, <2>2
<1> HIDE DEF run
<1>6. Held' = Held
  <2>1. Held' = {i \in Cells : pos'[i] >= 0} \ run /\ Held = {i \in Cells : pos[i] >= 0}
    BY <1>4 DEF Held
  <2> QED BY <2>1, <1>5
<1>7. ASSUME NEW i \in Held PROVE pos'[i] = pos[i] /\ seq_id'[i] = seq_id[i]
  <2>1. i \in Cells /\ i \notin run
    BY <1>3 DEF Held
  <2> QED BY <2>1, <1>0
<1>8. \A i \in run : pos[i] < 0 /\ seq_id[i] = {}
  BY <1>3
<1>9. Kept' = Kept
  <2>1. \A i \in Held : i \notin run
    BY <1>3 DEF Held
  <2> QED BY <2>1, <1>0, <1>6 DEF Kept
<1> QED
  BY <1>0, <1>6, <1>7, <1>8, <1>9 DEF run

LEMMA FoundKeepsInv ==
    ASSUME KVAssumption, Inv, Found
    PROVE  Inv'
<1> DEFINE run == head..(head + n_tokens - 1)
<1>0. /\ pc = "search" /\ head + n_tokens <= Size
      /\ pos' = [i \in Cells |-> IF i \in run THEN RowOf(i).pos ELSE pos[i]]
      /\ seq_id' = [i \in Cells |->
                      IF i \in run THEN seq_id[i] \cup RowOf(i).seqs ELSE seq_id[i]]
      /\ pc' = "compute" /\ n_tested' = 0
      /\ UNCHANGED <<has_shift, head, delta, kv, batch, attended>>
      /\ lost' = lost \ run
  BY DEF Found
<1>1. /\ Size \in Nat \ {0} /\ MaxPos \in Nat /\ head \in 0..Size
      /\ batch \in Batches /\ n_tokens \in Nat \ {0}
  BY <1>0, BatchShape DEF Inv, TypeOK, KVAssumption, n_tokens
<1>2. \A i \in run :
        /\ i \in Cells
        /\ RowOf(i).pos \in 0..MaxPos
        /\ RowOf(i).seqs \subseteq SeqIds /\ RowOf(i).seqs # {}
  BY <1>0, RowOfCell DEF Inv
<1>3. \A i \in run : seq_id[i] = {}
  BY FoundKeepsHeld
<1>4. TypeOK'
  <2>1. pos' \in [Cells -> -1..MaxPos]
    BY <1>0, <1>1, <1>2 DEF Inv, TypeOK
  <2>2. seq_id' \in [Cells -> SUBSET SeqIds]
    BY <1>0, <1>2 DEF Inv, TypeOK
  <2>3. n_tokens' = n_tokens
    BY <1>0 DEF n_tokens
  <2> QED BY <1>0, <1>1, <2>1, <2>2, <2>3 DEF Inv, TypeOK
<1>5. Slot' = run /\ \A i \in run : RowOf(i)' = RowOf(i)
  BY <1>0 DEF Slot, RowOf, n_tokens
<1>6. SlotInv'
  BY <1>0, <1>2, <1>3, <1>5 DEF Inv, SlotInv
<1>7. SearchInv'
  BY <1>0 DEF SearchInv
<1>8. CellsInv'
  <2>1. \A i \in Cells : pos'[i] >= 0 <=> seq_id'[i] # {}
    <3>1. ASSUME NEW i \in run PROVE pos'[i] >= 0 /\ seq_id'[i] # {}
      BY <1>0, <1>1, <1>2
    <3>2. ASSUME NEW i \in Cells \ run
          PROVE  pos'[i] = pos[i] /\ seq_id'[i] = seq_id[i]
      BY <1>0
    <3>3. \A i \in Cells : pos[i] >= 0 <=> seq_id[i] # {}
      BY DEF Inv, CellsInv
    <3> QED BY <3>1, <3>2, <3>3
  <2>2. Kept' = Kept /\ \A i \in Kept : pos'[i] = pos[i]
    BY FoundKeepsHeld DEF Kept
  <2> QED BY <1>0, <2>1, <2>2 DEF Inv, CellsInv, KeysExact
<1> QED
  BY <1>4, <1>6, <1>7, <1>8 DEF Inv

\* Once a shift is applied, none is pending.
LEMMA NoDeltaWithoutShift ==
    ASSUME KVAssumption, Inv, Compute
    PROVE  \A i \in Cells : delta'[i] = 0
<1>1. CASE has_shift
  BY <1>1 DEF Compute
<1>2. CASE ~has_shift
  BY <1>2 DEF Compute, Inv, CellsInv
<1> QED
  BY <1>1, <1>2

\* The key of a cell after the graph: rotated by its pending shift, or stored
\* if the builder ties the copies.
LEMMA KeysAfterGraph ==
    ASSUME KVAssumption, Inv, Compute
    PROVE  /\ CopiesTied =>
                \A i \in Slot : kv'[i].token = RowOf(i).token /\ kv'[i].rot = RowOf(i).pos
           /\ \A i \in Cells \ Slot : /\ kv'[i].token = kv[i].token
                                      /\ kv'[i].rot = kv[i].rot + delta[i]
           /\ kv' \in [Cells -> [token : Tokens \cup {NoToken}, rot : Int]]
<1>1. /\ kv \in [Cells -> [token : Tokens \cup {NoToken}, rot : Int]]
      /\ delta \in [Cells -> Int] /\ pc = "compute"
      /\ head + n_tokens <= Size
      /\ \A i \in Cells : delta[i] # 0 => has_shift
      /\ MaxPos \in Nat
  BY DEF Inv, TypeOK, CellsInv, Compute, KVAssumption
<1>2. \A i \in Slot : /\ i \in Cells
                      /\ RowOf(i).pos \in 0..MaxPos /\ RowOf(i).token \in Tokens
  BY <1>1, RowOfCell DEF Inv, Slot
<1>3. kv' = [i \in Cells |->
               IF TiesCopies /\ i \in Slot
                 THEN [token |-> RowOf(i).token, rot |-> RowOf(i).pos]
                 ELSE Shifted[i]]
  BY DEF Compute, Stored
<1>4. \A i \in Cells : /\ Shifted[i] \in [token : Tokens \cup {NoToken}, rot : Int]
                       /\ Shifted[i].token = kv[i].token
                       /\ Shifted[i].rot = kv[i].rot + delta[i]
  <2>1. ASSUME NEW i \in Cells
        PROVE  /\ Shifted[i] \in [token : Tokens \cup {NoToken}, rot : Int]
               /\ Shifted[i].token = kv[i].token
               /\ Shifted[i].rot = kv[i].rot + delta[i]
    <3>1. kv[i] \in [token : Tokens \cup {NoToken}, rot : Int] /\ delta[i] \in Int
      BY <1>1, <2>1
    <3>2. CASE has_shift
      BY <2>1, <3>1, <3>2 DEF Shifted
    <3>3. CASE ~has_shift
      <4>1. Shifted[i] = kv[i] /\ delta[i] = 0
        BY <1>1, <2>1, <3>3 DEF Shifted
      <4> QED BY <3>1, <4>1
    <3> QED BY <3>2, <3>3
  <2> QED BY <2>1
<1>5. CopiesTied =>
        \A i \in Slot : kv'[i].token = RowOf(i).token /\ kv'[i].rot = RowOf(i).pos
  BY <1>2, <1>3 DEF CopiesTied
<1>6. \A i \in Cells \ Slot : kv'[i] = Shifted[i]
  BY <1>3
<1>7. kv' \in [Cells -> [token : Tokens \cup {NoToken}, rot : Int]]
  <2>1. \A i \in Slot : [token |-> RowOf(i).token, rot |-> RowOf(i).pos]
                           \in [token : Tokens \cup {NoToken}, rot : Int]
    BY <1>1, <1>2
  <2> QED BY <1>3, <1>4, <2>1
<1> QED
  BY <1>4, <1>5, <1>6, <1>7

LEMMA ComputeKeepsInv ==
    ASSUME KVAssumption, Inv, Compute
    PROVE  Inv'
<1>1. /\ Size \in Nat \ {0} /\ MaxPos \in Nat /\ head \in 0..Size
      /\ batch \in Batches /\ n_tokens \in Nat \ {0}
      /\ pc = "compute" /\ head + n_tokens <= Size
      /\ pos \in [Cells -> -1..MaxPos] /\ delta \in [Cells -> Int]
      /\ seq_id \in [Cells -> SUBSET SeqIds] /\ n_tested \in 0..(2 * Size)
      /\ lost \subseteq Cells
  BY BatchShape DEF Inv, TypeOK, KVAssumption, n_tokens, Compute
<1>2. /\ has_shift' = FALSE /\ pc' = "ready" /\ batch' = <<>>
      /\ UNCHANGED <<pos, seq_id, lost, n_tested>>
      /\ head' = IF head + n_tokens >= Size THEN 0 ELSE head + n_tokens
      /\ delta' = IF has_shift THEN [i \in Cells |-> 0] ELSE delta
  BY DEF Compute
<1>3. TypeOK'
  <2>1. head' \in 0..Size
    BY <1>1, <1>2
  <2>2. delta' \in [Cells -> Int]
    BY <1>1, <1>2
  <2>3. kv' \in [Cells -> [token : Tokens \cup {NoToken}, rot : Int]]
    BY KeysAfterGraph
  <2> QED BY <1>1, <1>2, <2>1, <2>2, <2>3 DEF TypeOK
<1>4. SearchInv' /\ SlotInv'
  BY <1>2 DEF SearchInv, SlotInv, Slot
<1>5. CellsInv'
  <2>1. \A i \in Slot : /\ i \in Cells /\ pos[i] = RowOf(i).pos
                        /\ RowOf(i).pos \in 0..MaxPos /\ RowOf(i).token \in Tokens
    BY <1>1, RowOfCell DEF Inv, SlotInv, Slot
  <2>2. \A i \in Kept' : i \in Kept \/ i \in Slot
    BY <1>2 DEF Kept, Held
  <2>3. \A i \in Cells : delta'[i] = 0
    BY NoDeltaWithoutShift
  <2>4. NoToken \notin Tokens
    BY DEF KVAssumption
  <2>5. ASSUME CopiesTied, NEW i \in Kept'
        PROVE  kv'[i].token # NoToken /\ kv'[i].rot + delta'[i] = pos'[i]
    <3>1. i \in Cells
      BY DEF Kept, Held
    <3>2. CASE i \in Slot
      <4>1. kv'[i].token # NoToken /\ kv'[i].rot = pos[i] /\ pos[i] \in Int
        BY <1>1, <2>1, <2>4, <2>5, <3>2, KeysAfterGraph
      <4> QED BY <4>1, <3>1, <2>3, <1>2
    <3>3. CASE i \in Kept
      <4>1. /\ kv[i].token # NoToken /\ kv[i].rot + delta[i] = pos[i]
            /\ i \in Cells \ Slot /\ pos[i] \in Int
        BY <1>1, <2>5, <3>3 DEF Inv, CellsInv, KeysExact, Kept, Held
      <4>2. kv'[i].token = kv[i].token /\ kv'[i].rot = kv[i].rot + delta[i]
        BY <4>1, KeysAfterGraph
      <4> QED BY <4>1, <4>2, <3>1, <2>3, <1>2
    <3> QED BY <2>2, <3>2, <3>3
  <2>6. \A i \in Cells : pos'[i] >= 0 <=> seq_id'[i] # {}
    BY <1>2 DEF Inv, CellsInv
  <2> QED BY <2>3, <2>5, <2>6 DEF CellsInv, KeysExact, CopiesTied
<1> QED
  BY <1>3, <1>4, <1>5 DEF Inv

-----------------------------------------------------------------------------
(* The edits, between two calls of llama_decode.                           *)

\* What an edit has to keep: the types of what it changes, and CellsInv.
LEMMA EditKeepsInv ==
    ASSUME KVAssumption, Inv, Returns,
           has_shift' \in BOOLEAN, head' \in 0..Size,
           pos' \in [Cells -> -1..MaxPos],
           delta' \in [Cells -> Int],
           seq_id' \in [Cells -> SUBSET SeqIds],
           \A i \in Cells : pos'[i] >= 0 <=> seq_id'[i] # {},
           \A i \in Cells : delta'[i] # 0 => has_shift',
           \A i \in Cells : pos'[i] >= 0 =>
              pos[i] >= 0 /\ pos'[i] - delta'[i] = pos[i] - delta[i]
    PROVE  Inv'
<1>1. /\ pc = "ready" /\ UNCHANGED <<kv, lost, pc, batch, n_tested>>
      /\ Size \in Nat \ {0} /\ MaxPos \in Nat
      /\ pos \in [Cells -> -1..MaxPos] /\ delta \in [Cells -> Int]
      /\ kv \in [Cells -> [token : Tokens \cup {NoToken}, rot : Int]]
  BY DEF Returns, callVars, KVAssumption, Inv, TypeOK
<1>2. TypeOK'
  BY <1>1 DEF Inv, TypeOK
<1>3. SearchInv' /\ SlotInv'
  BY <1>1 DEF SearchInv, SlotInv, Slot
<1>4. ASSUME CopiesTied, NEW i \in Kept'
      PROVE  kv'[i].token # NoToken /\ kv'[i].rot + delta'[i] = pos'[i]
  <2>1. i \in Cells /\ pos'[i] >= 0 /\ i \in Kept
    BY <1>1 DEF Kept, Held, Slot
  <2>2. kv[i].token # NoToken /\ kv[i].rot + delta[i] = pos[i]
    BY <1>4, <2>1 DEF Inv, CellsInv, KeysExact
  <2>3. /\ pos[i] \in Int /\ delta[i] \in Int /\ pos'[i] \in Int /\ delta'[i] \in Int
        /\ kv[i].rot \in Int
    BY <1>1, <2>1
  <2>4. pos'[i] - delta'[i] = pos[i] - delta[i]
    BY <2>1
  <2> QED BY <1>1, <2>2, <2>3, <2>4
<1>5. CellsInv'
  BY <1>4 DEF CellsInv, KeysExact, CopiesTied
<1> QED
  BY <1>2, <1>3, <1>5 DEF Inv

\* The facts about the state before an edit that its proof uses.
LEMMA BeforeEdit ==
    ASSUME KVAssumption, Inv
    PROVE  /\ Size \in Nat \ {0} /\ MaxPos \in Nat /\ head \in 0..Size
           /\ has_shift \in BOOLEAN
           /\ pos \in [Cells -> -1..MaxPos] /\ delta \in [Cells -> Int]
           /\ seq_id \in [Cells -> SUBSET SeqIds]
           /\ \A i \in Cells : pos[i] >= 0 <=> seq_id[i] # {}
           /\ \A i \in Cells : delta[i] # 0 => has_shift
           /\ 0 \in 0..Size
BY DEF KVAssumption, Inv, TypeOK, CellsInv

LEMMA ClearKeepsInv ==
    ASSUME KVAssumption, Inv, Clear
    PROVE  Inv'
<1>1. /\ Returns /\ pos' = [i \in Cells |-> -1] /\ seq_id' = [i \in Cells |-> {}]
      /\ head' = 0 /\ has_shift' = has_shift /\ delta' = delta
  BY DEF Clear
<1>2. pos' \in [Cells -> -1..MaxPos] /\ seq_id' \in [Cells -> SUBSET SeqIds]
  BY <1>1, BeforeEdit
<1>3. \A i \in Cells : ~(pos'[i] >= 0) /\ seq_id'[i] = {}
  BY <1>1
<1> QED
  BY <1>1, <1>2, <1>3, BeforeEdit, EditKeepsInv

LEMMA SeqRmKeepsInv ==
    ASSUME KVAssumption, Inv, NEW s, NEW span, SeqRm(s, span)
    PROVE  Inv'
<1> DEFINE hits    == {i \in Cells : InSpan(pos[i], span) /\ Matches(i, s)}
           left(i) == IF s = AnySeq THEN {} ELSE seq_id[i] \ {s}
           freed   == {i \in hits : left(i) = {}}
<1>1. /\ Returns
      /\ seq_id' = [i \in Cells |-> IF i \in hits THEN left(i) ELSE seq_id[i]]
      /\ pos' = [i \in Cells |-> IF i \in freed THEN -1 ELSE pos[i]]
      /\ HeadToFirst(freed, head) /\ has_shift' = has_shift /\ delta' = delta
  BY DEF SeqRm
<1>2. \A i \in hits : i \in Cells /\ pos[i] >= 0
  BY DEF InSpan
<1>3. \A i \in Cells : left(i) \subseteq seq_id[i]
  OBVIOUS
<1>4. freed \in SUBSET Cells /\ \A i \in freed : i \in hits /\ left(i) = {}
  OBVIOUS
<1>5. \A i \in hits : i \notin freed => left(i) # {}
  OBVIOUS
<1> HIDE DEF hits, left, freed
<1>6. head' \in 0..Size
  BY <1>1, <1>4, BeforeEdit, HeadStaysInRing
<1>7. pos' \in [Cells -> -1..MaxPos] /\ seq_id' \in [Cells -> SUBSET SeqIds]
  <2>1. pos' \in [Cells -> -1..MaxPos]
    BY <1>1, BeforeEdit
  <2>2. \A i \in Cells : left(i) \in SUBSET SeqIds
    BY <1>3, BeforeEdit
  <2> QED BY <2>1, <2>2, <1>1, BeforeEdit
<1>8. \A i \in Cells : pos'[i] >= 0 <=> seq_id'[i] # {}
  <2>1. ASSUME NEW i \in Cells PROVE pos'[i] >= 0 <=> seq_id'[i] # {}
    <3>1. CASE i \in freed
      BY <1>1, <1>4, <3>1
    <3>2. CASE i \in hits /\ i \notin freed
      BY <1>1, <1>2, <1>5, <3>2
    <3>3. CASE i \notin hits
      BY <1>1, <1>4, <3>3, BeforeEdit
    <3> QED BY <3>1, <3>2, <3>3
  <2> QED BY <2>1
<1>9. \A i \in Cells : pos'[i] >= 0 => pos'[i] = pos[i]
  BY <1>1
<1> QED
  BY <1>1, <1>6, <1>7, <1>8, <1>9, BeforeEdit, EditKeepsInv

LEMMA SeqCpKeepsInv ==
    ASSUME KVAssumption, Inv, NEW s \in SeqIds, NEW t \in SeqIds, NEW span,
           SeqCp(s, t, span)
    PROVE  Inv'
<1>1. /\ Returns /\ head' = 0 /\ has_shift' = has_shift /\ pos' = pos /\ delta' = delta
      /\ seq_id' = [i \in Cells |->
                      IF s \in seq_id[i] /\ InSpan(pos[i], span)
                        THEN seq_id[i] \cup {t} ELSE seq_id[i]]
  BY DEF SeqCp
<1>2. seq_id' \in [Cells -> SUBSET SeqIds]
  BY <1>1, BeforeEdit
<1>3. \A i \in Cells : seq_id'[i] # {} <=> seq_id[i] # {}
  BY <1>1
<1> QED
  BY <1>1, <1>2, <1>3, BeforeEdit, EditKeepsInv

LEMMA SeqKeepKeepsInv ==
    ASSUME KVAssumption, Inv, NEW s \in SeqIds, SeqKeep(s)
    PROVE  Inv'
<1> DEFINE others == {i \in Cells : s \notin seq_id[i]}
<1>1. /\ Returns
      /\ pos' = [i \in Cells |-> IF i \in others THEN -1 ELSE pos[i]]
      /\ seq_id' = [i \in Cells |-> IF i \in others THEN {} ELSE {s}]
      /\ HeadToFirst(others, head) /\ has_shift' = has_shift /\ delta' = delta
  BY DEF SeqKeep
<1>2. others \in SUBSET Cells /\ \A i \in Cells : i \notin others => seq_id[i] # {}
  OBVIOUS
<1> HIDE DEF others
<1>3. head' \in 0..Size
  BY <1>1, <1>2, BeforeEdit, HeadStaysInRing
<1>4. pos' \in [Cells -> -1..MaxPos] /\ seq_id' \in [Cells -> SUBSET SeqIds]
  BY <1>1, BeforeEdit
<1>5. \A i \in Cells : pos'[i] >= 0 <=> seq_id'[i] # {}
  BY <1>1, <1>2, BeforeEdit
<1>6. \A i \in Cells : pos'[i] >= 0 => pos'[i] = pos[i]
  BY <1>1
<1> QED
  BY <1>1, <1>3, <1>4, <1>5, <1>6, BeforeEdit, EditKeepsInv

LEMMA SeqShiftKeepsInv ==
    ASSUME KVAssumption, Inv, NEW s \in SeqIds, NEW span, NEW d \in Deltas,
           SeqShift(s, span, d)
    PROVE  Inv'
<1> DEFINE hits  == {i \in Cells : s \in seq_id[i] /\ InSpan(pos[i], span)}
           freed == {i \in hits : pos[i] + d < 0}
<1>0. d \in Int
  BY DEF KVAssumption
<1>1. /\ Returns
      /\ \A i \in hits : pos[i] + d <= MaxPos
      /\ has_shift' = (has_shift \/ hits # {})
      /\ pos' = [i \in Cells |->
                   IF i \in freed THEN -1
                   ELSE IF i \in hits THEN pos[i] + d ELSE pos[i]]
      /\ delta' = [i \in Cells |-> IF i \in hits THEN delta[i] + d ELSE delta[i]]
      /\ seq_id' = [i \in Cells |-> IF i \in freed THEN {} ELSE seq_id[i]]
      /\ HeadToFirst(freed, 0)
  BY DEF SeqShift
<1>2. \A i \in hits : i \in Cells /\ seq_id[i] # {} /\ pos[i] >= 0
  BY DEF InSpan
<1>3. freed \in SUBSET Cells /\ freed \subseteq hits
  OBVIOUS
<1>4. \A i \in hits : i \notin freed => pos[i] + d >= 0
  BY <1>0, BeforeEdit
<1> HIDE DEF hits, freed
<1>5. head' \in 0..Size
  BY <1>1, <1>3, BeforeEdit, HeadStaysInRing
<1>6. has_shift' \in BOOLEAN /\ delta' \in [Cells -> Int] /\ seq_id' \in [Cells -> SUBSET SeqIds]
  <2>1. has_shift' \in BOOLEAN
    BY <1>1
  <2>2. delta' \in [Cells -> Int]
    BY <1>0, <1>1, BeforeEdit
  <2>3. seq_id' \in [Cells -> SUBSET SeqIds]
    BY <1>1, BeforeEdit
  <2> QED BY <2>1, <2>2, <2>3
<1>7. pos' \in [Cells -> -1..MaxPos]
  <2>1. \A i \in hits : i \notin freed => pos[i] + d \in -1..MaxPos
    BY <1>0, <1>1, <1>2, <1>4, BeforeEdit
  <2> QED BY <2>1, <1>1, BeforeEdit
<1>8. \A i \in Cells : pos'[i] >= 0 <=> seq_id'[i] # {}
  <2>1. ASSUME NEW i \in Cells PROVE pos'[i] >= 0 <=> seq_id'[i] # {}
    <3>1. CASE i \in freed
      BY <1>1, <3>1
    <3>2. CASE i \in hits /\ i \notin freed
      BY <1>1, <1>2, <1>4, <3>2
    <3>3. CASE i \notin hits
      BY <1>1, <1>3, <3>3, BeforeEdit
    <3> QED BY <3>1, <3>2, <3>3
  <2> QED BY <2>1
<1>9. \A i \in Cells : delta'[i] # 0 => has_shift'
  BY <1>1, BeforeEdit
<1>10. ASSUME NEW i \in Cells, pos'[i] >= 0
       PROVE  pos[i] >= 0 /\ pos'[i] - delta'[i] = pos[i] - delta[i]
  <2>1. pos[i] \in Int /\ delta[i] \in Int
    BY BeforeEdit
  <2>2. i \notin freed
    BY <1>1, <1>10
  <2>3. CASE i \in hits
    BY <1>0, <1>1, <1>2, <2>1, <2>2, <2>3
  <2>4. CASE i \notin hits
    BY <1>1, <1>10, <2>1, <2>2, <2>4
  <2> QED BY <2>3, <2>4
<1> QED
  BY <1>1, <1>5, <1>6, <1>7, <1>8, <1>9, <1>10, EditKeepsInv

\* A restart may lose keys and shifts, but those of the cells it adds to lost.
LEMMA ResumeKeepsInv ==
    ASSUME KVAssumption, Inv, Resume
    PROVE  Inv'
<1>1. /\ pc = "ready"
      /\ kv' = [i \in Cells |-> IF i < head THEN kv[i] ELSE Blank]
      /\ has_shift' = FALSE /\ delta' = [i \in Cells |-> 0]
      /\ lost' = {i \in lost : pos[i] >= 0} \cup LeftOut
      /\ UNCHANGED <<head, pos, seq_id, pc, batch, n_tested>>
  BY DEF Resume, callVars
<1>2. TypeOK'
  <2>1. kv' \in [Cells -> [token : Tokens \cup {NoToken}, rot : Int]]
    BY <1>1 DEF Inv, TypeOK, Blank
  <2>2. delta' \in [Cells -> Int]
    BY <1>1
  <2>3. has_shift' \in BOOLEAN
    BY <1>1
  <2>4. n_tokens' = n_tokens
    BY <1>1 DEF n_tokens
  <2>5. lost' \subseteq Cells
    BY <1>1 DEF Inv, TypeOK, LeftOut
  <2> QED BY <1>1, <2>1, <2>2, <2>3, <2>4, <2>5 DEF Inv, TypeOK
<1>3. SearchInv' /\ SlotInv'
  BY <1>1 DEF SearchInv, SlotInv, Slot
<1>4. ASSUME CopiesTied, NEW i \in Kept'
      PROVE  kv'[i].token # NoToken /\ kv'[i].rot + delta'[i] = pos'[i]
  <2>1. i \in Cells /\ pos[i] >= 0 /\ i \in Kept /\ i \notin LeftOut
    BY <1>1 DEF Kept, Held, Slot
  <2>2. i < head /\ delta[i] = 0
    <3>1. i \in Nat /\ head \in Nat /\ ~(i >= head) /\ ~(delta[i] # 0)
      BY <2>1, BeforeEdit DEF LeftOut, Cells
    <3> QED BY <3>1
  <2>3. kv[i].token # NoToken /\ kv[i].rot + delta[i] = pos[i]
    BY <1>4, <2>1 DEF Inv, CellsInv, KeysExact
  <2>4. kv'[i] = kv[i] /\ delta'[i] = 0 /\ pos'[i] = pos[i]
    BY <1>1, <2>1, <2>2
  <2> QED BY <2>2, <2>3, <2>4
<1>5. CellsInv'
  BY <1>1, <1>4, BeforeEdit DEF CellsInv, KeysExact, CopiesTied
<1> QED
  BY <1>2, <1>3, <1>5 DEF Inv

LEMMA TooLargeKeepsInv ==
    ASSUME KVAssumption, Inv, NEW b, TooLarge(b)
    PROVE  Inv'
BY DEF TooLarge, metaVars, callVars, Inv, TypeOK, SearchInv, Bad, IsFree, CellsInv,
       KeysExact, CopiesTied, Kept, Held, SlotInv, Slot, RowOf, n_tokens

LEMMA StutterKeepsInv ==
    ASSUME Inv, UNCHANGED vars
    PROVE  Inv'
BY DEF vars, metaVars, callVars, Inv, TypeOK, SearchInv, Bad, IsFree, CellsInv,
       KeysExact, CopiesTied, Kept, Held, SlotInv, Slot, RowOf, n_tokens

LEMMA NextKeepsInv ==
    ASSUME KVAssumption, Inv, [Next]_vars
    PROVE  Inv'
<1>1. ASSUME NEW b \in Batches, TooLarge(b) \/ Decode(b) PROVE Inv'
  BY <1>1, TooLargeKeepsInv, DecodeKeepsInv
<1>2. CASE Search
  <2>1. CASE Wrap \/ \E k \in 0..(n_tokens - 1) : Skip(k)
    BY <2>1, SearchKeepsInv
  <2>2. ASSUME NEW k \in 0..(n_tokens - 1), Fail(k) PROVE Inv'
    BY <2>2, FailKeepsInv
  <2>3. CASE Found
    BY <2>3, FoundKeepsInv
  <2> QED BY <1>2, <2>1, <2>2, <2>3 DEF Search
<1>3. CASE Compute
  BY <1>3, ComputeKeepsInv
<1>4. CASE Edit
  <2>1. CASE Clear
    BY <2>1, ClearKeepsInv
  <2>2. ASSUME NEW s \in SeqIds \cup {AnySeq}, NEW span \in Spans, SeqRm(s, span) PROVE Inv'
    BY <2>2, SeqRmKeepsInv
  <2>3. ASSUME NEW s \in SeqIds, NEW t \in SeqIds, NEW span \in Spans, SeqCp(s, t, span)
        PROVE  Inv'
    BY <2>3, SeqCpKeepsInv
  <2>4. ASSUME NEW s \in SeqIds, SeqKeep(s) PROVE Inv'
    BY <2>4, SeqKeepKeepsInv
  <2>5. ASSUME NEW s \in SeqIds, NEW span \in Spans, NEW d \in Deltas, SeqShift(s, span, d)
        PROVE  Inv'
    BY <2>5, SeqShiftKeepsInv
  <2> QED BY <1>4, <2>1, <2>2, <2>3, <2>4, <2>5 DEF Edit
<1>5. CASE Resume
  BY <1>5, ResumeKeepsInv
<1>6. CASE UNCHANGED vars
  BY <1>6, StutterKeepsInv
<1> QED
  BY <1>1, <1>2, <1>3, <1>4, <1>5, <1>6 DEF Next

LEMMA InvHolds == Spec => []Inv
<1>1. Init => Inv
  BY InitInv, KVAssumptionHolds
<1>2. Inv /\ [Next]_vars => Inv'
  BY NextKeepsInv, KVAssumptionHolds
<1> QED
  BY <1>1, <1>2, PTL DEF Spec

\* The fields of the cells, the counters and the batch keep their types.
THEOREM TypeCorrect == Spec => []TypeOK
<1>1. Inv => TypeOK
  BY DEF Inv
<1> QED
  BY InvHolds, <1>1, PTL

\* Where the builder ties the copies, the key of every token that no save has
\* left out is rotated to the token's position but for its pending shift, in
\* every reachable state of every cache; and no cell is freed in one field and
\* kept in another.
THEOREM CellsStayExact ==
    ASSUME CopiesTied
    PROVE  Spec => []CellsExact
<1>1. Inv => CellsExact
  BY DEF Inv, CellsInv, KeysExact, CellsExact
<1> QED
  BY InvHolds, <1>1, PTL

\* Whatever the size of the ring, of the batch, and wherever the search
\* begins: find_slot gives up only if the ring has no run that is free.
THEOREM SearchIsComplete == Spec => FailsOnlyWhenFull
<1>1. ASSUME Inv, [Next]_vars
      PROVE  [pc = "search" /\ pc' = "ready" => ~RoomFor(n_tokens)]_vars
  <2> SUFFICES ASSUME Next, pc = "search", pc' = "ready" PROVE ~RoomFor(n_tokens)
    BY <1>1 DEF vars
  <2>1. \E k \in 0..(n_tokens - 1) : Fail(k)
    BY DEF Next, Search, TooLarge, Decode, Wrap, Skip, Found, FirstUsed, Compute, Edit,
           Clear, SeqRm, SeqCp, SeqKeep, SeqShift, Returns, Resume
  <2> QED BY <1>1, <2>1, FailMeansFull, KVAssumptionHolds DEF Inv
<1> QED
  BY InvHolds, <1>1, PTL DEF Spec, FailsOnlyWhenFull

-----------------------------------------------------------------------------
(* The cache implements the store of tokens.                               *)

\* The tokens of the store are in the cells that hold one and are not lost.
EntriesShape ==
    /\ DOMAIN Entries = Cells
    /\ \A i \in Kept :
         /\ i \in Cells /\ Entries[i] # Free
         /\ Entries[i] = [token |-> kv[i].token, pos |-> pos[i], seqs |-> seq_id[i]]
    /\ \A i \in Cells \ Kept : Entries[i] = Free
    /\ Store!Used = Kept

LEMMA EntriesHaveShape == Inv => EntriesShape
<1> SUFFICES ASSUME Inv PROVE EntriesShape
  OBVIOUS
<1>1. DOMAIN Entries = Cells
  BY DEF Entries
<1>2. ASSUME NEW i \in Kept
      PROVE  /\ i \in Cells /\ Entries[i] # Free
             /\ Entries[i] = [token |-> kv[i].token, pos |-> pos[i], seqs |-> seq_id[i]]
  <2>1. i \in Cells
    BY DEF Kept, Held
  <2>2. Entries[i] = [token |-> kv[i].token, pos |-> pos[i], seqs |-> seq_id[i]]
    BY <2>1 DEF Entries
  <2>3. /\ kv[i].token \in Tokens \cup {NoToken}
        /\ pos[i] \in Int /\ seq_id[i] \in SUBSET SeqIds
    BY <2>1, BeforeEdit, KVAssumptionHolds DEF Inv, TypeOK
  <2>4. Entries[i] \in [token : Tokens \cup {NoToken}, pos : Int, seqs : SUBSET SeqIds]
    BY <2>2, <2>3
  <2>5. Free \notin [token : Tokens \cup {NoToken}, pos : Int, seqs : SUBSET SeqIds]
    BY KVAssumptionHolds DEF KVAssumption
  <2> QED BY <2>1, <2>2, <2>4, <2>5
<1>3. \A i \in Cells \ Kept : Entries[i] = Free
  BY DEF Entries
<1>4. Store!Used = Kept
  <2>1. Store!Used = {i \in Cells : Entries[i] # Free}
    BY DEF Store!Used
  <2>2. Kept \subseteq Cells
    BY DEF Kept, Held
  <2> QED BY <1>2, <1>3, <2>1, <2>2
<1> QED
  BY <1>1, <1>2, <1>3, <1>4 DEF EntriesShape

LEMMA EntriesHaveShapeNext == Inv' => EntriesShape'
BY EntriesHaveShape, PTL

\* The store changes by what the cells that hold a token change.
LEMMA SameEntries ==
    ASSUME Kept' = Kept,
           \A i \in Kept : /\ kv'[i].token = kv[i].token
                           /\ pos'[i] = pos[i] /\ seq_id'[i] = seq_id[i]
    PROVE  Entries' = Entries
BY DEF Entries

\* When nothing is attended, nothing is shown.
LEMMA NothingShown == attended = <<>> => Shown = <<>>
<1> SUFFICES ASSUME attended = <<>> PROVE Shown = <<>>
  OBVIOUS
<1>1. DOMAIN attended = {}
  OBVIOUS
<1>2. Shown = [j \in {} |-> {e \in attended[j] : e.slot \notin lost}]
  BY <1>1 DEF Shown
<1>3. Shown \in [1..0 -> {}]
  BY <1>2
<1> QED
  BY <1>3

LEMMA NothingShownNext == attended' = <<>> => Shown' = <<>>
<1> DEFINE Idle == attended = <<>> => Shown = <<>>
<1>1. Idle
  BY NothingShown
<1> HIDE DEF Idle
<1>2. Idle'
  BY <1>1, PTL
<1> QED
  BY <1>2 DEF Idle

\* A call that changes no token: the store only forgets what was attended.
LEMMA CallsAreTakes ==
    ASSUME KVAssumption, Inv, NEW b, TooLarge(b) \/ Decode(b)
    PROVE  Store!Take
<1>1. /\ pc = "ready" /\ pc' # "compute" /\ attended' = <<>>
      /\ UNCHANGED <<kv, lost, pos, seq_id>>
  BY DEF TooLarge, Decode, metaVars, callVars
<1>2. Kept' = Kept
  BY <1>1 DEF Kept, Held, Slot
<1>3. Entries' = Entries
  BY <1>1, <1>2, SameEntries
<1> QED
  BY <1>1, <1>3, NothingShownNext DEF Store!Take

\* While find_slot searches nothing is attended, and what it changes is free.
LEMMA SearchIsHidden ==
    ASSUME KVAssumption, Inv, Search
    PROVE  Entries' = Entries /\ Shown' = Shown
<1>1. CASE Wrap \/ \E k \in 0..(n_tokens - 1) : Skip(k) \/ Fail(k)
  <2>1. /\ pc = "search" /\ pc' # "compute"
        /\ UNCHANGED <<kv, lost, pos, seq_id, attended>>
    BY <1>1 DEF Wrap, Skip, Fail, FirstUsed
  <2>2. Kept' = Kept
    BY <2>1 DEF Kept, Held, Slot
  <2>3. Shown' = Shown
    BY <2>1 DEF Shown
  <2> QED BY <2>1, <2>2, <2>3, SameEntries
<1>2. CASE Found
  <2>1. /\ Kept' = Kept /\ UNCHANGED <<kv, attended>>
        /\ \A i \in Kept : pos'[i] = pos[i] /\ seq_id'[i] = seq_id[i]
    BY <1>2, FoundKeepsHeld DEF Kept
  <2>2. attended = <<>> /\ attended' = <<>>
    BY <1>2, <2>1 DEF Inv, SlotInv, Found
  <2>3. Shown' = Shown
    BY <2>2, NothingShown, NothingShownNext
  <2> QED BY <2>1, <2>3, SameEntries
<1> QED
  BY <1>1, <1>2 DEF Search

\* What a row attends through its mask in cells that are not lost is what it
\* attends in the store.
LEMMA MaskIsAttention ==
    ASSUME KVAssumption, CopiesTied, Inv, Inv', Compute, NEW m \in 0..Size, CellMax(m),
           NEW row
    PROVE  {[slot |-> i, token |-> kv'[i].token, pos |-> kv'[i].rot] :
              i \in Unmasked(row, NKv(m)) \ lost} = Store!Attends(Entries', row)
<1> DEFINE seen == {j \in Cells : /\ Entries'[j] # Free
                                  /\ row.seq \in Entries'[j].seqs
                                  /\ Entries'[j].pos <= row.pos}
<1>1. pos' = pos /\ seq_id' = seq_id /\ lost' = lost /\ pc' = "ready"
  BY DEF Compute
<1>2. \A i \in Cells : delta'[i] = 0
  BY NoDeltaWithoutShift
<1>3. \A i \in Cells : i \in Kept' <=> pos[i] >= 0 /\ i \notin lost
  BY <1>1 DEF Kept, Held, Slot
<1>4. \A i \in Kept' :
        /\ i \in Cells /\ Entries'[i] # Free
        /\ Entries'[i].token = kv'[i].token
        /\ Entries'[i].pos = pos[i] /\ Entries'[i].seqs = seq_id[i]
  <2>1. \A i \in Kept' :
          /\ i \in Cells /\ Entries'[i] # Free
          /\ Entries'[i] = [token |-> kv'[i].token, pos |-> pos[i], seqs |-> seq_id[i]]
    BY <1>1, EntriesHaveShapeNext DEF EntriesShape
  <2>2. ASSUME NEW i \in Kept'
        PROVE  /\ Entries'[i].token = kv'[i].token
               /\ Entries'[i].pos = pos[i] /\ Entries'[i].seqs = seq_id[i]
    <3>1. Entries'[i] = [token |-> kv'[i].token, pos |-> pos[i], seqs |-> seq_id[i]]
      BY <2>1
    <3> QED BY <3>1
  <2> QED BY <2>1, <2>2
<1>5. \A i \in Cells \ Kept' : Entries'[i] = Free
  BY EntriesHaveShapeNext DEF EntriesShape
<1>6. \A i \in Kept' : kv'[i].rot = pos[i]
  <2>1. ASSUME NEW i \in Kept' PROVE kv'[i].rot = pos[i]
    <3>1. kv'[i].rot + delta'[i] = pos'[i] /\ i \in Cells
      BY <1>4 DEF Inv, CellsInv, KeysExact, CopiesTied
    <3>2. kv'[i].rot \in Int
      BY <3>1 DEF Inv, TypeOK
    <3> QED BY <1>1, <1>2, <3>1, <3>2
  <2> QED BY <2>1
<1>7. Unmasked(row, NKv(m)) \ lost = seen
  <2>1. ASSUME NEW i \in Unmasked(row, NKv(m)) \ lost PROVE i \in seen
    <3>1. i \in Cells /\ row.seq \in seq_id[i] /\ pos[i] <= row.pos /\ i \notin lost
      BY DEF Unmasked
    <3>2. i \in Kept'
      BY <3>1, <1>3, BeforeEdit
    <3>3. /\ Entries'[i] # Free /\ Entries'[i].pos = pos[i]
          /\ Entries'[i].seqs = seq_id[i]
      BY <3>2, <1>4
    <3> QED BY <3>1, <3>3
  <2>2. ASSUME NEW i \in seen PROVE i \in Unmasked(row, NKv(m)) \ lost
    <3>1. i \in Kept'
      BY <1>5
    <3>2. i \in Cells /\ row.seq \in seq_id[i] /\ pos[i] <= row.pos
          /\ pos[i] >= 0 /\ i \notin lost
      <4>1. i \in Cells /\ row.seq \in Entries'[i].seqs /\ Entries'[i].pos <= row.pos
        OBVIOUS
      <4>2. Entries'[i].pos = pos[i] /\ Entries'[i].seqs = seq_id[i]
        BY <3>1, <1>4
      <4> QED BY <4>1, <4>2, <3>1, <1>3
    <3>3. InUse(i)
      BY <3>2 DEF InUse
    <3>4. i < NKv(m)
      BY <3>2, <3>3, AttendedCoversUse
    <3> QED BY <3>2, <3>4 DEF Unmasked
  <2> QED BY <2>1, <2>2
<1>8. \A i \in seen : Entries'[i].token = kv'[i].token /\ Entries'[i].pos = kv'[i].rot
  <2>1. \A i \in seen : i \in Cells /\ Entries'[i] # Free
    OBVIOUS
  <2>2. \A i \in seen : i \in Kept'
    BY <2>1, <1>5
  <2> HIDE DEF seen
  <2> QED BY <2>2, <1>4, <1>6
<1>9. Store!Attends(Entries', row)
        = {[slot |-> i, token |-> Entries'[i].token, pos |-> Entries'[i].pos] : i \in seen}
  BY DEF Store!Attends
<1> QED
  BY <1>7, <1>8, <1>9

\* Computing the graph of a batch is decoding it into the run that find_slot
\* has found.
LEMMA ComputeIsDecode ==
    ASSUME KVAssumption, CopiesTied, Inv, Inv', Compute
    PROVE  Store!Decode(batch)
<1> DEFINE place == [i \in Slot |-> i - head + 1]
<1>1. /\ Size \in Nat \ {0} /\ head \in 0..Size /\ batch \in Batches
      /\ n_tokens \in Nat \ {0} /\ n_tokens = Len(batch)
      /\ pc = "compute" /\ head + n_tokens <= Size
      /\ pc' = "ready" /\ pos' = pos /\ seq_id' = seq_id /\ lost' = lost
      /\ Slot = head..(head + n_tokens - 1)
  BY BatchShape DEF Inv, TypeOK, KVAssumption, n_tokens, Compute, Slot
<1>2. Shown' = [j \in 1..Len(batch) |-> Store!Attends(Entries', batch[j])]
  <2>1. PICK m \in 0..Size :
          /\ CellMax(m)
          /\ attended' = [j \in 1..n_tokens |->
                            {[slot |-> i, token |-> kv'[i].token, pos |-> kv'[i].rot] :
                                i \in Unmasked(batch[j], NKv(m))}]
    BY DEF Compute
  <2>2. Shown' = [j \in 1..n_tokens |-> {e \in attended'[j] : e.slot \notin lost}]
    <3>1. DOMAIN attended' = 1..n_tokens
      BY <2>1
    <3>2. Shown' = [j \in DOMAIN attended' |-> {e \in attended'[j] : e.slot \notin lost'}]
      BY DEF Shown
    <3> QED BY <1>1, <3>1, <3>2
  <2>3. ASSUME NEW j \in 1..n_tokens
        PROVE  {e \in attended'[j] : e.slot \notin lost} = Store!Attends(Entries', batch[j])
    <3> DEFINE entry(i) == [slot |-> i, token |-> kv'[i].token, pos |-> kv'[i].rot]
    <3>1. attended'[j] = {entry(i) : i \in Unmasked(batch[j], NKv(m))}
      BY <2>1
    <3>2. \A i : entry(i).slot = i
      OBVIOUS
    <3>3. Store!Attends(Entries', batch[j])
            = {entry(i) : i \in Unmasked(batch[j], NKv(m)) \ lost}
      BY <2>1, MaskIsAttention
    <3> HIDE DEF entry
    <3> QED BY <3>1, <3>2, <3>3
  <2> QED BY <1>1, <2>2, <2>3
<1>3. Slot \in SUBSET (Cells \ Kept) /\ Store!Used = Kept
  <2>1. Slot \subseteq Cells
    BY <1>1 DEF Cells
  <2> QED BY <2>1, EntriesHaveShape DEF Kept, Held, EntriesShape
<1>4. \A i \in Slot : place[i] \in 1..Len(batch) /\ RowOf(i) = batch[place[i]]
  BY <1>1 DEF RowOf
<1>5. \A j \in 1..Len(batch) : \E i \in Slot : place[i] = j
  <2>1. ASSUME NEW j \in 1..Len(batch) PROVE \E i \in Slot : place[i] = j
    <3>1. head + j - 1 \in Slot
      BY <1>1
    <3>2. place[head + j - 1] = j
      BY <1>1, <3>1
    <3> QED BY <3>1, <3>2
  <2> QED BY <2>1
<1>6. \A i, k \in Slot : place[i] = place[k] => i = k
  BY <1>1
<1>7. \A i \in Cells : i \in Kept' <=> i \in Kept \/ i \in Slot
  <2>1. \A i \in Slot : pos[i] >= 0
    <3>1. ASSUME NEW i \in Slot PROVE pos[i] >= 0
      <4>1. pos[i] = RowOf(i).pos /\ RowOf(i).pos \in 0..MaxPos
        BY <1>1, RowOfCell DEF Inv, SlotInv
      <4>2. MaxPos \in Nat
        BY DEF KVAssumption
      <4> QED BY <4>1, <4>2
    <3> QED BY <3>1
  <2>2. Kept' = {i \in Cells : pos[i] >= 0} \ lost
    BY <1>1 DEF Kept, Held, Slot
  <2>3. \A i \in Slot : i \notin lost
    BY DEF Inv, SlotInv
  <2> QED BY <2>1, <2>2, <2>3 DEF Kept, Held
<1>8. \A i \in Cells :
        Entries'[i] = IF i \in Slot
                        THEN [token |-> batch[place[i]].token,
                              pos   |-> batch[place[i]].pos,
                              seqs  |-> batch[place[i]].seqs]
                        ELSE Entries[i]
  <2>1. ASSUME NEW i \in Slot
        PROVE  Entries'[i] = [token |-> batch[place[i]].token,
                              pos   |-> batch[place[i]].pos,
                              seqs  |-> batch[place[i]].seqs]
    <3>1. Entries'[i] = [token |-> kv'[i].token, pos |-> pos[i], seqs |-> seq_id[i]]
      BY <1>1, <1>3, <1>7, EntriesHaveShapeNext DEF EntriesShape
    <3>2. kv'[i].token = RowOf(i).token /\ pos[i] = RowOf(i).pos /\ seq_id[i] = RowOf(i).seqs
      BY KeysAfterGraph DEF Inv, SlotInv
    <3> QED BY <3>1, <3>2, <1>4
  <2>2. ASSUME NEW i \in Kept PROVE Entries'[i] = Entries[i]
    <3>1. i \in Kept' /\ i \in Cells \ Slot
      BY <1>7 DEF Kept, Held
    <3>2. kv'[i].token = kv[i].token
      BY <3>1, KeysAfterGraph
    <3> QED BY <3>1, <3>2, <1>1, EntriesHaveShape, EntriesHaveShapeNext DEF EntriesShape
  <2>3. ASSUME NEW i \in Cells, i \notin Slot, i \notin Kept PROVE Entries'[i] = Entries[i]
    BY <2>3, <1>7, EntriesHaveShape, EntriesHaveShapeNext DEF EntriesShape
  <2> QED BY <2>1, <2>2, <2>3, <1>3
<1>9. Entries' = [i \in Cells |->
                    IF i \in Slot
                      THEN [token |-> batch[place[i]].token,
                            pos   |-> batch[place[i]].pos,
                            seqs  |-> batch[place[i]].seqs]
                      ELSE Entries[i]]
  BY <1>8 DEF Entries
<1>10. place \in [Slot -> 1..Len(batch)] /\ DOMAIN place = Slot
  BY <1>4
<1> HIDE DEF place
<1>11. Store!Fill(batch, place)
  BY <1>3, <1>5, <1>6, <1>9, <1>10 DEF Store!Fill
<1> QED
  BY <1>2, <1>3, <1>10, <1>11 DEF Store!Decode

\* What an edit does to the store: it forgets what was attended, keeps the
\* tokens of the cells that stay in use, and frees the others.
LEMMA EntriesAfterEdit ==
    ASSUME KVAssumption, Inv, Inv', Returns
    PROVE  /\ Shown' = <<>>
           /\ Kept = {i \in Cells : pos[i] >= 0} \ lost
           /\ Kept' = {i \in Cells : pos'[i] >= 0} \ lost
           /\ \A i \in Kept :
                /\ Entries[i].token = kv[i].token
                /\ Entries[i].pos = pos[i] /\ Entries[i].seqs = seq_id[i]
                /\ Entries[i] # Free
                /\ Entries[i] = [token |-> kv[i].token, pos |-> pos[i], seqs |-> seq_id[i]]
           /\ \A i \in Cells \ Kept : Entries[i] = Free
           /\ \A i \in Kept' :
                Entries'[i] = [token |-> kv[i].token, pos |-> pos'[i], seqs |-> seq_id'[i]]
           /\ \A i \in Cells \ Kept' : Entries'[i] = Free
           /\ Entries' = [i \in Cells |-> Entries'[i]]
           /\ Store!Used = Kept
           /\ \A i \in Cells : pos[i] >= 0 <=> seq_id[i] # {}
           /\ \A i \in Cells : pos'[i] >= 0 <=> seq_id'[i] # {}
           /\ pos \in [Cells -> -1..MaxPos] /\ MaxPos \in Nat
<1>1. attended' = <<>> /\ kv' = kv /\ lost' = lost /\ pc = "ready" /\ pc' = "ready"
  BY DEF Returns, callVars
<1>2. /\ Kept = {i \in Cells : pos[i] >= 0} \ lost
      /\ Kept' = {i \in Cells : pos'[i] >= 0} \ lost
  BY <1>1 DEF Kept, Held, Slot
<1>3. ASSUME NEW i \in Kept
      PROVE  /\ Entries[i].token = kv[i].token
             /\ Entries[i].pos = pos[i] /\ Entries[i].seqs = seq_id[i]
             /\ Entries[i] # Free
             /\ Entries[i] = [token |-> kv[i].token, pos |-> pos[i], seqs |-> seq_id[i]]
  <2>1. /\ Entries[i] = [token |-> kv[i].token, pos |-> pos[i], seqs |-> seq_id[i]]
        /\ Entries[i] # Free
    BY EntriesHaveShape DEF EntriesShape
  <2> QED BY <2>1
<1>4. \A i \in Cells \ Kept : Entries[i] = Free
  BY EntriesHaveShape DEF EntriesShape
<1>5. \A i \in Kept' :
        Entries'[i] = [token |-> kv[i].token, pos |-> pos'[i], seqs |-> seq_id'[i]]
  BY <1>1, EntriesHaveShapeNext DEF EntriesShape
<1>6. \A i \in Cells \ Kept' : Entries'[i] = Free
  BY EntriesHaveShapeNext DEF EntriesShape
<1>7. Entries' = [i \in Cells |-> Entries'[i]]
  BY DEF Entries
<1>8. Store!Used = Kept
  BY EntriesHaveShape DEF EntriesShape
<1>9. /\ \A i \in Cells : pos[i] >= 0 <=> seq_id[i] # {}
      /\ \A i \in Cells : pos'[i] >= 0 <=> seq_id'[i] # {}
      /\ pos \in [Cells -> -1..MaxPos] /\ MaxPos \in Nat
  BY DEF Inv, CellsInv, TypeOK, KVAssumption
<1> QED
  BY <1>1, <1>2, <1>3, <1>4, <1>5, <1>6, <1>7, <1>8, <1>9, NothingShownNext

LEMMA ClearClears ==
    ASSUME KVAssumption, Inv, Inv', Clear
    PROVE  Store!Clear
<1>1. Returns /\ \A i \in Cells : ~(pos'[i] >= 0)
  BY DEF Clear
<1>2. \A i \in Cells : Entries'[i] = Free
  BY <1>1, EntriesAfterEdit
<1> QED
  BY <1>1, <1>2, EntriesAfterEdit DEF Store!Clear

\* The cells of s with positions in span, in the cache and in the store, which
\* does not know those that are lost.
LEMMA HitsAgree ==
    ASSUME KVAssumption, Inv, Inv', Returns, NEW s, NEW span
    PROVE  /\ Store!Hits(s, span)
                = {i \in Cells : InSpan(pos[i], span) /\ Matches(i, s)} \ lost
           /\ Store!Hits(s, span) \subseteq Kept
<1>1. \A p : Store!InSpan(p, span) <=> InSpan(p, span)
  BY DEF Store!InSpan, InSpan
<1>2. \A i \in Cells : InSpan(pos[i], span) /\ i \notin lost => i \in Kept
  BY EntriesAfterEdit DEF InSpan
<1>3. \A i \in Kept : /\ i \in Cells /\ i \notin lost
                      /\ Entries[i].pos = pos[i] /\ Entries[i].seqs = seq_id[i]
  BY EntriesAfterEdit
<1>4. Store!Hits(s, span) =
        {i \in Kept : InSpan(Entries[i].pos, span) /\ (s = AnySeq \/ s \in Entries[i].seqs)}
  BY <1>1, EntriesAfterEdit DEF Store!Hits
<1> QED
  BY <1>2, <1>3, <1>4 DEF Matches

\* The tokens before and after an edit, by the fields of the cells.
LEMMA EntriesByFields ==
    ASSUME KVAssumption, Inv, Inv', Returns, NEW i \in Cells
    PROVE  /\ Entries[i] = IF i \in lost \/ seq_id[i] = {} THEN Free
                           ELSE [token |-> kv[i].token, pos |-> pos[i], seqs |-> seq_id[i]]
           /\ Entries'[i] = IF i \in lost \/ seq_id'[i] = {} THEN Free
                            ELSE [token |-> kv[i].token, pos |-> pos'[i], seqs |-> seq_id'[i]]
           /\ i \in Kept <=> i \notin lost /\ seq_id[i] # {}
<1>1. i \in Kept <=> i \notin lost /\ seq_id[i] # {}
  BY EntriesAfterEdit
<1>2. i \in Kept' <=> i \notin lost /\ seq_id'[i] # {}
  BY EntriesAfterEdit
<1> QED
  BY <1>1, <1>2, EntriesAfterEdit

LEMMA SeqRmRemoves ==
    ASSUME KVAssumption, Inv, Inv', NEW s, NEW span, SeqRm(s, span)
    PROVE  Store!SeqRm(s, span)
<1> DEFINE hits    == {i \in Cells : InSpan(pos[i], span) /\ Matches(i, s)}
           left(i) == IF s = AnySeq THEN {} ELSE seq_id[i] \ {s}
           freed   == {i \in hits : left(i) = {}}
           after(i) == IF i \in Store!Hits(s, span)
                         THEN Store!Entry(Entries[i].token, Entries[i].pos,
                                IF s = AnySeq THEN {} ELSE Entries[i].seqs \ {s})
                         ELSE Entries[i]
<1>1. /\ Returns
      /\ seq_id' = [i \in Cells |-> IF i \in hits THEN left(i) ELSE seq_id[i]]
      /\ pos' = [i \in Cells |-> IF i \in freed THEN -1 ELSE pos[i]]
  BY DEF SeqRm
<1>2. Store!Hits(s, span) = hits \ lost /\ hits \ lost \subseteq Kept
  BY <1>1, HitsAgree
<1>3. ASSUME NEW i \in Cells PROVE Entries'[i] = after(i)
  <2>1. CASE i \in hits /\ i \notin lost
    <3>1. i \in Kept /\ seq_id'[i] = left(i)
      BY <1>1, <1>2, <2>1
    <3>2. /\ Entries[i].token = kv[i].token /\ Entries[i].pos = pos[i]
          /\ Entries[i].seqs = seq_id[i]
      BY <3>1, <1>1, EntriesAfterEdit
    <3>3. after(i) = IF left(i) = {} THEN Free
                     ELSE [token |-> kv[i].token, pos |-> pos[i], seqs |-> left(i)]
      BY <1>2, <2>1, <3>2 DEF Store!Entry
    <3>4. left(i) # {} => pos'[i] = pos[i]
      BY <1>1
    <3> QED BY <3>1, <3>3, <3>4, <1>1, EntriesByFields
  <2>2. CASE i \notin hits
    <3>1. seq_id'[i] = seq_id[i] /\ pos'[i] = pos[i]
      BY <1>1, <2>2
    <3> QED BY <1>1, <1>2, <2>2, <3>1, EntriesByFields
  <2>3. CASE i \in lost
    BY <1>1, <1>2, <2>3, EntriesByFields
  <2> QED BY <2>1, <2>2, <2>3
<1>4. Entries' = [i \in Cells |-> after(i)]
  BY <1>1, <1>3, EntriesAfterEdit
<1> QED
  BY <1>1, <1>4, EntriesAfterEdit DEF Store!SeqRm

LEMMA SeqCpCopies ==
    ASSUME KVAssumption, Inv, Inv', NEW s \in SeqIds, NEW t \in SeqIds, NEW span,
           SeqCp(s, t, span)
    PROVE  Store!SeqCp(s, t, span)
<1> DEFINE hits     == {i \in Cells : InSpan(pos[i], span) /\ Matches(i, s)}
           after(i) == IF i \in Store!Hits(s, span)
                         THEN [Entries[i] EXCEPT !.seqs = @ \cup {t}]
                         ELSE Entries[i]
<1>1. /\ Returns /\ pos' = pos
      /\ seq_id' = [i \in Cells |->
                      IF s \in seq_id[i] /\ InSpan(pos[i], span)
                        THEN seq_id[i] \cup {t} ELSE seq_id[i]]
  BY DEF SeqCp
<1>2. Store!Hits(s, span) = hits \ lost /\ hits \ lost \subseteq Kept
  BY <1>1, HitsAgree
<1>3. s # AnySeq
  BY DEF KVAssumption
<1>4. ASSUME NEW i \in Cells PROVE Entries'[i] = after(i)
  <2>1. CASE i \in hits /\ i \notin lost
    <3>1. i \in Kept /\ seq_id'[i] = seq_id[i] \cup {t}
      BY <1>1, <1>2, <1>3, <2>1 DEF Matches
    <3>2. Entries[i] = [token |-> kv[i].token, pos |-> pos[i], seqs |-> seq_id[i]]
      BY <3>1, <1>1, EntriesAfterEdit
    <3>3. after(i) = [token |-> kv[i].token, pos |-> pos[i], seqs |-> seq_id[i] \cup {t}]
      BY <1>2, <2>1, <3>2
    <3> QED BY <3>1, <3>3, <1>1, EntriesByFields
  <2>2. CASE i \notin hits
    <3>1. seq_id'[i] = seq_id[i] /\ pos'[i] = pos[i]
      BY <1>1, <2>2 DEF Matches
    <3> QED BY <1>1, <1>2, <2>2, <3>1, EntriesByFields
  <2>3. CASE i \in lost
    BY <1>1, <1>2, <2>3, EntriesByFields
  <2> QED BY <2>1, <2>2, <2>3
<1>5. Entries' = [i \in Cells |-> after(i)]
  BY <1>1, <1>4, EntriesAfterEdit
<1> QED
  BY <1>1, <1>5, EntriesAfterEdit DEF Store!SeqCp

LEMMA SeqKeepKeeps ==
    ASSUME KVAssumption, Inv, Inv', NEW s \in SeqIds, SeqKeep(s)
    PROVE  Store!SeqKeep(s)
<1> DEFINE others   == {i \in Cells : s \notin seq_id[i]}
           after(i) == IF i \in Kept
                         THEN Store!Entry(Entries[i].token, Entries[i].pos,
                                          Entries[i].seqs \cap {s})
                         ELSE Free
<1>1. /\ Returns
      /\ pos' = [i \in Cells |-> IF i \in others THEN -1 ELSE pos[i]]
      /\ seq_id' = [i \in Cells |-> IF i \in others THEN {} ELSE {s}]
  BY DEF SeqKeep
<1>2. ASSUME NEW i \in Cells PROVE Entries'[i] = after(i)
  <2>1. seq_id'[i] = seq_id[i] \cap {s}
    BY <1>1
  <2>2. seq_id'[i] # {} => pos'[i] = pos[i]
    BY <1>1
  <2>3. CASE i \in Kept
    <3>1. /\ Entries[i].token = kv[i].token /\ Entries[i].pos = pos[i]
          /\ Entries[i].seqs = seq_id[i]
      BY <2>3, <1>1, EntriesAfterEdit
    <3> QED BY <2>1, <2>2, <2>3, <3>1, <1>1, EntriesByFields DEF Store!Entry
  <2>4. CASE i \notin Kept
    BY <2>1, <2>4, <1>1, EntriesByFields
  <2> QED BY <2>3, <2>4
<1>3. Entries' = [i \in Cells |-> after(i)]
  BY <1>1, <1>2, EntriesAfterEdit
<1> QED
  BY <1>1, <1>3, EntriesAfterEdit DEF Store!SeqKeep

LEMMA SeqShiftShifts ==
    ASSUME KVAssumption, Inv, Inv', NEW s \in SeqIds, NEW span, NEW d \in Deltas,
           SeqShift(s, span, d)
    PROVE  Store!SeqShift(s, span, d)
<1> DEFINE hits  == {i \in Cells : InSpan(pos[i], span) /\ Matches(i, s)}
           freed == {i \in hits : pos[i] + d < 0}
           after(i) == IF i \in Store!Hits(s, span)
                         THEN IF Entries[i].pos + d < 0
                                THEN Free
                                ELSE [Entries[i] EXCEPT !.pos = @ + d]
                         ELSE Entries[i]
<1>1. s # AnySeq
  BY DEF KVAssumption
<1>2. hits = {i \in Cells : s \in seq_id[i] /\ InSpan(pos[i], span)}
  BY <1>1 DEF Matches
<1>3. /\ Returns
      /\ pos' = [i \in Cells |->
                   IF i \in freed THEN -1
                   ELSE IF i \in hits THEN pos[i] + d ELSE pos[i]]
      /\ seq_id' = [i \in Cells |-> IF i \in freed THEN {} ELSE seq_id[i]]
  BY <1>2 DEF SeqShift
<1>4. Store!Hits(s, span) = hits \ lost /\ hits \ lost \subseteq Kept
  BY <1>3, HitsAgree
<1>5. ASSUME NEW i \in Cells PROVE Entries'[i] = after(i)
  <2>1. CASE i \in hits /\ i \notin lost
    <3>1. i \in Kept
      BY <1>4, <2>1
    <3>2. /\ Entries[i] = [token |-> kv[i].token, pos |-> pos[i], seqs |-> seq_id[i]]
          /\ Entries[i].pos = pos[i] /\ seq_id[i] # {}
      BY <3>1, <1>3, EntriesAfterEdit, EntriesByFields
    <3>3. CASE pos[i] + d < 0
      <4>1. seq_id'[i] = {} /\ after(i) = Free
        BY <1>3, <1>4, <2>1, <3>2, <3>3
      <4> QED BY <4>1, <1>3, EntriesByFields
    <3>4. CASE ~(pos[i] + d < 0)
      <4>1. i \notin freed
        BY <3>4
      <4>2. seq_id'[i] = seq_id[i] /\ pos'[i] = pos[i] + d
        BY <1>3, <2>1, <4>1
      <4>3. after(i) = [token |-> kv[i].token, pos |-> pos[i] + d, seqs |-> seq_id[i]]
        BY <1>4, <2>1, <3>2, <3>4
      <4> QED BY <2>1, <3>2, <4>2, <4>3, <1>3, EntriesByFields
    <3> QED BY <3>3, <3>4
  <2>2. CASE i \notin hits
    <3>1. seq_id'[i] = seq_id[i] /\ pos'[i] = pos[i]
      BY <1>3, <2>2
    <3> QED BY <1>3, <1>4, <2>2, <3>1, EntriesByFields
  <2>3. CASE i \in lost
    BY <1>3, <1>4, <2>3, EntriesByFields
  <2> QED BY <2>1, <2>2, <2>3
<1>6. Entries' = [i \in Cells |-> after(i)]
  BY <1>3, <1>5, EntriesAfterEdit
<1> QED
  BY <1>3, <1>6, EntriesAfterEdit DEF Store!SeqShift

\* A restart loses the tokens of the cells that the save leaves out and keeps
\* the others.
LEMMA ResumeIsRestart ==
    ASSUME KVAssumption, Inv, Inv', Resume
    PROVE  Store!Restart(Kept \cap LeftOut) /\ Kept \cap LeftOut \subseteq Store!Used
<1>1. /\ pc = "ready" /\ pc' = "ready" /\ attended' = <<>>
      /\ kv' = [i \in Cells |-> IF i < head THEN kv[i] ELSE Blank]
      /\ lost' = {i \in lost : pos[i] >= 0} \cup LeftOut
      /\ UNCHANGED <<pos, seq_id>>
  BY DEF Resume, callVars
<1>2. Kept' = Kept \ LeftOut
  BY <1>1 DEF Kept, Held, Slot
<1>3. ASSUME NEW i \in Kept' PROVE i \in Kept /\ kv'[i] = kv[i]
  <2>1. i \in Cells /\ pos[i] >= 0 /\ i \notin LeftOut
    BY <1>1, <1>2 DEF Kept, Held
  <2>2. i < head
    <3>1. i \in Nat /\ head \in Nat /\ ~(i >= head)
      BY <2>1, BeforeEdit DEF LeftOut, Cells
    <3> QED BY <3>1
  <2> QED BY <1>1, <1>2, <2>1, <2>2
<1>4. ASSUME NEW i \in Cells
      PROVE  Entries'[i] = IF i \in Kept \cap LeftOut THEN Free ELSE Entries[i]
  <2>1. CASE i \in Kept'
    <3>1. i \in Kept /\ kv'[i] = kv[i] /\ i \notin LeftOut
      BY <1>2, <1>3, <2>1
    <3> QED BY <1>1, <2>1, <3>1, EntriesHaveShape, EntriesHaveShapeNext DEF EntriesShape
  <2>2. CASE i \notin Kept'
    BY <1>2, <2>2, EntriesHaveShape, EntriesHaveShapeNext DEF EntriesShape
  <2> QED BY <2>1, <2>2
<1>5. Entries' = [i \in Cells |-> IF i \in Kept \cap LeftOut THEN Free ELSE Entries[i]]
  BY <1>4 DEF Entries
<1> QED
  BY <1>1, <1>5, NothingShownNext, EntriesHaveShape DEF Store!Restart, EntriesShape

\* Where the builder ties the copies: for every size of the ring, every batch
\* and every sequence of edits and restarts, what the cache does to the cells
\* that no save has left out, and shows of them to the rows of a batch, is what
\* the store of tokens does.
THEOREM CacheIsStore ==
    ASSUME CopiesTied
    PROVE  Spec => IsStore
<1>1. Init => Store!Init
  <2> SUFFICES ASSUME Init PROVE Store!Init
    OBVIOUS
  <2>1. Kept = {} /\ attended = <<>>
    BY DEF Init, Kept, Held
  <2> QED BY <2>1, NothingShown DEF Store!Init, Entries
<1>2. ASSUME Inv, Inv', [Next]_vars
      PROVE  [Store!Next]_<<Entries, Shown>>
  <2> USE KVAssumptionHolds
  <2>1. ASSUME NEW b \in Batches, TooLarge(b) \/ Decode(b) PROVE Store!Next
    BY <1>2, <2>1, CallsAreTakes DEF Store!Next
  <2>2. CASE Search
    BY <1>2, <2>2, SearchIsHidden
  <2>3. CASE Compute
    <3>1. batch \in Batches
      BY <1>2, <2>3 DEF Inv, TypeOK, Compute
    <3> QED BY <1>2, <2>3, <3>1, ComputeIsDecode DEF Store!Next
  <2>4. CASE Clear
    BY <1>2, <2>4, ClearClears DEF Store!Next
  <2>5. ASSUME NEW s \in SeqIds \cup {AnySeq}, NEW span \in Spans, SeqRm(s, span)
        PROVE  Store!Next
    BY <1>2, <2>5, SeqRmRemoves DEF Store!Next
  <2>6. ASSUME NEW s \in SeqIds, NEW t \in SeqIds, NEW span \in Spans, SeqCp(s, t, span)
        PROVE  Store!Next
    BY <1>2, <2>6, SeqCpCopies DEF Store!Next
  <2>7. ASSUME NEW s \in SeqIds, SeqKeep(s) PROVE Store!Next
    BY <1>2, <2>7, SeqKeepKeeps DEF Store!Next
  <2>8. ASSUME NEW s \in SeqIds, NEW span \in Spans, NEW d \in Deltas, SeqShift(s, span, d)
        PROVE  Store!Next
    BY <1>2, <2>8, SeqShiftShifts DEF Store!Next
  <2>9. CASE Resume
    <3>1. /\ Store!Restart(Kept \cap LeftOut)
          /\ Kept \cap LeftOut \in SUBSET Store!Used
      BY <1>2, <2>9, ResumeIsRestart
    <3> QED BY <3>1 DEF Store!Next
  <2>10. CASE UNCHANGED vars
    <3>1. Kept' = Kept /\ UNCHANGED <<kv, lost, pos, seq_id, attended>>
      BY <2>10 DEF vars, metaVars, callVars, Kept, Held, Slot, n_tokens
    <3> QED BY <3>1, SameEntries DEF Shown
  <2> QED
    BY <1>2, <2>1, <2>2, <2>3, <2>4, <2>5, <2>6, <2>7, <2>8, <2>9, <2>10 DEF Next, Edit
<1> QED
  BY <1>1, <1>2, InvHolds, PTL DEF Spec, IsStore, Store!Spec, Store!vars

=============================================================================
