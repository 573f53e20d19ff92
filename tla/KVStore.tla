------------------------------- MODULE KVStore -------------------------------
(***************************************************************************)
(* What the KV cache of a context promises its callers (llama.h): a store  *)
(* of tokens, each at a position of one or more sequences.  Decoding puts  *)
(* the tokens of a batch into free slots and lets each of them attend the  *)
(* tokens of its own sequence up to its own position, with keys rotated to *)
(* the positions the tokens now have.  A restart from a saved state may    *)
(* lose tokens; it changes no other.  No ring, no search, no pending       *)
(* shift: those are the business of KVCache.                               *)
(***************************************************************************)
EXTENDS Integers, Sequences

CONSTANTS
    Slots,     \* the places for tokens
    SeqIds,    \* the sequences
    AnySeq,    \* seq_id < 0: match any sequence
    Batches,   \* the batches a caller may decode
    Spans,     \* the pairs <<p0, p1>> a caller may name
    Deltas,    \* the distances a caller may shift by
    Free       \* no token in a slot

VARIABLES
    store,     \* the token, position and sequences of every slot
    attended   \* what each row of the batch just decoded has attended

vars == <<store, attended>>

Used == {i \in Slots : store[i] # Free}

\* p0 < 0 : [0,  p1];  p1 < 0 : [p0, inf)
InSpan(p, span) ==
    /\ p >= 0 /\ p >= span[1]
    /\ span[2] < 0 \/ p < span[2]

\* The used slots of sequence s with positions in span.
Hits(s, span) ==
    {i \in Used : InSpan(store[i].pos, span) /\ (s = AnySeq \/ s \in store[i].seqs)}

\* A slot whose entry has no sequence left is free.
Entry(token, pos, seqs) ==
    IF seqs = {} THEN Free ELSE [token |-> token, pos |-> pos, seqs |-> seqs]

Attends(st, row) ==
    {[slot |-> i, token |-> st[i].token, pos |-> st[i].pos] :
        i \in {j \in Slots : /\ st[j] # Free
                             /\ row.seq \in st[j].seqs
                             /\ st[j].pos <= row.pos}}

Init ==
    /\ store = [i \in Slots |-> Free]
    /\ attended = <<>>

\* Row place[i] of batch b goes into the free slot i.
Fill(b, place) ==
    /\ DOMAIN place \subseteq Slots \ Used
    /\ \A j \in 1..Len(b) : \E i \in DOMAIN place : place[i] = j
    /\ \A i, k \in DOMAIN place : place[i] = place[k] => i = k
    /\ store' = [i \in Slots |->
                   IF i \in DOMAIN place
                     THEN [token |-> b[place[i]].token,
                           pos   |-> b[place[i]].pos,
                           seqs  |-> b[place[i]].seqs]
                     ELSE store[i]]

Decode(b) ==
    /\ attended' = [j \in 1..Len(b) |-> Attends(store', b[j])]
    /\ \E S \in SUBSET (Slots \ Used) : \E place \in [S -> 1..Len(b)] : Fill(b, place)

Clear ==
    /\ store' = [i \in Slots |-> Free]
    /\ attended' = <<>>

SeqRm(s, span) ==
    /\ store' = [i \in Slots |->
                   IF i \in Hits(s, span)
                     THEN Entry(store[i].token, store[i].pos,
                                IF s = AnySeq THEN {} ELSE store[i].seqs \ {s})
                     ELSE store[i]]
    /\ attended' = <<>>

SeqCp(src, dst, span) ==
    /\ store' = [i \in Slots |->
                   IF i \in Hits(src, span)
                     THEN [store[i] EXCEPT !.seqs = @ \cup {dst}]
                     ELSE store[i]]
    /\ attended' = <<>>

SeqKeep(s) ==
    /\ store' = [i \in Slots |->
                   IF i \in Used
                     THEN Entry(store[i].token, store[i].pos, store[i].seqs \cap {s})
                     ELSE Free]
    /\ attended' = <<>>

\* A token that several sequences share moves in all of them, and one that
\* is moved to before the start leaves all of them.
SeqShift(s, span, d) ==
    /\ store' = [i \in Slots |->
                   IF i \in Hits(s, span)
                     THEN IF store[i].pos + d < 0
                            THEN Free
                            ELSE [store[i] EXCEPT !.pos = @ + d]
                     ELSE store[i]]
    /\ attended' = <<>>

\* A later process goes on with the state that this one has saved, which has
\* left the tokens of some slots out.
Restart(gone) ==
    /\ store' = [i \in Slots |-> IF i \in gone THEN Free ELSE store[i]]
    /\ attended' = <<>>

\* The caller has taken what decoding returned.
Take ==
    /\ attended' = <<>>
    /\ UNCHANGED store

Next ==
    \/ Clear \/ Take
    \/ \E s \in SeqIds \cup {AnySeq}, span \in Spans : SeqRm(s, span)
    \/ \E s, t \in SeqIds, span \in Spans : SeqCp(s, t, span)
    \/ \E s \in SeqIds : SeqKeep(s)
    \/ \E s \in SeqIds, span \in Spans, d \in Deltas : SeqShift(s, span, d)
    \/ \E b \in Batches : Decode(b)
    \/ \E gone \in SUBSET Used : Restart(gone)

Spec == Init /\ [][Next]_vars
=============================================================================
