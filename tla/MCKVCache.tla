------------------------------ MODULE MCKVCache ------------------------------
(***************************************************************************)
(* The instance of KVCache that TLC checks.  Sequence s1 is decoded one or *)
(* two tokens at a time; s2 is mostly a fork of it: it gets its tokens by  *)
(* seq_cp, by a row that belongs to both, and by a row of its own.  One    *)
(* batch has more tokens than the cache has cells.                         *)
(***************************************************************************)
EXTENDS KVCache

CONSTANTS s1, s2, a

Row(p, ss, s) == [token |-> a, pos |-> p, seqs |-> ss, seq |-> s]

MCBatches ==
    {<<Row(0, {s1}, s1)>>, <<Row(1, {s1}, s1)>>,
     <<Row(0, {s1}, s1), Row(1, {s1}, s1)>>,
     <<Row(1, {s2}, s2)>>, <<Row(0, {s1, s2}, s2)>>,
     [i \in 1..(Size + 1) |-> Row(0, {s1}, s1)]}

\* The tokens before position 1, and those from there on.
MCSpans  == {<<-1, 1>>, <<1, -1>>}
MCDeltas == {-1}
=============================================================================
