-------------------------- MODULE GraphAllocProofs --------------------------
(***************************************************************************)
(* Theorems about GraphAlloc, for every set of leafs, number of nodes, set *)
(* of sizes, alignment and number of blocks, under the assumptions of the  *)
(* module.                                                                 *)
(*                                                                         *)
(* A pass is a sequence of allocators: h[i] is what is left after the      *)
(* turns of the tensors 1..i.  The invariant says that there are two such  *)
(* passes, the one that measured and the one that is under way in the      *)
(* buffer, and that the state is at its place in the second.  What is      *)
(* known of one allocator before the turn of tensor n is RoundInv: the     *)
(* free list is in order, every tensor that had its turn has its place,    *)
(* n_children counts exactly the reads to come, n_views at least the       *)
(* living views, and a set W of tensors has memory that is not free and    *)
(* not shared, among them all whose memory is still to be read.  A pass    *)
(* that has not failed has kept it, turn by turn (PassSound).              *)
(*                                                                         *)
(* The measuring pass and the real pass make the same choices: their free  *)
(* lists differ by RoundUp(base) and in the end of the last block only, as *)
(* long as the last block is not used up; the bound on the memory of a     *)
(* graph says so of the one, max_size of the other (TwinsAlways).  So the  *)
(* real pass cannot fail, and what it has placed is apart (PassApart),     *)
(* from which the memory keeps what is still to be read (ComputeWritten).  *)
(***************************************************************************)
EXTENDS GraphAlloc, FiniteSetTheorems, SequenceTheorems, WellFoundedInduction, TLAPS

-----------------------------------------------------------------------------
(* The invariant: the graph, the free list, what is kept for later reads,  *)
(* the counts.                                                             *)

\* The number of tensors of a whole graph.
N == FirstNode - 1 + start.nodes

\* A tensor of it: its sources come before it, and a view lies inside its root.
IsTensor(t) ==
    /\ graph[t].size \in Nat \ {0}
    /\ graph[t].size \in Sizes
    /\ graph[t].of \in Nat /\ graph[t].offs \in Nat
    /\ graph[t].src \in Seq(Nat) /\ Len(graph[t].src) <= 2
    /\ \A j \in 1..Len(graph[t].src) : graph[t].src[j] \in 1..(t - 1)
    /\ t < FirstNode <=> graph[t].kind \in {"input", "weight"}
    /\ t >= FirstNode <=> graph[t].kind \in {"op", "view"}
    /\ graph[t].kind # "view" => graph[t].of = 0 /\ graph[t].offs = 0
    /\ t < FirstNode => graph[t].src = <<>>
    /\ graph[t].kind = "view" =>
         /\ Len(graph[t].src) = 1
         /\ graph[t].of = Origin(graph[t].src[1])
         /\ graph[t].of \in 1..(t - 1) /\ graph[graph[t].of].kind # "view"
         /\ graph[t].offs + graph[t].size <= graph[graph[t].of].size

\* The graph, at every stage of llm_build_graph.
GraphInv ==
    /\ start \in Starts /\ Len(graph) \in Nat /\ DOMAIN graph = 1..Len(graph)
    /\ graph = [t \in 1..Len(graph) |-> graph[t]]
    /\ Len(graph) >= FirstNode - 1
    /\ \A t \in Tensors : IsTensor(t)

\* A free block.
Block == [addr : Nat, size : Nat]

\* The end of a block, and of the memory the allocator gave tensor t.
End(b) == b.addr + b.size
AEnd(a, t) == a.data[t] + AllocSize(t)

\* The free list: blocks in lo..hi, in order, with a gap between any two.
Ordered(B, lo, hi) ==
    /\ \A k \in 1..Len(B) : B[k].size > 0 /\ lo <= B[k].addr /\ End(B[k]) <= hi
    /\ \A j, k \in 1..Len(B) : j < k => End(B[j]) < B[k].addr

\* No block overlaps the place from x to y.
Clear(B, x, y) == \A k \in 1..Len(B) : End(B[k]) <= x \/ y <= B[k].addr

\* Whose memory holds tensor o, which is no view: a node that works in
\* place lies in the memory of the root it has taken over.
Region(a, o) == IF a.view_src[o] = None THEN o ELSE a.view_src[o]

\* The tensors W have memory that is not free, and no two share any.
Kept(a, W) ==
    /\ \A o \in W :
         /\ o \in Tensors
         /\ graph[o].kind # "view" /\ IsOwn(a, o) /\ IsOwn(a, Region(a, o))
         /\ Clear(a.blocks, a.data[o], AEnd(a, Region(a, o)))
    /\ \A o, q \in W : o # q => \/ AEnd(a, Region(a, o)) <= a.data[q]
                                \/ AEnd(a, Region(a, q)) <= a.data[o]

\* The reads of the nodes from n on, and the tensors whose memory the reads
\* R need.
ReadsFrom(n) == {r \in Reads : r[1] >= n}
Need(R) == {Origin(Source(r)) : r \in R}

\* Where tensor t is before the turn of tensor n.
PlaceOf(a, t, n, lo, hi) ==
    /\ a.data[t] >= External
    /\ t < n => a.data[t] # NULL
    /\ t >= n => ~IsOwn(a, t)
    /\ graph[t].kind # "view" /\ IsOwn(a, t) => lo <= a.data[t] /\ AEnd(a, t) <= hi
    /\ graph[t].kind = "weight" => a.data[t] = External
    /\ graph[t].kind \in {"op", "input"} => a.data[t] # External
    /\ graph[t].kind = "view" =>
         /\ a.view_src[t] = graph[t].of
         /\ a.data[t] = External <=> a.data[graph[t].of] = External
         /\ IsOwn(a, t) => /\ IsOwn(a, graph[t].of)
                           /\ a.data[t] = a.data[graph[t].of] + graph[t].offs
    /\ graph[t].kind \in {"input", "weight"} => a.view_src[t] = None
    /\ graph[t].kind = "op" /\ a.view_src[t] # None =>
         /\ a.view_src[t] \in 1..(t - 1)
         /\ graph[a.view_src[t]].kind # "view"
         /\ IsOwn(a, t) /\ IsOwn(a, a.view_src[t])
         /\ a.data[t] = a.data[a.view_src[t]]
         /\ graph[t].size <= graph[a.view_src[t]].size

\* Where every tensor is before the turn of tensor n.
Places(a, n, lo, hi) == \A t \in Tensors : PlaceOf(a, t, n, lo, hi)

\* The reads of R from p, and that n_children counts exactly the reads R.
ReadBy(R, p) == {r \in R : Source(r) = p}
Counts(a, R) == \A p \in Tensors : a.n_children[p] = Cardinality(ReadBy(R, p))

\* Tensor v has readers or views to come; the living views of r, of which
\* n_views counts at least as many as there are.
Alive(a, v) == a.n_children[v] > 0 \/ a.n_views[v] > 0
ViewsOf(a, r) == {v \in Tensors : a.view_src[v] = r /\ Alive(a, v)}
Views(a) == \A r \in Tensors : a.n_views[r] \in Nat /\ Cardinality(ViewsOf(a, r)) <= a.n_views[r]

\* The allocator is a record with these fields ...
Fields(a) ==
    DOMAIN a = {"blocks", "max_size", "failed", "data", "view_src", "n_children", "n_views"}

\* ... of these types.
Typed(a) ==
    /\ Fields(a)
    /\ a.failed \in BOOLEAN /\ a.max_size \in Nat
    /\ a.blocks \in Seq(Block)
    /\ a.data \in [Tensors -> Int] /\ a.view_src \in [Tensors -> Nat]
    /\ a.n_children \in [Tensors -> Int] /\ a.n_views \in [Tensors -> Int]

\* The allocator when the reads R are to come and the tensors W are kept.
Held(a, n, R, W, lo, hi) ==
    /\ Typed(a) /\ a.failed = FALSE
    /\ Ordered(a.blocks, lo, hi)
    /\ Places(a, n, lo, hi)
    /\ Counts(a, R)
    /\ Views(a)
    /\ Kept(a, W)

\* What the reads R need and the allocator owns is among the kept W.
Covers(a, R, W) == \A o \in Need(R) : IsOwn(a, o) => o \in W

\* The allocator before the turn of node n.
RoundInv(a, n, lo, hi) ==
    \E W \in SUBSET Tensors : Held(a, n, ReadsFrom(n), W, lo, hi) /\ Covers(a, ReadsFrom(n), W)

\* The memory of t and that of p have no byte in common.
Away(a, t, p) ==
    \/ a.data[p] + graph[p].size <= a.data[t]
    \/ a.data[t] + graph[t].size <= a.data[p]

\* Node t shares no byte with what later nodes still read, and with its own
\* sources only when it works in place and takes the whole of one over.
NodeApart(a, t) ==
    /\ IsOwn(a, t)
    /\ \A o \in Need(ReadsFrom(t + 1)) : (o < t /\ IsOwn(a, o)) => Away(a, t, o)
    /\ \A j \in DOMAIN graph[t].src :
          LET p == graph[t].src[j] IN IsOwn(a, p) =>
          \/ Away(a, t, p)
          \/ graph[t].inplace /\ a.data[t] = a.data[p] /\ graph[t].size = graph[p].size

\* That holds of every node that had its turn.
Apart(a, n) == \A t \in FirstNode..(n - 1) : graph[t].kind = "op" => NodeApart(a, t)

\* The memory m holds what the nodes from n on read.
Written(a, m, n) ==
    \A o \in Need(ReadsFrom(n)) : (o < n /\ IsOwn(a, o)) => \A x \in Bytes(a, o) : m[x] = o

\* Where the last block begins: no memory beyond was ever in use.
Top(B) == B[Len(B)].addr

\* The free list C is B, d bytes higher; the last block ends at E.
Shifted(B, C, d, E) ==
    /\ Len(C) = Len(B) /\ Len(B) >= 1
    /\ \A k \in 1..Len(B) : C[k].addr = B[k].addr + d
    /\ \A k \in 1..(Len(B) - 1) : C[k].size = B[k].size
    /\ End(B[Len(B)]) = Unlimited /\ End(C[Len(B)]) = E

\* The real allocator r is the measuring one m, d bytes higher.
Sim(m, r, d, E) ==
    /\ Typed(m) /\ Typed(r) /\ m.failed = FALSE /\ r.failed = FALSE
    /\ Shifted(m.blocks, r.blocks, d, E)
    /\ Top(m.blocks) <= m.max_size
    /\ r.view_src = m.view_src /\ r.n_children = m.n_children /\ r.n_views = m.n_views
    /\ \A t \in Tensors : r.data[t] = IF IsOwn(m, t) THEN m.data[t] + d ELSE m.data[t]

-----------------------------------------------------------------------------
(* Numbers: least members, induction up to a bound, rounding up.           *)

\* A set of natural numbers has a least member.
LEMMA Least == \A S \in SUBSET Nat : S # {} => \E n \in S : \A m \in S : n <= m
<1> SUFFICES ASSUME NEW S \in SUBSET Nat, NEW top \in S
             PROVE  \E n \in S : \A m \in S : n <= m
  OBVIOUS
<1> DEFINE T == {0..n : n \in {m \in S : m <= top}}
<1>1. IsWellFoundedOn(StrictSubsetOrdering(0..top), SUBSET (0..top))
  <2>1. IsFiniteSet(0..top)
    BY FS_Interval
  <2>2. FiniteSubsetsOf(0..top) = SUBSET (0..top)
    BY <2>1, FS_FiniteSubsetsOfFinite
  <2> QED BY <2>2, FS_StrictSubsetOrderingWellFounded
<1>2. T \subseteq SUBSET (0..top) /\ 0..top \in T
  OBVIOUS
<1>3. PICK s \in T : \A r \in T : ~(<<r, s>> \in StrictSubsetOrdering(0..top))
  <2> HIDE DEF T
  <2> QED BY <1>1, <1>2, WFMin
<1>4. PICK n \in S : n <= top /\ s = 0..n
  BY <1>3
<1>5. \A m \in S : n <= m
  <2> SUFFICES ASSUME NEW m \in S, m < n PROVE FALSE
    OBVIOUS
  <2>1. 0..m \in T /\ 0..m \in SUBSET (0..top) /\ s \in SUBSET (0..top)
    BY <1>4
  <2>2. 0..m \subseteq s /\ n \in s /\ n \notin 0..m
    BY <1>4
  <2>3. <<0..m, s>> \in StrictSubsetOrdering(0..top)
    BY <2>1, <2>2 DEF StrictSubsetOrdering
  <2> QED BY <1>3, <2>1, <2>3
<1> QED BY <1>5

\* A set of numbers that holds 0 and the successors of its members up to n.
LEMMA Induction ==
  ASSUME NEW n \in Nat, NEW S, 0 \in S, \A i \in 0..(n - 1) : i \in S => i + 1 \in S
  PROVE  \A i \in 0..n : i \in S
<1> DEFINE T == {i \in 0..n : i \notin S}
<1>1. T = {}
  <2> SUFFICES ASSUME T # {} PROVE FALSE
    OBVIOUS
  <2>1. PICK i \in T : \A m \in T : i <= m
    <3>1. T \in SUBSET Nat
      OBVIOUS
    <3> HIDE DEF T
    <3> QED BY <3>1, Least
  <2>2. i - 1 \in 0..(n - 1) /\ i - 1 \notin T
    BY <2>1
  <2> QED BY <2>1, <2>2
<1> QED BY <1>1

\* Dividing by d rounds down by less than d.
LEMMA Division ==
  ASSUME NEW x \in Nat, NEW d \in Nat \ {0}
  PROVE  /\ x \div d \in Nat
         /\ (x \div d) * d <= x
         /\ x < (x \div d) * d + d
OBVIOUS

\* Multiples of d are d apart.
LEMMA Monotone ==
  ASSUME NEW p \in Nat, NEW q \in Nat, NEW d \in Nat, p < q
  PROVE  p * d + d <= q * d
<1>1. q = (p + 1) + (q - p - 1) /\ q - p - 1 \in Nat
  OBVIOUS
<1>2. PICK c \in Nat : q = (p + 1) + c
  BY <1>1
<1>3. q * d = p * d + d + c * d /\ c * d >= 0
  BY <1>2
<1> QED BY <1>3

\* aligned_offset: it rounds up by less than the alignment, and monotonously.
LEMMA RoundUpFacts ==
  /\ RoundUp(0) = 0
  /\ \A x \in Nat : RoundUp(x) \in Nat /\ x <= RoundUp(x) /\ RoundUp(x) < x + Alignment
  /\ \A x, y \in Nat : x <= y => RoundUp(x) <= RoundUp(y)
<1>0. Alignment \in Nat \ {0}
  BY AllocAssumptionHolds DEF AllocAssumption
<1>1. ASSUME NEW x \in Nat
      PROVE  RoundUp(x) \in Nat /\ x <= RoundUp(x) /\ RoundUp(x) < x + Alignment
  <2> DEFINE q == (x + Alignment - 1) \div Alignment
  <2>1. x + Alignment - 1 \in Nat
    BY <1>0
  <2>2. q \in Nat /\ q * Alignment <= x + Alignment - 1 /\ x + Alignment - 1 < q * Alignment + Alignment
    BY <1>0, <2>1, Division
  <2>3. RoundUp(x) = q * Alignment
    BY DEF RoundUp
  <2>4. q * Alignment \in Nat
    BY <1>0, <2>2
  <2> HIDE DEF q
  <2> QED BY <1>0, <2>2, <2>3, <2>4
<1>2. ASSUME NEW x \in Nat, NEW y \in Nat, x <= y PROVE RoundUp(x) <= RoundUp(y)
  <2> DEFINE q == (x + Alignment - 1) \div Alignment
             r == (y + Alignment - 1) \div Alignment
  <2>1. x + Alignment - 1 \in Nat /\ y + Alignment - 1 \in Nat
    BY <1>0
  <2>2. q \in Nat /\ q * Alignment <= x + Alignment - 1
    BY <1>0, <2>1, Division
  <2>3. r \in Nat /\ y + Alignment - 1 < r * Alignment + Alignment
    BY <1>0, <2>1, Division
  <2>4. RoundUp(x) = q * Alignment /\ RoundUp(y) = r * Alignment
    BY DEF RoundUp
  <2>5. q * Alignment \in Nat /\ r * Alignment \in Nat
    BY <1>0, <2>2, <2>3
  <2> HIDE DEF q, r
  <2>6. CASE r < q
    <3>1. r * Alignment + Alignment <= q * Alignment
      BY <1>0, <2>2, <2>3, <2>6, Monotone
    <3> QED BY <3>1, <1>0, <1>2, <2>2, <2>3, <2>5
  <2>7. CASE q = r
    BY <2>4, <2>5, <2>7
  <2>8. CASE q < r
    <3>1. q * Alignment + Alignment <= r * Alignment
      BY <1>0, <2>2, <2>3, <2>8, Monotone
    <3> QED BY <3>1, <1>0, <2>4, <2>5
  <2> QED BY <2>2, <2>3, <2>6, <2>7, <2>8
<1>3. RoundUp(0) = 0
  <2>1. (0 + Alignment - 1) \div Alignment = 0
    BY <1>0
  <2> QED BY <1>0, <2>1 DEF RoundUp
<1> QED BY <1>1, <1>2, <1>3

-----------------------------------------------------------------------------
(* Sequences of blocks: splicing, removing, taking memory from a block.    *)

\* Sequences of which a part is replaced by one element.
Spliced(B, lo, e, hi) == SubSeq(B, 1, lo - 1) \o <<e>> \o SubSeq(B, hi + 1, Len(B))

\* The elements of a spliced sequence.
LEMMA SpliceFacts ==
  ASSUME NEW S, NEW B \in Seq(S), NEW e \in S,
         NEW lo \in 1..(Len(B) + 1), NEW hi \in (lo - 1)..Len(B)
  PROVE  LET G == Spliced(B, lo, e, hi) IN
         /\ G \in Seq(S)
         /\ Len(G) = Len(B) - (hi - lo)
         /\ \A j \in 1..Len(G) : G[j] = IF j < lo THEN B[j] ELSE IF j = lo THEN e
                                         ELSE B[j + (hi - lo)]
<1> DEFINE X == SubSeq(B, 1, lo - 1)
           Y == SubSeq(B, hi + 1, Len(B))
           XE == X \o <<e>>
<1>0. Len(B) \in Nat /\ \A j \in 1..Len(B) : B[j] \in S
  BY LenProperties
<1>1. X \in Seq(S) /\ Len(X) = lo - 1 /\ \A j \in 1..(lo - 1) : X[j] = B[j]
  BY <1>0, SubSeqProperties
<1>2. Y \in Seq(S) /\ Len(Y) = Len(B) - hi /\ \A j \in 1..(Len(B) - hi) : Y[j] = B[hi + j]
  <2>1. \A i \in (hi + 1)..Len(B) : B[i] \in S
    BY <1>0
  <2>2. /\ Y \in Seq(S)
        /\ Len(Y) = IF hi + 1 <= Len(B) THEN Len(B) - (hi + 1) + 1 ELSE 0
        /\ \A j \in 1..(Len(B) - (hi + 1) + 1) : Y[j] = B[(hi + 1) + j - 1]
    BY <1>0, <2>1, SubSeqProperties
  <2> HIDE DEF Y
  <2> QED BY <1>0, <2>2
<1>3. <<e>> \in Seq(S) /\ Len(<<e>>) = 1 /\ <<e>>[1] = e
  OBVIOUS
<1> HIDE DEF X, Y
<1>4. /\ XE \in Seq(S) /\ Len(XE) = lo
      /\ \A j \in 1..lo : XE[j] = IF j <= lo - 1 THEN X[j] ELSE <<e>>[j - (lo - 1)]
  BY <1>0, <1>1, <1>3, ConcatProperties
<1>5. /\ XE \in Seq(S) /\ Len(XE) = lo
      /\ \A j \in 1..lo : XE[j] = IF j < lo THEN B[j] ELSE e
  BY <1>0, <1>1, <1>3, <1>4
<1> HIDE DEF XE
<1>6. /\ XE \o Y \in Seq(S) /\ Len(XE \o Y) = lo + (Len(B) - hi)
      /\ \A j \in 1..(lo + (Len(B) - hi)) : (XE \o Y)[j] = IF j <= lo THEN XE[j] ELSE Y[j - lo]
  <2>1. XE \in Seq(S) /\ Y \in Seq(S) /\ Len(XE) = lo /\ Len(Y) = Len(B) - hi
    BY <1>2, <1>5
  <2>2. /\ XE \o Y \in Seq(S) /\ Len(XE \o Y) = Len(XE) + Len(Y)
        /\ \A j \in 1..(Len(XE) + Len(Y)) :
             (XE \o Y)[j] = IF j <= Len(XE) THEN XE[j] ELSE Y[j - Len(XE)]
    BY <2>1, ConcatProperties
  <2> QED BY <2>1, <2>2
<1>7. Spliced(B, lo, e, hi) = XE \o Y
  BY DEF Spliced, X, Y, XE
<1>8. ASSUME NEW j \in 1..(lo + (Len(B) - hi))
      PROVE  (XE \o Y)[j] = IF j < lo THEN B[j] ELSE IF j = lo THEN e ELSE B[j + (hi - lo)]
  <2>1. CASE j <= lo
    BY <1>5, <1>6, <2>1
  <2>2. CASE j > lo
    <3>1. j - lo \in 1..(Len(B) - hi) /\ hi + (j - lo) = j + (hi - lo)
      BY <1>0, <2>2
    <3>2. (XE \o Y)[j] = Y[j - lo]
      BY <1>6, <2>2
    <3>3. Y[j - lo] = B[hi + (j - lo)]
      BY <1>2, <3>1
    <3> QED BY <2>2, <3>1, <3>2, <3>3
  <2>3. j <= lo \/ j > lo
    BY <1>0
  <2> QED BY <2>1, <2>2, <2>3
<1>9. lo + (Len(B) - hi) = Len(B) - (hi - lo)
  BY <1>0
<1> QED BY <1>6, <1>7, <1>8, <1>9

\* The elements of a sequence without its k-th.
LEMMA RemoveFacts ==
  ASSUME NEW S, NEW B \in Seq(S), NEW k \in 1..Len(B)
  PROVE  /\ RemoveAt(B, k) \in Seq(S)
         /\ Len(RemoveAt(B, k)) = Len(B) - 1
         /\ \A j \in 1..(Len(B) - 1) : RemoveAt(B, k)[j] = IF j < k THEN B[j] ELSE B[j + 1]
<1> DEFINE X == SubSeq(B, 1, k - 1)
           Y == SubSeq(B, k + 1, Len(B))
<1>0. Len(B) \in Nat /\ \A j \in 1..Len(B) : B[j] \in S
  BY LenProperties
<1>1. X \in Seq(S) /\ Len(X) = k - 1 /\ \A j \in 1..(k - 1) : X[j] = B[j]
  BY <1>0, SubSeqProperties
<1>2. Y \in Seq(S) /\ Len(Y) = Len(B) - k /\ \A j \in 1..(Len(B) - k) : Y[j] = B[k + j]
  <2>1. \A i \in (k + 1)..Len(B) : B[i] \in S
    BY <1>0
  <2>2. /\ Y \in Seq(S)
        /\ Len(Y) = IF k + 1 <= Len(B) THEN Len(B) - (k + 1) + 1 ELSE 0
        /\ \A j \in 1..(Len(B) - (k + 1) + 1) : Y[j] = B[(k + 1) + j - 1]
    BY <1>0, <2>1, SubSeqProperties
  <2> HIDE DEF Y
  <2> QED BY <1>0, <2>2
<1> HIDE DEF X, Y
<1>3. /\ X \o Y \in Seq(S) /\ Len(X \o Y) = (k - 1) + (Len(B) - k)
      /\ \A j \in 1..((k - 1) + (Len(B) - k)) : (X \o Y)[j] = IF j <= k - 1 THEN X[j] ELSE Y[j - (k - 1)]
  <2>1. X \in Seq(S) /\ Y \in Seq(S) /\ Len(X) = k - 1 /\ Len(Y) = Len(B) - k
    BY <1>1, <1>2
  <2>2. /\ X \o Y \in Seq(S) /\ Len(X \o Y) = Len(X) + Len(Y)
        /\ \A j \in 1..(Len(X) + Len(Y)) :
             (X \o Y)[j] = IF j <= Len(X) THEN X[j] ELSE Y[j - Len(X)]
    BY <2>1, ConcatProperties
  <2> QED BY <2>1, <2>2
<1>4. RemoveAt(B, k) = X \o Y
  BY DEF RemoveAt, X, Y
<1>5. ASSUME NEW j \in 1..(Len(B) - 1)
      PROVE  (X \o Y)[j] = IF j < k THEN B[j] ELSE B[j + 1]
  <2>1. CASE j < k
    BY <1>0, <1>1, <1>3, <2>1
  <2>2. CASE j >= k
    <3>1. j - (k - 1) \in 1..(Len(B) - k) /\ k + (j - (k - 1)) = j + 1
      BY <1>0, <2>2
    <3>2. (X \o Y)[j] = Y[j - (k - 1)]
      BY <1>0, <1>3, <2>2
    <3>3. Y[j - (k - 1)] = B[k + (j - (k - 1))]
      BY <1>2, <3>1
    <3> QED BY <2>2, <3>1, <3>2, <3>3
  <2>3. j < k \/ j >= k
    BY <1>0
  <2> QED BY <2>1, <2>2, <2>3
<1>6. (k - 1) + (Len(B) - k) = Len(B) - 1
  BY <1>0
<1> QED BY <1>3, <1>4, <1>5, <1>6

\* The types of the elements of a free list.
LEMMA BlockFacts ==
  ASSUME NEW B \in Seq(Block)
  PROVE  /\ Len(B) \in Nat
         /\ \A j \in 1..Len(B) : B[j] \in Block /\ B[j].addr \in Nat /\ B[j].size \in Nat
<1>1. Len(B) \in Nat /\ \A j \in 1..Len(B) : B[j] \in Block
  BY LenProperties
<1>2. \A b \in Block : b.addr \in Nat /\ b.size \in Nat
  BY DEF Block
<1> QED BY <1>1, <1>2

\* The blocks when size bytes of block k are taken.
Taken(B, k, size) ==
    IF B[k].size = size THEN RemoveAt(B, k)
    ELSE ReplaceAt(B, k, [addr |-> B[k].addr + size, size |-> B[k].size - size])

\* The blocks after size bytes of block k are taken, one by one.
LEMMA TakenForm ==
  ASSUME NEW B \in Seq(Block), NEW k \in 1..Len(B), NEW size \in Nat, size <= B[k].size
  PROVE  /\ Taken(B, k, size) \in Seq(Block)
         /\ B[k].size = size =>
              /\ Len(Taken(B, k, size)) = Len(B) - 1
              /\ \A j \in 1..(Len(B) - 1) : Taken(B, k, size)[j] = IF j < k THEN B[j] ELSE B[j + 1]
         /\ B[k].size # size =>
              /\ Len(Taken(B, k, size)) = Len(B)
              /\ \A j \in 1..Len(B) : j # k => Taken(B, k, size)[j] = B[j]
              /\ Taken(B, k, size)[k].addr = B[k].addr + size
              /\ Taken(B, k, size)[k].size = B[k].size - size
<1>1. CASE B[k].size = size
  BY <1>1, RemoveFacts DEF Taken
<1>2. CASE B[k].size # size
  <2>1. [addr |-> B[k].addr + size, size |-> B[k].size - size] \in Block
    <3>1. B[k].addr + size \in Nat /\ B[k].size - size \in Nat
      BY BlockFacts
    <3> QED BY <3>1 DEF Block
  <2> DEFINE e == [addr |-> B[k].addr + size, size |-> B[k].size - size]
  <2>2. e \in Block /\ e.addr = B[k].addr + size /\ e.size = B[k].size - size
    BY <2>1
  <2>3. Taken(B, k, size) = [B EXCEPT ![k] = e]
    BY <1>2 DEF Taken, ReplaceAt
  <2> HIDE DEF e
  <2>4. /\ [B EXCEPT ![k] = e] \in Seq(Block) /\ Len([B EXCEPT ![k] = e]) = Len(B)
        /\ \A j \in 1..Len(B) : [B EXCEPT ![k] = e][j] = IF j = k THEN e ELSE B[j]
    BY <2>2, ExceptSeq
  <2> QED BY <1>2, <2>2, <2>3, <2>4
<1> QED BY <1>1, <1>2

\* What is taken from a block was in no other block, and what was free of blocks stays so.
LEMMA TakenFacts ==
  ASSUME NEW B \in Seq(Block), NEW k \in 1..Len(B), NEW size \in Nat \ {0}, size <= B[k].size,
         NEW lo \in Nat, NEW hi \in Nat, Ordered(B, lo, hi)
  PROVE  LET G == Taken(B, k, size)
             x0 == B[k].addr
         IN /\ G \in Seq(Block) /\ Ordered(G, lo, hi)
            /\ x0 \in Nat /\ lo <= x0 /\ x0 + size <= hi
            /\ Clear(G, x0, x0 + size)
            /\ \A x, y \in Int : x < y /\ Clear(B, x, y) =>
                 Clear(G, x, y) /\ (y <= x0 \/ x0 + size <= x)
<1> DEFINE G == Taken(B, k, size)
<1>0. Len(B) \in Nat /\ \A j \in 1..Len(B) : B[j] \in Block /\ B[j].addr \in Nat /\ B[j].size \in Nat
  BY BlockFacts
<1>1. CASE B[k].size = size
  <2>1. /\ G \in Seq(Block) /\ Len(G) = Len(B) - 1
        /\ \A j \in 1..(Len(B) - 1) : G[j] = IF j < k THEN B[j] ELSE B[j + 1]
    BY <1>1, TakenForm
  <2> HIDE DEF G
  <2> DEFINE at(j) == IF j < k THEN j ELSE j + 1
  <2>2. \A j \in 1..Len(G) : at(j) \in 1..Len(B) /\ at(j) # k /\ G[j] = B[at(j)]
    BY <1>0, <2>1
  <2>3. \A i, j \in 1..Len(G) : i < j => at(i) < at(j)
    BY <1>0, <2>1
  <2> HIDE DEF at
  <2>4. Ordered(G, lo, hi)
    BY <2>2, <2>3 DEF Ordered
  <2>5. Clear(G, B[k].addr, B[k].addr + size)
    <3> SUFFICES ASSUME NEW j \in 1..Len(G)
                 PROVE  End(G[j]) <= B[k].addr \/ B[k].addr + size <= G[j].addr
      BY DEF Clear
    <3>1. PICK i \in 1..Len(B) : i # k /\ G[j] = B[i]
      BY <2>2
    <3>2. CASE i < k
      <4>1. End(B[i]) < B[k].addr /\ End(B[i]) \in Nat
        BY <1>0, <3>2, SMTT(30) DEF Ordered, End
      <4> QED BY <1>0, <3>1, <4>1
    <3>3. CASE k < i
      <4>1. End(B[k]) < B[i].addr
        BY <3>3 DEF Ordered
      <4> QED BY <1>0, <1>1, <3>1, <4>1 DEF End
    <3> QED BY <1>0, <3>1, <3>2, <3>3
  <2>6. ASSUME NEW x \in Int, NEW y \in Int, x < y, Clear(B, x, y)
        PROVE  Clear(G, x, y) /\ (y <= B[k].addr \/ B[k].addr + size <= x)
    <3>1. Clear(G, x, y)
      BY <2>2, <2>6 DEF Clear
    <3>2. y <= B[k].addr \/ B[k].addr + size <= x
      BY <1>0, <1>1, <2>6 DEF Clear, End
    <3> QED BY <3>1, <3>2
  <2>7. lo <= B[k].addr /\ B[k].addr + size <= hi
    BY <1>0, <1>1 DEF Ordered, End
  <2> QED BY <1>0, <2>1, <2>4, <2>5, <2>6, <2>7 DEF G
<1>2. CASE B[k].size # size
  <2>1. /\ G \in Seq(Block) /\ Len(G) = Len(B)
        /\ \A j \in 1..Len(B) : j # k => G[j] = B[j]
        /\ G[k].addr = B[k].addr + size /\ G[k].size = B[k].size - size
    BY <1>2, TakenForm
  <2> HIDE DEF G
  <2>2. /\ End(G[k]) = End(B[k]) /\ G[k].size > 0 /\ G[k].addr > B[k].addr
        /\ G[k].addr \in Nat
    BY <1>0, <1>2, <2>1 DEF End
  <2>3. Ordered(G, lo, hi)
    <3>1. ASSUME NEW j \in 1..Len(G)
          PROVE  G[j].size > 0 /\ lo <= G[j].addr /\ End(G[j]) <= hi
      <4>1. CASE j = k
        BY <1>0, <2>1, <2>2, <4>1 DEF Ordered
      <4>2. CASE j # k
        BY <2>1, <4>2 DEF Ordered
      <4> QED BY <4>1, <4>2
    <3>2. ASSUME NEW i \in 1..Len(G), NEW j \in 1..Len(G), i < j
          PROVE  End(G[i]) < G[j].addr
      <4>0. End(B[i]) < B[j].addr /\ End(B[i]) \in Nat
        BY <1>0, <2>1, <3>2 DEF Ordered, End
      <4>1. CASE i = k
        BY <2>1, <2>2, <3>2, <4>0, <4>1
      <4>2. CASE j = k
        BY <1>0, <2>1, <2>2, <3>2, <4>0, <4>2
      <4>3. CASE i # k /\ j # k
        BY <2>1, <4>0, <4>3
      <4> QED BY <4>1, <4>2, <4>3
    <3> QED BY <3>1, <3>2 DEF Ordered
  <2>4. Clear(G, B[k].addr, B[k].addr + size)
    <3> SUFFICES ASSUME NEW j \in 1..Len(G)
                 PROVE  End(G[j]) <= B[k].addr \/ B[k].addr + size <= G[j].addr
      BY DEF Clear
    <3>1. CASE j = k
      BY <1>0, <2>1, <3>1
    <3>2. CASE j # k
      BY <1>0, <2>1, <3>2, SMTT(30) DEF Ordered, End
    <3> QED BY <3>1, <3>2
  <2>5. ASSUME NEW x \in Int, NEW y \in Int, x < y, Clear(B, x, y)
        PROVE  Clear(G, x, y) /\ (y <= B[k].addr \/ B[k].addr + size <= x)
    <3>1. End(B[k]) <= x \/ y <= B[k].addr
      BY <2>5 DEF Clear
    <3>2. Clear(G, x, y)
      <4> SUFFICES ASSUME NEW j \in 1..Len(G) PROVE End(G[j]) <= x \/ y <= G[j].addr
        BY DEF Clear
      <4>1. CASE j = k
        BY <1>0, <2>2, <3>1, <4>1
      <4>2. CASE j # k
        BY <2>1, <2>5, <4>2 DEF Clear
      <4> QED BY <4>1, <4>2
    <3> QED BY <1>0, <3>1, <3>2 DEF End
  <2>6. lo <= B[k].addr /\ B[k].addr + size <= hi
    BY <1>0, <1>2 DEF Ordered, End
  <2> QED BY <1>0, <2>1, <2>3, <2>4, <2>5, <2>6 DEF G
<1> QED BY <1>1, <1>2

-----------------------------------------------------------------------------
(* ggml_tallocr_alloc: the block it chooses and what it changes.           *)

\* BestFit is the index of a block, when there is one.
LEMMA BestFitIn ==
  ASSUME NEW a, a.blocks \in Seq(Block), NEW size \in Nat
  PROVE  /\ Len(a.blocks) = 0 => BestFit(a, size) = 0
         /\ Len(a.blocks) > 0 => BestFit(a, size) \in 1..Len(a.blocks)
<1> DEFINE last == Len(a.blocks)
           room == [k \in 1..(last - 1) |-> a.blocks[k].size]
           Better(j, k) == room[j] < room[k] \/ (room[j] = room[k] /\ j > k)
           fits == {k \in DOMAIN room : room[k] >= size}
<1>0. last \in Nat /\ \A k \in 1..(last - 1) : room[k] \in Nat
  BY BlockFacts
<1>1. DOMAIN room = 1..(last - 1)
  OBVIOUS
<1>2. BestFit(a, size) = IF fits = {} THEN last
                         ELSE CHOOSE k \in fits : \A j \in fits \ {k} : Better(k, j)
  BY DEF BestFit
<1> HIDE DEF room
<1>3. CASE fits = {}
  BY <1>0, <1>2, <1>3
<1>4. CASE fits # {}
  <2>1. PICK i \in fits : \A j \in fits : room[i] <= room[j]
    <3> DEFINE S == {room[k] : k \in fits}
    <3>1. S \in SUBSET Nat /\ S # {}
      BY <1>0, <1>1, <1>4
    <3>2. PICK s \in S : \A r \in S : s <= r
      <4> HIDE DEF S
      <4> QED BY <3>1, Least
    <3> QED BY <3>2
  <2>2. PICK k \in fits : room[k] = room[i] /\ \A j \in fits : room[j] = room[i] => j <= k
    <3> DEFINE S == {last - k : k \in {k \in fits : room[k] = room[i]}}
    <3>1. S \in SUBSET Nat /\ S # {}
      BY <1>0, <1>1, <2>1
    <3>2. PICK s \in S : \A r \in S : s <= r
      <4> HIDE DEF S
      <4> QED BY <3>1, Least
    <3>3. PICK k \in fits : room[k] = room[i] /\ s = last - k
      BY <3>2
    <3>4. \A j \in fits : room[j] = room[i] => last - j \in S
      OBVIOUS
    <3>5. ASSUME NEW j \in fits, room[j] = room[i] PROVE j <= k
      <4>1. s <= last - j
        BY <3>2, <3>4, <3>5
      <4>2. j \in Int /\ k \in Int
        BY <1>1
      <4> QED BY <1>0, <3>3, <4>1, <4>2
    <3> QED BY <3>3, <3>5
  <2>3. \A j \in fits \ {k} : Better(k, j)
    <3> SUFFICES ASSUME NEW j \in fits \ {k} PROVE Better(k, j)
      OBVIOUS
    <3>1. room[i] <= room[j] /\ room[i] \in Nat /\ room[j] \in Nat
      BY <1>0, <1>1, <2>1
    <3>2. CASE room[i] < room[j]
      BY <2>2, <3>2
    <3>3. CASE room[i] = room[j]
      <4>1. j <= k /\ j # k /\ j \in Int /\ k \in Int
        BY <1>1, <2>2, <3>3
      <4> QED BY <2>2, <3>3, <4>1
    <3> QED BY <3>1, <3>2, <3>3
  <2>4. BestFit(a, size) \in fits
    <3> HIDE DEF fits, Better
    <3> QED BY <1>2, <1>4, <2>3
  <2>5. BestFit(a, size) \in 1..(last - 1)
    BY <1>1, <2>4
  <2> QED BY <1>0, <2>5
<1> QED BY <1>3, <1>4

\* The choice of BestFit from the sizes of the blocks alone.
BestOf(room, last, size) ==
    LET Better(j, k) == room[j] < room[k] \/ (room[j] = room[k] /\ j > k)
        fits == {k \in DOMAIN room : room[k] >= size}
    IN IF fits = {} THEN last
       ELSE CHOOSE k \in fits : \A j \in fits \ {k} : Better(k, j)

\* The choice depends on the sizes of the blocks before the last only.
LEMMA BestFitSame ==
  ASSUME NEW a, NEW b, NEW size, Len(a.blocks) = Len(b.blocks),
         \A k \in 1..(Len(a.blocks) - 1) : a.blocks[k].size = b.blocks[k].size
  PROVE  BestFit(a, size) = BestFit(b, size)
<1>1. [k \in 1..(Len(a.blocks) - 1) |-> a.blocks[k].size]
        = [k \in 1..(Len(b.blocks) - 1) |-> b.blocks[k].size]
  OBVIOUS
<1>2. \A c : BestFit(c, size) =
         BestOf([k \in 1..(Len(c.blocks) - 1) |-> c.blocks[k].size], Len(c.blocks), size)
  BY DEF BestFit, BestOf
<1> QED BY <1>1, <1>2

\* The greater and the lesser of two numbers.
LEMMA MaxMinOfTwo ==
  ASSUME NEW x \in Int, NEW y \in Int
  PROVE  /\ Max({x, y}) = IF x >= y THEN x ELSE y
         /\ Min({x, y}) = IF x <= y THEN x ELSE y
BY DEF Max, Min

\* The greatest and the least of one number.
LEMMA MaxMinOfOne ==
  ASSUME NEW x \in Int
  PROVE  Max({x}) = x /\ Min({x}) = x
BY DEF Max, Min

\* The chosen block is too small, or there is none.
NoRoom(a, size) == BestFit(a, size) = 0 \/ a.blocks[BestFit(a, size)].size < size

\* What ggml_tallocr_alloc does, field by field.
AllocEffect(a, t, size, k, c) ==
    /\ Fields(c)
    /\ c.view_src = a.view_src /\ c.n_children = a.n_children /\ c.n_views = a.n_views
    /\ NoRoom(a, size) => /\ c.failed = TRUE /\ c.blocks = a.blocks /\ c.data = a.data
                          /\ c.max_size = a.max_size
    /\ ~NoRoom(a, size) =>
         /\ c.failed = a.failed
         /\ c.blocks = Taken(a.blocks, k, size)
         /\ c.data = [a.data EXCEPT ![t] = a.blocks[k].addr]
         /\ c.max_size = Max({a.max_size, a.blocks[k].addr + size})

\* Alloc has the effect AllocEffect says.
LEMMA AllocForm ==
  ASSUME NEW a, Fields(a), NEW t
  PROVE  AllocEffect(a, t, AllocSize(t), BestFit(a, AllocSize(t)), Alloc(a, t))
<1>a. PICK size : size = AllocSize(t)
  OBVIOUS
<1>b. PICK k : k = BestFit(a, size)
  OBVIOUS
<1>c. PICK c : c = Alloc(a, t)
  OBVIOUS
<1>1. CASE NoRoom(a, size)
  <2>1. c = [a EXCEPT !.failed = TRUE]
    BY <1>a, <1>b, <1>c, <1>1 DEF Alloc, NoRoom
  <2>2. AllocEffect(a, t, size, k, c)
    BY <1>1, <2>1 DEF Fields, AllocEffect
  <2> QED BY <1>a, <1>b, <1>c, <2>2
<1>2. CASE ~NoRoom(a, size)
  <2>1. c = [a EXCEPT !.blocks = Taken(a.blocks, k, size),
                      !.data[t] = a.blocks[k].addr,
                      !.max_size = Max({a.max_size, a.blocks[k].addr + size})]
    BY <1>a, <1>b, <1>c, <1>2 DEF Alloc, NoRoom, Taken
  <2>2. AllocEffect(a, t, size, k, c)
    BY <1>2, <2>1 DEF Fields, AllocEffect
  <2> QED BY <1>a, <1>b, <1>c, <2>2
<1> QED BY <1>1, <1>2

-----------------------------------------------------------------------------
(* ggml_tallocr_free_tensor: the blocks a place touches, and the block     *)
(* they become.                                                            *)

\* The place of size bytes at ptr, joined with the blocks p..q it touches, is the block e.
Joins(B, ptr, size, p, q, e) ==
    /\ p \in 1..(Len(B) + 1) /\ q \in (p - 1)..Len(B)
    /\ \A j \in 1..Len(B) : IF j < p THEN End(B[j]) < ptr ELSE End(B[j]) >= ptr
    /\ \A j \in 1..Len(B) : IF j > q THEN B[j].addr > ptr + size ELSE B[j].addr <= ptr + size
    /\ e \in Block
    /\ e.addr = IF p <= q /\ B[p].addr < ptr THEN B[p].addr ELSE ptr
    /\ End(e) = IF p <= q /\ End(B[q]) > ptr + size THEN End(B[q]) ELSE ptr + size

\* A set that is closed upwards in 1..n is an upper part of it.
LEMMA Prefix ==
  ASSUME NEW n \in Nat, NEW S \in SUBSET (1..n),
         \A i, j \in 1..n : i < j /\ i \in S => j \in S
  PROVE  \E m \in 1..(n + 1) : \A j \in 1..n : j \in S <=> j >= m
<1> DEFINE T == S \cup {n + 1}
<1>1. T \in SUBSET Nat /\ T # {}
  OBVIOUS
<1>2. PICK m \in T : \A r \in T : m <= r
  <2> HIDE DEF T
  <2> QED BY <1>1, Least
<1>3. m \in 1..(n + 1)
  OBVIOUS
<1>4. ASSUME NEW j \in 1..n PROVE j \in S <=> j >= m
  <2>1. j \in S => j >= m
    BY <1>2
  <2>2. ASSUME j >= m PROVE j \in S
    <3>1. m \in S /\ m \in 1..n
      BY <1>3, <2>2
    <3> QED BY <2>2, <3>1
  <2> QED BY <2>1, <2>2
<1> QED BY <1>3, <1>4

\* The blocks that end where the place begins or begin where it ends.
Touching(B, ptr, size) ==
    {k \in DOMAIN B : B[k].addr + B[k].size = ptr \/ ptr + size = B[k].addr}

\* The place at ptr and the blocks p..q as one block.
Whole(B, ptr, size, p, q) ==
    LET from == IF p <= q THEN Min({ptr, B[p].addr}) ELSE ptr
        to == IF p <= q THEN Max({ptr + size, End(B[q])}) ELSE ptr + size
    IN [addr |-> from, size |-> to - from]

\* Which blocks a place touches that no block overlaps.
LEMMA JoinedBlock ==
  ASSUME NEW B \in Seq(Block), NEW ptr \in Nat, NEW size \in Nat \ {0},
         NEW lo \in Nat, NEW hi \in Nat, Ordered(B, lo, hi), Clear(B, ptr, ptr + size)
  PROVE  \E p, q, e :
           /\ Joins(B, ptr, size, p, q, e)
           /\ Touching(B, ptr, size) = p..q
           /\ e = Whole(B, ptr, size, p, q)
<1> DEFINE n == Len(B)
           S == {k \in 1..n : End(B[k]) >= ptr}
           U == {k \in 1..n : B[k].addr > ptr + size}
<1>0. n \in Nat /\ DOMAIN B = 1..n
      /\ \A j \in 1..n : /\ B[j].addr \in Nat /\ B[j].size \in Nat /\ End(B[j]) \in Nat
                         /\ B[j].addr < End(B[j])
                         /\ End(B[j]) <= ptr \/ ptr + size <= B[j].addr
  BY BlockFacts, LenProperties DEF Ordered, Clear, End
<1>1. \A i, j \in 1..n : i < j => End(B[i]) < B[j].addr
  BY DEF Ordered
<1>2. PICK p \in 1..(n + 1) : \A j \in 1..n : j \in S <=> j >= p
  <2>1. \A i, j \in 1..n : i < j /\ i \in S => j \in S
    BY <1>0, <1>1
  <2>2. S \in SUBSET (1..n)
    OBVIOUS
  <2> HIDE DEF S
  <2> QED BY <1>0, <2>1, <2>2, Prefix
<1>3. PICK r \in 1..(n + 1) : \A j \in 1..n : j \in U <=> j >= r
  <2>1. \A i, j \in 1..n : i < j /\ i \in U => j \in U
    BY <1>0, <1>1
  <2>2. U \in SUBSET (1..n)
    OBVIOUS
  <2> HIDE DEF U
  <2> QED BY <1>0, <2>1, <2>2, Prefix
<1> DEFINE q == r - 1
<1>4. p <= r
  <2>1. \A j \in 1..n : j \in U => j \in S
    BY <1>0
  <2> QED BY <1>0, <1>2, <1>3, <2>1
<1>5. q \in (p - 1)..n
  BY <1>0, <1>3, <1>4
<1>6. \A j \in 1..n : IF j < p THEN End(B[j]) < ptr ELSE End(B[j]) >= ptr
  BY <1>0, <1>2
<1>7. \A j \in 1..n : IF j > q THEN B[j].addr > ptr + size ELSE B[j].addr <= ptr + size
  BY <1>0, <1>3
<1>8. Touching(B, ptr, size) = p..q
  <2>1. \A j \in 1..n : (End(B[j]) = ptr \/ ptr + size = B[j].addr) <=> (j >= p /\ j <= q)
    <3> SUFFICES ASSUME NEW j \in 1..n
                 PROVE  (End(B[j]) = ptr \/ ptr + size = B[j].addr) <=> (j >= p /\ j <= q)
      OBVIOUS
    <3>1. /\ B[j].addr \in Nat /\ End(B[j]) \in Nat /\ B[j].addr < End(B[j])
          /\ End(B[j]) <= ptr \/ ptr + size <= B[j].addr
      BY <1>0
    <3>2. (j < p <=> End(B[j]) < ptr) /\ (j > q <=> B[j].addr > ptr + size)
      BY <1>6, <1>7, <3>1
    <3>3. p \in Int /\ q \in Int /\ j \in Int
      BY <1>0
    <3> HIDE DEF q
    <3> QED BY <3>1, <3>2, <3>3, SMTT(30)
  <2>2. Touching(B, ptr, size) = {j \in 1..n : j >= p /\ j <= q}
    BY <1>0, <2>1 DEF Touching, End
  <2>3. {j \in 1..n : j >= p /\ j <= q} = p..q
    BY <1>0, <1>2, <1>5
  <2> QED BY <2>2, <2>3
<1> DEFINE from == IF p <= q THEN Min({ptr, B[p].addr}) ELSE ptr
           to == IF p <= q THEN Max({ptr + size, End(B[q])}) ELSE ptr + size
           e == [addr |-> from, size |-> to - from]
<1>9. /\ from = IF p <= q /\ B[p].addr < ptr THEN B[p].addr ELSE ptr
      /\ to = IF p <= q /\ End(B[q]) > ptr + size THEN End(B[q]) ELSE ptr + size
  <2>1. CASE p <= q
    <3>1. p \in 1..n /\ q \in 1..n
      BY <1>0, <1>2, <1>5, <2>1
    <3>2. B[p].addr \in Nat /\ End(B[q]) \in Nat
      BY <1>0, <3>1
    <3>0. ptr \in Int /\ ptr + size \in Int
      OBVIOUS
    <3>a. \A x \in Int : Min({ptr, x}) = IF ptr <= x THEN ptr ELSE x
      BY <3>0, MaxMinOfTwo
    <3>b. \A x \in Int : Max({ptr + size, x}) = IF ptr + size >= x THEN ptr + size ELSE x
      <4> DEFINE z == ptr + size
      <4>1. z \in Int
        BY <3>0
      <4> HIDE DEF z
      <4> QED BY <4>1, MaxMinOfTwo
    <3>3. /\ Min({ptr, B[p].addr}) = IF ptr <= B[p].addr THEN ptr ELSE B[p].addr
          /\ Max({ptr + size, End(B[q])}) = IF ptr + size >= End(B[q]) THEN ptr + size ELSE End(B[q])
      <4> HIDE DEF q
      <4> QED BY <3>2, <3>a, <3>b
    <3>4. /\ from = IF ptr <= B[p].addr THEN ptr ELSE B[p].addr
          /\ to = IF ptr + size >= End(B[q]) THEN ptr + size ELSE End(B[q])
      BY <2>1, <3>3
    <3> HIDE DEF from, to, q
    <3>5. from = IF p <= q /\ B[p].addr < ptr THEN B[p].addr ELSE ptr
      BY <2>1, <3>2, <3>4
    <3>6. to = IF p <= q /\ End(B[q]) > ptr + size THEN End(B[q]) ELSE ptr + size
      BY <2>1, <3>2, <3>4
    <3> QED BY <3>5, <3>6
  <2>2. CASE ~(p <= q)
    BY <2>2
  <2> HIDE DEF from, to, q
  <2> QED BY <2>1, <2>2
<1>10. from \in Nat /\ to \in Nat /\ from <= ptr /\ ptr + size <= to
  <2>1. p <= q => p \in 1..n /\ q \in 1..n
    BY <1>0, <1>2, <1>5
  <2> HIDE DEF from, to
  <2> QED BY <1>0, <1>9, <2>1, SMTT(30)
<1>11. e \in Block /\ e.addr = from /\ End(e) = to
  <2> HIDE DEF from, to
  <2>1. to - from \in Nat /\ from + (to - from) = to
    BY <1>10
  <2> QED BY <1>10, <2>1 DEF Block, End
<1>12. Joins(B, ptr, size, p, q, e)
  <2>1. p \in 1..(n + 1) /\ q \in (p - 1)..n
    BY <1>2, <1>5
  <2>2. /\ e.addr = IF p <= q /\ B[p].addr < ptr THEN B[p].addr ELSE ptr
        /\ End(e) = IF p <= q /\ End(B[q]) > ptr + size THEN End(B[q]) ELSE ptr + size
    <3> HIDE DEF from, to, e, q
    <3> QED BY <1>9, <1>11
  <2> HIDE DEF from, to, e, q
  <2> QED BY <2>1, <1>6, <1>7, <1>11, <2>2, Zenon DEF Joins
<1>13. e = Whole(B, ptr, size, p, q)
  BY DEF Whole
<1> HIDE DEF e, q
<1> QED BY <1>8, <1>12, <1>13

\* What is given back is in the blocks, and nothing else is added to them.
LEMMA GivenFacts ==
  ASSUME NEW B \in Seq(Block), NEW ptr \in Nat, NEW size \in Nat \ {0},
         NEW lo \in Nat, NEW hi \in Nat, Ordered(B, lo, hi), Clear(B, ptr, ptr + size),
         lo <= ptr, ptr + size <= hi, NEW p, NEW q, NEW e, Joins(B, ptr, size, p, q, e)
  PROVE  LET G == Spliced(B, p, e, q) IN
         /\ G \in Seq(Block) /\ Ordered(G, lo, hi)
         /\ \A x, y \in Int : x < y /\ Clear(B, x, y) /\ (y <= ptr \/ ptr + size <= x) =>
              Clear(G, x, y)
<1> DEFINE G == Spliced(B, p, e, q)
           n == Len(B)
<1>0. n \in Nat
      /\ \A j \in 1..n : /\ B[j].addr \in Nat /\ B[j].size \in Nat /\ End(B[j]) \in Nat
                         /\ B[j].addr < End(B[j]) /\ B[j].size > 0
                         /\ lo <= B[j].addr /\ End(B[j]) <= hi
                         /\ End(B[j]) <= ptr \/ ptr + size <= B[j].addr
  BY BlockFacts DEF Ordered, Clear, End
<1>1. \A i, j \in 1..n : i < j => End(B[i]) < B[j].addr
  BY DEF Ordered
<1>2. /\ p \in 1..(n + 1) /\ q \in (p - 1)..n
      /\ p \in Int /\ q \in Int /\ p <= q + 1
      /\ p <= q => p \in 1..n /\ q \in 1..n
  <2>1. p \in 1..(n + 1) /\ q \in (p - 1)..n
    BY DEF Joins
  <2> QED BY <1>0, <2>1
<1>3. \A j \in 1..n : (j < p => End(B[j]) < ptr) /\ (j >= p => End(B[j]) >= ptr)
  BY <1>0, <1>2 DEF Joins
<1>4. \A j \in 1..n : (j > q => B[j].addr > ptr + size) /\ (j <= q => B[j].addr <= ptr + size)
  BY <1>0, <1>2 DEF Joins
<1>5. /\ e \in Block
      /\ p <= q /\ B[p].addr < ptr => e.addr = B[p].addr
      /\ ~(p <= q /\ B[p].addr < ptr) => e.addr = ptr
      /\ p <= q /\ End(B[q]) > ptr + size => End(e) = End(B[q])
      /\ ~(p <= q /\ End(B[q]) > ptr + size) => End(e) = ptr + size
  BY DEF Joins
<1>6. /\ e.addr \in Nat /\ e.size \in Nat /\ End(e) \in Nat
      /\ lo <= e.addr /\ e.addr <= ptr /\ ptr + size <= End(e) /\ End(e) <= hi
      /\ e.size > 0
  <2>1. e.addr \in Nat /\ e.size \in Nat
    BY <1>5 DEF Block
  <2>2. lo <= e.addr /\ e.addr <= ptr
    BY <1>0, <1>2, <1>5
  <2>3. ptr + size <= End(e) /\ End(e) <= hi
    BY <1>0, <1>2, <1>5
  <2> QED BY <2>1, <2>2, <2>3 DEF End
<1>7. /\ G \in Seq(Block) /\ Len(G) = n - (q - p)
      /\ \A j \in 1..Len(G) : G[j] = IF j < p THEN B[j] ELSE IF j = p THEN e ELSE B[j + (q - p)]
  BY <1>2, <1>5, SpliceFacts
<1> DEFINE d == q - p
<1>8. /\ d \in Int /\ Len(G) \in Int
      /\ \A j \in 1..Len(G) : j < p => j \in 1..n /\ G[j] = B[j]
      /\ \A j \in 1..Len(G) : j = p => G[j] = e
      /\ \A j \in 1..Len(G) : j > p => j + d \in 1..n /\ j + d > q /\ G[j] = B[j + d]
  <2>0. d \in Int /\ Len(G) = n - d
    BY <1>0, <1>2, <1>7
  <2> HIDE DEF G, n
  <2>1. ASSUME NEW j \in 1..Len(G), j < p PROVE j \in 1..n /\ G[j] = B[j]
    <3>1. j \in 1..n
      BY <1>0, <1>2, <2>0, <2>1
    <3> QED BY <1>7, <2>1, <3>1
  <2>2. ASSUME NEW j \in 1..Len(G), j = p PROVE G[j] = e
    BY <1>2, <1>7, <2>2
  <2>3. ASSUME NEW j \in 1..Len(G), j > p PROVE j + d \in 1..n /\ j + d > q /\ G[j] = B[j + d]
    <3>1. j \in Int /\ j <= n - d
      BY <1>0, <2>0
    <3>2. j + d \in 1..n /\ j + d > q
      BY <1>0, <1>2, <2>0, <2>3, <3>1
    <3>3. ~(j < p) /\ j # p
      BY <1>2, <2>3, <3>1
    <3> QED BY <1>7, <3>2, <3>3
  <2> HIDE DEF d
  <2> QED BY <1>0, <2>0, <2>1, <2>2, <2>3
<1>9. \A j \in 1..n : j < p => End(B[j]) < e.addr
  BY <1>0, <1>1, <1>2, <1>3, <1>5
<1>10. \A j \in 1..n : j > q => End(e) < B[j].addr
  BY <1>0, <1>1, <1>2, <1>4, <1>5
<1> HIDE DEF G, d, n
<1>11. Ordered(G, lo, hi)
  <2>1. ASSUME NEW j \in 1..Len(G)
        PROVE  G[j].size > 0 /\ lo <= G[j].addr /\ End(G[j]) <= hi
    <3>1. CASE j < p
      BY <1>0, <1>8, <3>1
    <3>2. CASE j = p
      BY <1>6, <1>8, <3>2
    <3>3. CASE j > p
      BY <1>0, <1>8, <3>3
    <3>4. j < p \/ j = p \/ j > p
      BY <1>2, <1>8
    <3> QED BY <3>1, <3>2, <3>3, <3>4
  <2>2. ASSUME NEW i \in 1..Len(G), NEW j \in 1..Len(G), i < j
        PROVE  End(G[i]) < G[j].addr
    <3>0. i \in Int /\ j \in Int
      BY <1>8
    <3>1. CASE j < p
      <4>1. i < p
        BY <1>2, <2>2, <3>0, <3>1
      <4> QED BY <1>1, <1>8, <2>2, <3>1, <4>1
    <3>2. CASE j = p
      <4>1. i < p
        BY <1>2, <2>2, <3>0, <3>2
      <4> QED BY <1>8, <1>9, <3>2, <4>1
    <3>3. CASE j > p /\ i < p
      <4>1. i < j + d
        BY <1>2, <1>8, <3>0, <3>3
      <4> QED BY <1>1, <1>8, <3>3, <4>1
    <3>4. CASE j > p /\ i = p
      BY <1>8, <1>10, <3>4
    <3>5. CASE j > p /\ i > p
      <4>1. i + d < j + d
        BY <1>8, <2>2, <3>0
      <4> QED BY <1>1, <1>8, <3>5, <4>1
    <3>6. j < p \/ j = p \/ (j > p /\ i < p) \/ (j > p /\ i = p) \/ (j > p /\ i > p)
      BY <1>2, <3>0
    <3> QED BY <3>1, <3>2, <3>3, <3>4, <3>5, <3>6
  <2> QED BY <2>1, <2>2 DEF Ordered
<1>12. ASSUME NEW x \in Int, NEW y \in Int, x < y, Clear(B, x, y), y <= ptr \/ ptr + size <= x
       PROVE  Clear(G, x, y)
  <2>0. \A j \in 1..n : End(B[j]) <= x \/ y <= B[j].addr
    BY <1>12 DEF Clear, n
  <2>1. End(e) <= x \/ y <= e.addr
    <3>1. CASE y <= ptr
      <4>1. CASE p <= q /\ B[p].addr < ptr
        <5>1. p \in 1..n /\ End(B[p]) >= ptr /\ e.addr = B[p].addr
          BY <1>2, <1>3, <1>5, <4>1
        <5>2. End(B[p]) \in Nat /\ ~(End(B[p]) <= x)
          BY <1>0, <1>12, <3>1, <5>1
        <5> QED BY <2>0, <5>1, <5>2
      <4>2. CASE ~(p <= q /\ B[p].addr < ptr)
        BY <1>5, <3>1, <4>2
      <4> QED BY <4>1, <4>2
    <3>2. CASE ptr + size <= x
      <4>1. CASE p <= q /\ End(B[q]) > ptr + size
        <5>1. q \in 1..n /\ B[q].addr <= ptr + size /\ End(e) = End(B[q])
          BY <1>2, <1>4, <1>5, <4>1
        <5>2. ~(y <= B[q].addr)
          BY <1>0, <1>12, <3>2, <5>1
        <5> QED BY <2>0, <5>1, <5>2
      <4>2. CASE ~(p <= q /\ End(B[q]) > ptr + size)
        BY <1>5, <3>2, <4>2
      <4> QED BY <4>1, <4>2
    <3> QED BY <1>12, <3>1, <3>2
  <2>2. ASSUME NEW j \in 1..Len(G) PROVE End(G[j]) <= x \/ y <= G[j].addr
    <3>1. CASE j < p
      BY <1>8, <2>0, <3>1
    <3>2. CASE j = p
      BY <1>8, <2>1, <3>2
    <3>3. CASE j > p
      BY <1>8, <2>0, <3>3
    <3>4. j < p \/ j = p \/ j > p
      BY <1>2, <1>8
    <3> QED BY <3>1, <3>2, <3>3, <3>4
  <2> QED BY <2>2 DEF Clear
<1> QED BY <1>7, <1>11, <1>12 DEF G

\* The ends of an interval.
LEMMA IntervalEnds ==
  ASSUME NEW p \in Int, NEW q \in Int, p <= q
  PROVE  Min(p..q) = p /\ Max(p..q) = q
<1>1. p \in p..q /\ q \in p..q
  OBVIOUS
<1>2. \A x \in p..q : (\A y \in p..q : x <= y) <=> x = p
  OBVIOUS
<1>3. \A x \in p..q : (\A y \in p..q : x >= y) <=> x = q
  OBVIOUS
<1> QED BY <1>1, <1>2, <1>3 DEF Min, Max

\* What ggml_tallocr_free_tensor does, field by field.
FreeEffect(a, ptr, size, c) ==
    /\ Fields(c)
    /\ c.view_src = a.view_src /\ c.n_children = a.n_children /\ c.n_views = a.n_views
    /\ c.data = a.data /\ c.max_size = a.max_size
    /\ \E p, q, e :
         /\ Joins(a.blocks, ptr, size, p, q, e)
         /\ q < p /\ Len(a.blocks) >= MaxBlocks => c.failed = TRUE /\ c.blocks = a.blocks
         /\ ~(q < p /\ Len(a.blocks) >= MaxBlocks) =>
              c.failed = a.failed /\ c.blocks = Spliced(a.blocks, p, e, q)

\* FreeTensor has the effect FreeEffect says.
LEMMA FreeForm ==
  ASSUME NEW a, Fields(a), a.blocks \in Seq(Block), NEW t, IsOwn(a, t),
         a.data[t] \in Nat, AllocSize(t) \in Nat \ {0}, NEW lo \in Nat, NEW hi \in Nat,
         Ordered(a.blocks, lo, hi), Clear(a.blocks, a.data[t], a.data[t] + AllocSize(t))
  PROVE  FreeEffect(a, a.data[t], AllocSize(t), FreeTensor(a, t))
<1>a. PICK ptr \in Nat : ptr = a.data[t]
  OBVIOUS
<1>b. PICK size \in Nat \ {0} : size = AllocSize(t)
  OBVIOUS
<1>c. PICK c : c = FreeTensor(a, t)
  OBVIOUS
<1> DEFINE B == a.blocks
<1>1. PICK p, q, e :
           /\ Joins(B, ptr, size, p, q, e)
           /\ Touching(B, ptr, size) = p..q
           /\ e = Whole(B, ptr, size, p, q)
  BY <1>a, <1>b, JoinedBlock
<1>2. /\ Len(B) \in Nat /\ p \in 1..(Len(B) + 1) /\ q \in (p - 1)..Len(B)
      /\ p \in Int /\ q \in Int /\ p <= q + 1
  <2>1. Len(B) \in Nat
    BY LenProperties
  <2> QED BY <1>1, <2>1 DEF Joins
<1>3. Touching(B, ptr, size)
        = {k \in DOMAIN a.blocks : \/ a.blocks[k].addr + a.blocks[k].size = a.data[t]
                                   \/ a.data[t] + AllocSize(t) = a.blocks[k].addr}
  BY <1>a, <1>b DEF Touching
<1>4. ASSUME p <= q PROVE FreeEffect(a, ptr, size, c)
  <2>1. Touching(B, ptr, size) # {} /\ Min(Touching(B, ptr, size)) = p /\ Max(Touching(B, ptr, size)) = q
    <3>1. p \in p..q /\ Min(p..q) = p /\ Max(p..q) = q
      BY <1>2, <1>4, IntervalEnds
    <3> QED BY <1>1, <3>1, Zenon
  <2>2. e = LET from == Min({ptr, B[p].addr})
                to == Max({ptr + size, B[q].addr + B[q].size})
            IN [addr |-> from, size |-> to - from]
    BY <1>1, <1>4 DEF End, Whole
  <2>3. c = [a EXCEPT !.blocks = Spliced(B, p, e, q)]
    <3>1. c = [a EXCEPT !.blocks =
                 SubSeq(@, 1, Min(Touching(B, ptr, size)) - 1)
                   \o <<LET from == Min({a.data[t], a.blocks[Min(Touching(B, ptr, size))].addr})
                            to == Max({a.data[t] + AllocSize(t),
                                       a.blocks[Max(Touching(B, ptr, size))].addr
                                         + a.blocks[Max(Touching(B, ptr, size))].size})
                        IN [addr |-> from, size |-> to - from]>>
                   \o SubSeq(@, Max(Touching(B, ptr, size)) + 1, Len(@))]
      BY <1>a, <1>b, <1>c, <1>3, <2>1 DEF FreeTensor
    <3> QED BY <1>a, <1>b, <2>1, <2>2, <3>1 DEF Spliced
  <2>4. ~(q < p)
    BY <1>2, <1>4
  <2> QED BY <1>1, <2>3, <2>4 DEF Fields, FreeEffect
<1>5. ASSUME q < p PROVE FreeEffect(a, ptr, size, c)
  <2>1. Touching(B, ptr, size) = {} /\ q = p - 1
    BY <1>1, <1>2, <1>5
  <2>2. CASE Len(B) >= MaxBlocks
    <3>1. c = [a EXCEPT !.failed = TRUE]
      BY <1>a, <1>b, <1>c, <1>3, <2>1, <2>2 DEF FreeTensor
    <3> QED BY <1>1, <1>5, <2>2, <3>1 DEF Fields, FreeEffect
  <2>3. CASE ~(Len(B) >= MaxBlocks)
    <3>1. e = [addr |-> ptr, size |-> size]
      <4>1. ~(p <= q)
        BY <1>2, <1>5
      <4>2. e = [addr |-> ptr, size |-> ptr + size - ptr]
        BY <1>1, <4>1 DEF Whole
      <4>3. ptr + size - ptr = size
        OBVIOUS
      <4> QED BY <4>2, <4>3
    <3>2. {k \in DOMAIN B : B[k].addr < ptr} = 1..(p - 1)
      <4>0. /\ DOMAIN B = 1..Len(B)
            /\ \A j \in 1..Len(B) : B[j].addr \in Nat /\ End(B[j]) \in Nat /\ B[j].addr <= End(B[j])
        <5>1. DOMAIN B = 1..Len(B) /\ \A j \in 1..Len(B) : B[j].addr \in Nat /\ B[j].size \in Nat
          BY BlockFacts, LenProperties
        <5> QED BY <5>1 DEF End
      <4>1. \A j \in 1..Len(B) : (j < p => End(B[j]) < ptr) /\ (j >= p => B[j].addr > ptr + size)
        <5>1. \A j \in 1..Len(B) : j >= p => j > q
          BY <1>2, <1>5
        <5> QED BY <1>1, <1>2, <5>1 DEF Joins
      <4>2. \A j \in 1..Len(B) : B[j].addr < ptr <=> j < p
        <5> SUFFICES ASSUME NEW j \in 1..Len(B) PROVE B[j].addr < ptr <=> j < p
          OBVIOUS
        <5>1. B[j].addr \in Nat /\ End(B[j]) \in Nat /\ B[j].addr <= End(B[j])
          BY <4>0
        <5>2. (j < p /\ End(B[j]) < ptr) \/ (j >= p /\ B[j].addr > ptr + size)
          BY <1>2, <4>1
        <5>3. j \in Int
          BY <1>2
        <5> QED BY <1>2, <5>1, <5>2, <5>3
      <4> QED BY <1>2, <4>0, <4>2, SMTT(30)
    <3>3. Cardinality(1..(p - 1)) = p - 1
      BY <1>2, FS_Interval
    <3>4. c = [a EXCEPT !.blocks = InsertAt(@, Cardinality({k \in DOMAIN B : B[k].addr < ptr}) + 1, e)]
      BY <1>a, <1>b, <1>c, <1>3, <2>1, <2>3, <3>1 DEF FreeTensor
    <3>5. InsertAt(B, (p - 1) + 1, e) = Spliced(B, p, e, q)
      <4>1. (p - 1) + 1 = p /\ q + 1 = p
        BY <1>2, <2>1
      <4> QED BY <4>1 DEF InsertAt, Spliced
    <3>6. c = [a EXCEPT !.blocks = Spliced(B, p, e, q)]
      BY <3>2, <3>3, <3>4, <3>5
    <3> QED BY <1>1, <2>3, <3>6 DEF Fields, FreeEffect
  <2> QED BY <2>2, <2>3
<1>6. p <= q \/ q < p
  BY <1>2
<1>7. FreeEffect(a, ptr, size, c)
  BY <1>4, <1>5, <1>6
<1> QED BY <1>a, <1>b, <1>c, <1>7

-----------------------------------------------------------------------------
(* Folds as sequences of states.                                           *)

\* The operators that the model folds over sequences.
Step(k, a, x) ==
    IF k = 1 THEN Release(a, x) ELSE IF k = 2 THEN AllocateNode(a, x)
    ELSE IF k = 3 THEN AllocInput(a, x) ELSE PlaceNode(a, x)

\* g folds step k over the elements of s at the places S.
FoldsOn(g, k, base, s, T) ==
    g = [S \in SUBSET T |-> IF S = {} THEN base
                            ELSE Step(k, g[S \ {Max(S)}], s[Max(S)])]

\* Functions on one set with the same values are equal.
LEMMA Extensional ==
  ASSUME NEW S, NEW f, NEW g, f = [x \in S |-> f[x]], g = [x \in S |-> g[x]],
         \A x \in S : f[x] = g[x]
  PROVE  f = g
OBVIOUS

\* The greatest place in a part of 1..(i + 1) that holds i + 1.
LEMMA TopOf ==
  ASSUME NEW i \in Nat, NEW S \in SUBSET (1..(i + 1)), i + 1 \in S
  PROVE  Max(S) = i + 1
<1>1. \A x \in S : (\A y \in S : x >= y) <=> x = i + 1
  OBVIOUS
<1> QED BY <1>1 DEF Max

\* A fold over n places has a function that computes it.
LEMMA FoldExists ==
  ASSUME NEW k, NEW base, NEW s, NEW n \in Nat
  PROVE  \E g : FoldsOn(g, k, base, s, 1..n)
<1> DEFINE Good == {i \in 0..n : \E g : FoldsOn(g, k, base, s, 1..i)}
<1>1. 0 \in Good
  <2> DEFINE g == [S \in SUBSET (1..0) |-> base]
  <2>1. 1..0 = {}
    OBVIOUS
  <2>2. \A S \in SUBSET (1..0) : S = {}
    BY <2>1
  <2>3. FoldsOn(g, k, base, s, 1..0)
    <3> DEFINE h == [S \in SUBSET (1..0) |-> IF S = {} THEN base
                            ELSE Step(k, g[S \ {Max(S)}], s[Max(S)])]
    <3>1. \A S \in SUBSET (1..0) : g[S] = h[S]
      BY <2>2
    <3>2. g = [S \in SUBSET (1..0) |-> g[S]] /\ h = [S \in SUBSET (1..0) |-> h[S]]
      OBVIOUS
    <3> HIDE DEF g, h
    <3>3. g = h
      BY <3>1, <3>2, Extensional
    <3> QED BY <3>3 DEF FoldsOn, h
  <2> QED BY <2>3
<1>2. ASSUME NEW i \in 0..(n - 1), i \in Good PROVE i + 1 \in Good
  <2>1. PICK f : FoldsOn(f, k, base, s, 1..i)
    BY <1>2
  <2> DEFINE g == [S \in SUBSET (1..(i + 1)) |->
                     IF i + 1 \in S THEN Step(k, f[S \ {i + 1}], s[i + 1]) ELSE f[S]]
             h == [S \in SUBSET (1..(i + 1)) |-> IF S = {} THEN base
                            ELSE Step(k, g[S \ {Max(S)}], s[Max(S)])]
  <2>2. \A S \in SUBSET (1..i) : g[S] = f[S]
    OBVIOUS
  <2>3. \A S \in SUBSET (1..(i + 1)) : i + 1 \in S =>
           /\ Max(S) = i + 1 /\ S \ {i + 1} \in SUBSET (1..i) /\ S # {}
    BY TopOf
  <2>4. \A S \in SUBSET (1..(i + 1)) : i + 1 \notin S => S \in SUBSET (1..i)
    OBVIOUS
  <2>5. \A S \in SUBSET (1..i) : f[S] = IF S = {} THEN base
                                        ELSE Step(k, f[S \ {Max(S)}], s[Max(S)])
    BY <2>1 DEF FoldsOn
  <2>6. ASSUME NEW S \in SUBSET (1..(i + 1)) PROVE g[S] = h[S]
    <3>1. CASE i + 1 \in S
      <4>1. g[S] = Step(k, f[S \ {i + 1}], s[i + 1])
        BY <3>1
      <4>2. h[S] = Step(k, g[S \ {i + 1}], s[i + 1])
        BY <2>3, <3>1
      <4>3. g[S \ {i + 1}] = f[S \ {i + 1}]
        BY <2>2, <2>3, <3>1
      <4> QED BY <4>1, <4>2, <4>3
    <3>2. CASE i + 1 \notin S
      <4>1. S \in SUBSET (1..i) /\ S \ {Max(S)} \in SUBSET (1..i)
        BY <2>4, <3>2
      <4>2. g[S] = f[S] /\ g[S \ {Max(S)}] = f[S \ {Max(S)}]
        BY <2>2, <4>1
      <4>3. h[S] = IF S = {} THEN base ELSE Step(k, g[S \ {Max(S)}], s[Max(S)])
        OBVIOUS
      <4> HIDE DEF g, h
      <4> QED BY <2>5, <4>1, <4>2, <4>3
    <3> QED BY <3>1, <3>2
  <2>7. g = [S \in SUBSET (1..(i + 1)) |-> g[S]] /\ h = [S \in SUBSET (1..(i + 1)) |-> h[S]]
    OBVIOUS
  <2>8. g = h
    <3> HIDE DEF g, h
    <3> QED BY <2>6, <2>7, Extensional
  <2>9. FoldsOn(g, k, base, s, 1..(i + 1))
    <3>1. h = [S \in SUBSET (1..(i + 1)) |-> IF S = {} THEN base
                            ELSE Step(k, g[S \ {Max(S)}], s[Max(S)])]
      OBVIOUS
    <3> HIDE DEF g, h
    <3> QED BY <2>8, <3>1 DEF FoldsOn
  <2>10. i + 1 \in 0..n
    OBVIOUS
  <2> HIDE DEF g, h
  <2> QED BY <2>9, <2>10
<1> HIDE DEF Good
<1>3. n \in Good
  BY <1>1, <1>2, Induction
<1> QED BY <1>3 DEF Good

\* The states a fold goes through: h[i] is reached after the first i elements of s.
Passes(h, k, base, s) ==
    /\ h[0] = base
    /\ \A i \in 1..Len(s) : h[i] = Step(k, h[i - 1], s[i])

\* The value of that fold.
FoldOf(k, base, s) == (CHOOSE g : FoldsOn(g, k, base, s, DOMAIN s))[DOMAIN s]

\* A fold goes through states, one step each, to its value.
LEMMA FoldPasses ==
  ASSUME NEW k, NEW base, NEW s, Len(s) \in Nat, DOMAIN s = 1..Len(s)
  PROVE  \E h : Passes(h, k, base, s) /\ h[Len(s)] = FoldOf(k, base, s)
<1>0. \E f : FoldsOn(f, k, base, s, DOMAIN s)
  BY FoldExists
<1>1. PICK g : FoldsOn(g, k, base, s, 1..Len(s)) /\ FoldOf(k, base, s) = g[1..Len(s)]
  <2> DEFINE f == CHOOSE f : FoldsOn(f, k, base, s, DOMAIN s)
  <2>1. FoldsOn(f, k, base, s, DOMAIN s)
    BY <1>0
  <2>2. FoldOf(k, base, s) = f[DOMAIN s]
    BY DEF FoldOf
  <2> HIDE DEF f
  <2> QED BY <2>1, <2>2
<1> DEFINE h == [i \in 0..Len(s) |-> g[1..i]]
<1>3. \A S \in SUBSET (1..Len(s)) : g[S] = IF S = {} THEN base
                                        ELSE Step(k, g[S \ {Max(S)}], s[Max(S)])
  BY <1>1 DEF FoldsOn
<1>4. h[0] = base
  <2>1. 1..0 = {}
    OBVIOUS
  <2>2. g[{}] = base
    BY <1>3
  <2>3. h[0] = g[1..0]
    OBVIOUS
  <2> HIDE DEF h
  <2> QED BY <2>1, <2>2, <2>3
<1>5. ASSUME NEW i \in 1..Len(s) PROVE h[i] = Step(k, h[i - 1], s[i])
  <2>0. i \in 1..i /\ \A j \in 1..i : j \in 1..Len(s)
    OBVIOUS
  <2>1. 1..i \in SUBSET (1..Len(s)) /\ 1..i # {}
    BY <2>0
  <2>2. Max(1..i) = i
    BY IntervalEnds
  <2>3. (1..i) \ {i} = 1..(i - 1)
    OBVIOUS
  <2>4. g[1..i] = Step(k, g[(1..i) \ {Max(1..i)}], s[Max(1..i)])
    BY <1>3, <2>1
  <2>5. h[i] = g[1..i] /\ h[i - 1] = g[1..(i - 1)]
    OBVIOUS
  <2> HIDE DEF h
  <2> QED BY <2>2, <2>3, <2>4, <2>5
<1>6. h[Len(s)] = g[1..Len(s)]
  OBVIOUS
<1> HIDE DEF h
<1> QED BY <1>1, <1>4, <1>5, <1>6 DEF Passes

\* The four folds of the model, in these terms.
LEMMA FoldRelease == \A base, s : FoldLeft(Release, base, s) = FoldOf(1, base, s)
BY DEF FoldLeft, MapThenFoldSet, FoldOf, FoldsOn, Step

LEMMA FoldAllocateNode == \A base, s : FoldLeft(AllocateNode, base, s) = FoldOf(2, base, s)
BY DEF FoldLeft, MapThenFoldSet, FoldOf, FoldsOn, Step

LEMMA FoldAllocInput == \A base, s : FoldLeft(AllocInput, base, s) = FoldOf(3, base, s)
BY DEF FoldLeft, MapThenFoldSet, FoldOf, FoldsOn, Step

LEMMA FoldPlaceNode == \A base, s : FoldLeft(PlaceNode, base, s) = FoldOf(4, base, s)
BY DEF FoldLeft, MapThenFoldSet, FoldOf, FoldsOn, Step

-----------------------------------------------------------------------------
(* The graph: sizes, origins, sources and reads.                           *)

\* The facts about the graph that the rest uses.
LEMMA GraphFacts ==
  ASSUME GraphInv
  PROVE  /\ Len(graph) \in Nat /\ Tensors = 1..Len(graph) /\ IsFiniteSet(Tensors)
         /\ FirstNode \in Nat /\ FirstNode >= 1
         /\ \A t \in Tensors :
              /\ t \in Nat /\ t >= 1
              /\ graph[t].size \in Nat /\ graph[t].size > 0 /\ graph[t].size \in Sizes
              /\ AllocSize(t) \in Nat /\ AllocSize(t) > 0 /\ graph[t].size <= AllocSize(t)
              /\ t < FirstNode <=> graph[t].kind \in {"input", "weight"}
              /\ t >= FirstNode <=> graph[t].kind \in {"op", "view"}
              /\ graph[t].kind # "view" => graph[t].of = 0 /\ graph[t].offs = 0 /\ Origin(t) = t
              /\ graph[t].kind = "view" =>
                   Origin(t) = graph[t].of /\ graph[t].of \in Tensors /\ graph[t].of < t
              /\ Origin(t) \in Tensors /\ Origin(t) <= t /\ graph[Origin(t)].kind # "view"
              /\ graph[t].offs \in Nat
              /\ graph[t].offs + graph[t].size <= graph[Origin(t)].size
<1>1. /\ Len(graph) \in Nat /\ Tensors = 1..Len(graph) /\ IsFiniteSet(Tensors)
  <2>1. Len(graph) \in Nat /\ Tensors = 1..Len(graph)
    BY DEF GraphInv, Tensors
  <2>2. IsFiniteSet(1..Len(graph))
    BY <2>1, FS_Interval
  <2> QED BY <2>1, <2>2
<1>2. FirstNode \in Nat /\ FirstNode >= 1
  <2>1. start.leafs \in Seq({Leaf(kind, size) : kind \in {"input", "weight"}, size \in Sizes})
    BY AllocAssumptionHolds DEF AllocAssumption, GraphInv
  <2>2. Len(start.leafs) \in Nat
    BY <2>1, LenProperties
  <2> QED BY <2>2 DEF FirstNode
<1>3. ASSUME NEW t \in Tensors
      PROVE  /\ t \in Nat /\ t >= 1
             /\ graph[t].size \in Nat /\ graph[t].size > 0 /\ graph[t].size \in Sizes
             /\ AllocSize(t) \in Nat /\ AllocSize(t) > 0 /\ graph[t].size <= AllocSize(t)
             /\ t < FirstNode <=> graph[t].kind \in {"input", "weight"}
             /\ t >= FirstNode <=> graph[t].kind \in {"op", "view"}
             /\ graph[t].kind # "view" => graph[t].of = 0 /\ graph[t].offs = 0 /\ Origin(t) = t
             /\ graph[t].kind = "view" =>
                  Origin(t) = graph[t].of /\ graph[t].of \in Tensors /\ graph[t].of < t
             /\ Origin(t) \in Tensors /\ Origin(t) <= t /\ graph[Origin(t)].kind # "view"
             /\ graph[t].offs \in Nat
             /\ graph[t].offs + graph[t].size <= graph[Origin(t)].size
  <2>0. IsTensor(t) /\ t \in Nat /\ t >= 1 /\ t <= Len(graph)
    BY <1>1 DEF GraphInv
  <2>1. graph[t].size \in Nat /\ graph[t].size > 0 /\ graph[t].size \in Sizes
    BY <2>0 DEF IsTensor
  <2>2. AllocSize(t) \in Nat /\ graph[t].size <= AllocSize(t)
    BY <2>1, RoundUpFacts DEF AllocSize
  <2>3. AllocSize(t) > 0
    BY <2>1, <2>2
  <2>4. /\ t < FirstNode <=> graph[t].kind \in {"input", "weight"}
        /\ t >= FirstNode <=> graph[t].kind \in {"op", "view"}
    BY <2>0 DEF IsTensor
  <2>5. graph[t].offs \in Nat
    BY <2>0 DEF IsTensor
  <2>6. CASE graph[t].kind # "view"
    <3>1. graph[t].of = 0 /\ graph[t].offs = 0 /\ Origin(t) = t
      BY <2>0, <2>6 DEF IsTensor, Origin
    <3> QED BY <2>0, <2>1, <2>2, <2>3, <2>4, <2>5, <2>6, <3>1
  <2>7. CASE graph[t].kind = "view"
    <3>1. /\ graph[t].of \in 1..(t - 1) /\ graph[graph[t].of].kind # "view"
          /\ graph[t].offs + graph[t].size <= graph[graph[t].of].size
      BY <2>0, <2>7 DEF IsTensor
    <3>2. Origin(t) = graph[t].of
      BY <2>7 DEF Origin
    <3>3. graph[t].of \in Tensors /\ graph[t].of < t
      BY <1>1, <2>0, <3>1
    <3> QED BY <2>0, <2>1, <2>2, <2>3, <2>4, <2>5, <2>7, <3>1, <3>2, <3>3
  <2> QED BY <2>6, <2>7
<1> QED BY <1>1, <1>2, <1>3

\* Rounding up keeps the order of sizes.
LEMMA AllocSizeMonotone ==
  ASSUME GraphInv, NEW t \in Tensors, NEW p \in Tensors, graph[t].size <= graph[p].size
  PROVE  AllocSize(t) <= AllocSize(p)
<1>1. graph[t].size \in Nat /\ graph[p].size \in Nat
  BY GraphFacts
<1> QED BY <1>1, RoundUpFacts DEF AllocSize

\* The sources of a tensor come before it; there are at most two.
LEMMA SourceFacts ==
  ASSUME GraphInv, NEW t \in Tensors
  PROVE  LET src == graph[t].src IN
         /\ Len(src) \in {0, 1, 2} /\ DOMAIN src = 1..Len(src)
         /\ \A j \in DOMAIN src : src[j] \in Tensors /\ src[j] < t
         /\ graph[t].kind = "view" => Len(src) = 1 /\ Origin(t) = Origin(src[1])
<1>1. IsTensor(t) /\ Tensors = 1..Len(graph) /\ t \in 1..Len(graph) /\ Len(graph) \in Nat
  BY DEF GraphInv, Tensors
<1>2. graph[t].src \in Seq(Nat) /\ Len(graph[t].src) <= 2
  BY <1>1 DEF IsTensor
<1>3. Len(graph[t].src) \in Nat /\ DOMAIN graph[t].src = 1..Len(graph[t].src)
  BY <1>2, LenProperties
<1>4. ASSUME NEW j \in DOMAIN graph[t].src
      PROVE  graph[t].src[j] \in Tensors /\ graph[t].src[j] < t
  <2>1. graph[t].src[j] \in 1..(t - 1)
    BY <1>1, <1>3 DEF IsTensor
  <2> QED BY <1>1, <2>1
<1>5. graph[t].kind = "view" => Len(graph[t].src) = 1 /\ Origin(t) = Origin(graph[t].src[1])
  BY <1>1 DEF IsTensor, Origin
<1>6. Len(graph[t].src) \in {0, 1, 2}
  <2>1. \A n \in Nat : n <= 2 => n \in {0, 1, 2}
    OBVIOUS
  <2> QED BY <1>2, <1>3, <2>1, Zenon
<1> QED BY <1>3, <1>4, <1>5, <1>6

\* What is read, and by whom.
LEMMA ReadFacts ==
  ASSUME GraphInv
  PROVE  /\ IsFiniteSet(Reads)
         /\ \A r \in Reads : /\ r[1] \in Tensors /\ r[2] \in DOMAIN graph[r[1]].src
                             /\ r = <<r[1], r[2]>>
                             /\ Source(r) \in Tensors /\ Source(r) < r[1]
         /\ \A t \in Tensors : \A j \in DOMAIN graph[t].src :
              <<t, j>> \in Reads /\ Source(<<t, j>>) = graph[t].src[j]
<1>1. IsFiniteSet(Reads)
  <2>1. IsFiniteSet(Tensors)
    BY GraphFacts
  <2>a. IsFiniteSet(1..2)
    <3>1. 1 \in Int /\ 2 \in Int
      OBVIOUS
    <3> QED BY <3>1, FS_Interval
  <2>2. IsFiniteSet(Tensors \X (1..2))
    BY <2>1, <2>a, FS_Product
  <2>3. Reads \subseteq Tensors \X (1..2)
    BY DEF Reads
  <2> QED BY <2>2, <2>3, FS_Subset
<1>2. ASSUME NEW r \in Reads
      PROVE  /\ r[1] \in Tensors /\ r[2] \in DOMAIN graph[r[1]].src
             /\ r = <<r[1], r[2]>>
             /\ Source(r) \in Tensors /\ Source(r) < r[1]
  <2>1. r[1] \in Tensors /\ r[2] \in DOMAIN graph[r[1]].src /\ r = <<r[1], r[2]>>
    <3>1. r \in Tensors \X (1..2) /\ r[2] \in DOMAIN graph[r[1]].src
      BY DEF Reads
    <3> QED BY <3>1
  <2>2. graph[r[1]].src[r[2]] \in Tensors /\ graph[r[1]].src[r[2]] < r[1]
    BY <2>1, SourceFacts
  <2> QED BY <2>1, <2>2 DEF Source
<1>3. ASSUME NEW t \in Tensors, NEW j \in DOMAIN graph[t].src
      PROVE  <<t, j>> \in Reads /\ Source(<<t, j>>) = graph[t].src[j]
  <2>1. j \in 1..2
    BY SourceFacts
  <2> QED BY <2>1 DEF Reads, Source
<1> QED BY <1>1, <1>2, <1>3

\* The reads of the nodes from t on, without the reads of t itself.
LEMMA ReadsSplit ==
  ASSUME GraphInv, NEW t \in Tensors
  PROVE  /\ ReadsFrom(t + 1) = {r \in ReadsFrom(t) : r[1] # t}
         /\ \A r \in ReadsFrom(t) : r[1] = t <=> \E j \in DOMAIN graph[t].src : r = <<t, j>>
         /\ \A j \in DOMAIN graph[t].src : <<t, j>> \in ReadsFrom(t)
         /\ IsFiniteSet(ReadsFrom(t))
         /\ \A r \in ReadsFrom(t) : r \in Reads /\ r[1] \in Nat /\ r[1] >= t
<1>1. t \in Nat /\ \A r \in Reads : r[1] \in Nat
  BY GraphFacts, ReadFacts
<1>2. ReadsFrom(t + 1) = {r \in ReadsFrom(t) : r[1] # t}
  BY <1>1 DEF ReadsFrom
<1>3. \A r \in ReadsFrom(t) : r[1] = t <=> \E j \in DOMAIN graph[t].src : r = <<t, j>>
  BY ReadFacts DEF ReadsFrom
<1>4. \A j \in DOMAIN graph[t].src : <<t, j>> \in ReadsFrom(t)
  BY <1>1, ReadFacts DEF ReadsFrom
<1>5. ReadsFrom(t) \subseteq Reads
  BY DEF ReadsFrom
<1>6. IsFiniteSet(ReadsFrom(t))
  BY <1>5, ReadFacts, FS_Subset
<1> QED BY <1>1, <1>2, <1>3, <1>4, <1>5, <1>6 DEF ReadsFrom

-----------------------------------------------------------------------------
(* Places: what holds when only one tensor gets a place.                   *)

\* The types of the fields, in the form in which they are used.
LEMMA TypedFacts ==
  ASSUME GraphInv, NEW a, Typed(a)
  PROVE  /\ Fields(a) /\ a.failed \in BOOLEAN /\ a.max_size \in Nat
         /\ a.blocks \in Seq(Block)
         /\ DOMAIN a.data = Tensors /\ DOMAIN a.view_src = Tensors
         /\ DOMAIN a.n_children = Tensors /\ DOMAIN a.n_views = Tensors
         /\ \A t \in Tensors : /\ a.data[t] \in Int /\ a.view_src[t] \in Nat
                               /\ a.n_children[t] \in Int /\ a.n_views[t] \in Int
BY DEF Typed

\* A tensor with memory of the buffer has a place and an end.
LEMMA OwnFacts ==
  ASSUME GraphInv, NEW a, Typed(a), NEW t \in Tensors, IsOwn(a, t)
  PROVE  /\ a.data[t] \in Nat /\ AEnd(a, t) \in Nat /\ a.data[t] < AEnd(a, t)
         /\ a.data[t] + graph[t].size <= AEnd(a, t)
BY TypedFacts, GraphFacts DEF IsOwn, AEnd

\* Which of its two equal ends the region of a tensor has.
LEMMA RegionFacts ==
  ASSUME GraphInv, NEW a, Typed(a), NEW n, NEW lo, NEW hi, Places(a, n, lo, hi),
         NEW o \in Tensors, graph[o].kind # "view", IsOwn(a, o)
  PROVE  /\ Region(a, o) \in Tensors /\ graph[Region(a, o)].kind # "view"
         /\ IsOwn(a, Region(a, o)) /\ a.data[Region(a, o)] = a.data[o]
         /\ AEnd(a, o) <= AEnd(a, Region(a, o))
         /\ AEnd(a, Region(a, o)) = a.data[o] + AllocSize(Region(a, o))
         /\ Region(a, o) <= o
<1>0. o \in Nat /\ o >= 1 /\ Tensors = 1..Len(graph) /\ Len(graph) \in Nat
      /\ a.view_src[o] \in Nat /\ a.data[o] \in Int /\ AllocSize(o) \in Nat
  BY GraphFacts, TypedFacts
<1>1. CASE a.view_src[o] = None
  BY <1>0, <1>1 DEF Region, AEnd
<1>2. CASE a.view_src[o] # None
  <2>1. PlaceOf(a, o, n, lo, hi)
    BY DEF Places
  <2>2. graph[o].kind = "op"
    <3>1. graph[o].kind \in {"input", "weight", "op", "view"}
      <4>1. FirstNode \in Nat /\ (o < FirstNode \/ o >= FirstNode)
        BY <1>0, GraphFacts
      <4> QED BY <4>1, GraphFacts
    <3>2. ~(graph[o].kind \in {"input", "weight"})
      BY <1>2, <2>1 DEF PlaceOf
    <3> QED BY <3>1, <3>2
  <2>3. /\ a.view_src[o] \in 1..(o - 1)
        /\ graph[a.view_src[o]].kind # "view"
        /\ IsOwn(a, a.view_src[o])
        /\ a.data[o] = a.data[a.view_src[o]]
        /\ graph[o].size <= graph[a.view_src[o]].size
    BY <1>2, <2>1, <2>2 DEF PlaceOf
  <2>4. Region(a, o) = a.view_src[o]
    BY <1>2 DEF Region
  <2>5. a.view_src[o] \in Tensors /\ a.view_src[o] <= o
    BY <1>0, <2>3
  <2>6. AllocSize(o) <= AllocSize(a.view_src[o]) /\ AllocSize(a.view_src[o]) \in Nat
    BY <2>3, <2>5, AllocSizeMonotone, GraphFacts
  <2> QED BY <1>0, <2>3, <2>4, <2>5, <2>6 DEF AEnd
<1> QED BY <1>1, <1>2

\* Only tensor t changes: the others are where they were.
OnlyAt(a, c, t) ==
    \A u \in Tensors : u # t => c.data[u] = a.data[u] /\ c.view_src[u] = a.view_src[u]

\* Everyone is where he should be when only tensor t got its place.
LEMMA PlacesChange ==
  ASSUME GraphInv, NEW a, NEW c, NEW t \in Tensors, NEW lo, NEW hi, Typed(a), Typed(c),
         Places(a, t, lo, hi), OnlyAt(a, c, t), ~IsOwn(a, t), PlaceOf(c, t, t + 1, lo, hi),
         c.data[t] = External <=> a.data[t] = External
  PROVE  Places(c, t + 1, lo, hi)
<1> SUFFICES ASSUME NEW u \in Tensors, u # t PROVE PlaceOf(c, u, t + 1, lo, hi)
  BY DEF Places
<1>0. /\ Tensors = 1..Len(graph) /\ Len(graph) \in Nat /\ t \in Nat /\ u \in Nat
      /\ a.view_src[u] \in Nat
  BY GraphFacts, TypedFacts
<1>1. PlaceOf(a, u, t, lo, hi)
  BY DEF Places
<1>2. c.data[u] = a.data[u] /\ c.view_src[u] = a.view_src[u]
  BY DEF OnlyAt
<1>3. (u < t + 1 => u < t) /\ (u >= t + 1 => u >= t)
  BY <1>0
<1>4. IsOwn(c, u) <=> IsOwn(a, u)
  BY <1>2 DEF IsOwn
<1>5. graph[u].kind = "view" =>
         /\ c.view_src[u] = graph[u].of
         /\ c.data[u] = External <=> c.data[graph[u].of] = External
         /\ IsOwn(c, u) => IsOwn(c, graph[u].of) /\ c.data[u] = c.data[graph[u].of] + graph[u].offs
  <2> SUFFICES ASSUME graph[u].kind = "view"
               PROVE  /\ c.view_src[u] = graph[u].of
                      /\ c.data[u] = External <=> c.data[graph[u].of] = External
                      /\ IsOwn(c, u) => IsOwn(c, graph[u].of) /\ c.data[u] = c.data[graph[u].of] + graph[u].offs
    OBVIOUS
  <2>1. /\ a.view_src[u] = graph[u].of
        /\ a.data[u] = External <=> a.data[graph[u].of] = External
        /\ IsOwn(a, u) => IsOwn(a, graph[u].of) /\ a.data[u] = a.data[graph[u].of] + graph[u].offs
    BY <1>1 DEF PlaceOf
  <2>2. graph[u].of \in Tensors
    BY GraphFacts
  <2>3. CASE graph[u].of = t
    <3>1. ~IsOwn(a, u)
      BY <2>1, <2>3
    <3> QED BY <1>2, <1>4, <2>1, <2>3, <3>1
  <2>4. CASE graph[u].of # t
    <3>1. c.data[graph[u].of] = a.data[graph[u].of]
      BY <2>2, <2>4 DEF OnlyAt
    <3> QED BY <1>2, <1>4, <2>1, <3>1 DEF IsOwn
  <2> QED BY <2>3, <2>4
<1>6. graph[u].kind = "op" /\ c.view_src[u] # None =>
         /\ c.view_src[u] \in 1..(u - 1)
         /\ graph[c.view_src[u]].kind # "view"
         /\ IsOwn(c, u) /\ IsOwn(c, c.view_src[u])
         /\ c.data[u] = c.data[c.view_src[u]]
         /\ graph[u].size <= graph[c.view_src[u]].size
  <2> SUFFICES ASSUME graph[u].kind = "op", c.view_src[u] # None
               PROVE  /\ c.view_src[u] \in 1..(u - 1)
                      /\ graph[c.view_src[u]].kind # "view"
                      /\ IsOwn(c, u) /\ IsOwn(c, c.view_src[u])
                      /\ c.data[u] = c.data[c.view_src[u]]
                      /\ graph[u].size <= graph[c.view_src[u]].size
    OBVIOUS
  <2>1. /\ a.view_src[u] \in 1..(u - 1)
        /\ graph[a.view_src[u]].kind # "view"
        /\ IsOwn(a, u) /\ IsOwn(a, a.view_src[u])
        /\ a.data[u] = a.data[a.view_src[u]]
        /\ graph[u].size <= graph[a.view_src[u]].size
    BY <1>1, <1>2 DEF PlaceOf
  <2>2. a.view_src[u] \in Tensors /\ a.view_src[u] # t
    BY <1>0, <2>1
  <2>3. c.data[a.view_src[u]] = a.data[a.view_src[u]]
    BY <2>2 DEF OnlyAt
  <2> QED BY <1>2, <2>1, <2>3 DEF IsOwn
<1>7. /\ c.data[u] >= External
      /\ u < t + 1 => c.data[u] # NULL
      /\ u >= t + 1 => ~IsOwn(c, u)
      /\ graph[u].kind # "view" /\ IsOwn(c, u) => lo <= c.data[u] /\ AEnd(c, u) <= hi
      /\ graph[u].kind = "weight" => c.data[u] = External
      /\ graph[u].kind \in {"op", "input"} => c.data[u] # External
      /\ graph[u].kind \in {"input", "weight"} => c.view_src[u] = None
  BY <1>1, <1>2, <1>3, <1>4 DEF PlaceOf, AEnd
<1> QED BY <1>5, <1>6, <1>7, Zenon DEF PlaceOf

\* What was kept is kept when nothing is freed and a tensor gets its place.
LEMMA KeptChange ==
  ASSUME GraphInv, NEW a, NEW c, NEW t \in Tensors, Typed(a), NEW n, NEW lo, NEW hi,
         Places(a, n, lo, hi), NEW W, Kept(a, W), OnlyAt(a, c, t), ~IsOwn(a, t),
         \A x, y \in Int : x < y /\ Clear(a.blocks, x, y) => Clear(c.blocks, x, y)
  PROVE  /\ Kept(c, W) /\ t \notin W
         /\ \A o \in W : /\ Region(c, o) = Region(a, o) /\ AEnd(c, Region(c, o)) = AEnd(a, Region(a, o))
                         /\ c.data[o] = a.data[o]
<1>1. ASSUME NEW o \in W
      PROVE  /\ o \in Tensors /\ o # t /\ graph[o].kind # "view" /\ IsOwn(a, o)
             /\ IsOwn(a, Region(a, o))
             /\ Region(a, o) \in Tensors /\ Region(a, o) # t
             /\ c.data[o] = a.data[o] /\ Region(c, o) = Region(a, o)
             /\ AEnd(c, Region(c, o)) = AEnd(a, Region(a, o))
             /\ a.data[o] \in Int /\ AEnd(a, Region(a, o)) \in Int
             /\ a.data[o] < AEnd(a, Region(a, o))
             /\ Clear(a.blocks, a.data[o], AEnd(a, Region(a, o)))
             /\ IsOwn(c, o) /\ IsOwn(c, Region(c, o))
  <2>1. /\ o \in Tensors /\ graph[o].kind # "view" /\ IsOwn(a, o) /\ IsOwn(a, Region(a, o))
        /\ Clear(a.blocks, a.data[o], AEnd(a, Region(a, o))) /\ o # t
    BY DEF Kept
  <2>2. /\ Region(a, o) \in Tensors /\ a.data[Region(a, o)] = a.data[o]
    BY <2>1, RegionFacts
  <2>3. Region(a, o) # t
    BY <2>1
  <2>4. /\ c.data[o] = a.data[o] /\ c.view_src[o] = a.view_src[o]
        /\ c.data[Region(a, o)] = a.data[Region(a, o)]
    BY <2>1, <2>2, <2>3 DEF OnlyAt
  <2>5. Region(c, o) = Region(a, o)
    BY <2>4 DEF Region
  <2>6. /\ a.data[Region(a, o)] \in Int /\ AEnd(a, Region(a, o)) \in Int
        /\ a.data[Region(a, o)] < AEnd(a, Region(a, o))
    BY <2>1, <2>2, OwnFacts
  <2> QED BY <2>1, <2>2, <2>3, <2>4, <2>5, <2>6 DEF IsOwn, AEnd
<1>2. ASSUME NEW o \in W, NEW q \in W, o # q
      PROVE  \/ AEnd(c, Region(c, o)) <= c.data[q]
             \/ AEnd(c, Region(c, q)) <= c.data[o]
  <2>1. AEnd(a, Region(a, o)) <= a.data[q] \/ AEnd(a, Region(a, q)) <= a.data[o]
    BY <1>2 DEF Kept
  <2> QED BY <1>1, <2>1
<1>3. ASSUME NEW o \in W
      PROVE  Clear(c.blocks, c.data[o], AEnd(c, Region(c, o)))
  BY <1>1
<1> QED BY <1>1, <1>2, <1>3 DEF Kept

\* One more tensor is kept when its memory is not free and apart from the rest.
LEMMA KeptAdd ==
  ASSUME NEW c, NEW W, Kept(c, W), NEW t \in Tensors, graph[t].kind # "view",
         IsOwn(c, t), IsOwn(c, Region(c, t)),
         Clear(c.blocks, c.data[t], AEnd(c, Region(c, t))),
         \A o \in W : \/ AEnd(c, Region(c, o)) <= c.data[t]
                      \/ AEnd(c, Region(c, t)) <= c.data[o]
  PROVE  Kept(c, W \cup {t})
BY Zenon DEF Kept

-----------------------------------------------------------------------------
(* A tensor gets memory of its own.                                        *)

\* Counts and views depend on three of the fields only.
LEMMA SameCounts ==
  ASSUME NEW a, NEW c, c.n_children = a.n_children, c.n_views = a.n_views,
         c.view_src = a.view_src
  PROVE  /\ \A R : Counts(a, R) => Counts(c, R)
         /\ Views(a) => Views(c)
<1>1. \A R : Counts(a, R) => Counts(c, R)
  BY DEF Counts
<1>2. \A v : Alive(c, v) <=> Alive(a, v)
  BY DEF Alive
<1>3. \A r : ViewsOf(c, r) = ViewsOf(a, r)
  BY <1>2 DEF ViewsOf
<1> QED BY <1>1, <1>3 DEF Views

\* A place that ggml_tallocr_alloc finds.
Found(a, c, t, lo, hi) ==
    /\ Typed(c) /\ a.failed = FALSE /\ ~NoRoom(a, AllocSize(t))
    /\ c.view_src = a.view_src /\ c.n_children = a.n_children /\ c.n_views = a.n_views
    /\ \A u \in Tensors : u # t => c.data[u] = a.data[u]
    /\ Ordered(c.blocks, lo, hi)
    /\ c.data[t] \in Nat /\ lo <= c.data[t] /\ c.data[t] + AllocSize(t) <= hi
    /\ Clear(c.blocks, c.data[t], c.data[t] + AllocSize(t))
    /\ \A x, y \in Int : x < y /\ Clear(a.blocks, x, y) =>
         Clear(c.blocks, x, y) /\ (y <= c.data[t] \/ c.data[t] + AllocSize(t) <= x)

\* An allocation that does not fail has found a place.
LEMMA AllocPlace ==
  ASSUME GraphInv, NEW a, Typed(a), NEW t \in Tensors, NEW lo \in Nat, NEW hi \in Nat,
         Ordered(a.blocks, lo, hi), Alloc(a, t).failed = FALSE
  PROVE  Found(a, Alloc(a, t), t, lo, hi)
<1>c. PICK c : c = Alloc(a, t)
  OBVIOUS
<1> DEFINE B == a.blocks
<1>a. PICK size : size = AllocSize(t)
  OBVIOUS
<1>b. PICK k : k = BestFit(a, size)
  OBVIOUS
<1>0. size \in Nat \ {0}
  BY <1>a, GraphFacts
<1>1. /\ Fields(a) /\ a.failed \in BOOLEAN /\ a.max_size \in Nat /\ a.blocks \in Seq(Block)
      /\ DOMAIN a.data = Tensors /\ a.data \in [Tensors -> Int]
  BY TypedFacts DEF Typed
<1>e. AllocEffect(a, t, size, k, c)
  BY <1>a, <1>b, <1>c, <1>1, AllocForm
<1>2. /\ Fields(c)
      /\ c.view_src = a.view_src /\ c.n_children = a.n_children /\ c.n_views = a.n_views
      /\ NoRoom(a, size) => c.failed = TRUE
      /\ ~NoRoom(a, size) =>
           /\ c.failed = a.failed
           /\ c.blocks = Taken(a.blocks, k, size)
           /\ c.data = [a.data EXCEPT ![t] = a.blocks[k].addr]
           /\ c.max_size = Max({a.max_size, a.blocks[k].addr + size})
  BY <1>e DEF AllocEffect
<1>3. ~NoRoom(a, size)
  BY <1>c, <1>2
<1>4. k \in 1..Len(B) /\ size <= B[k].size /\ B[k].addr \in Nat /\ B[k].size \in Nat
  <2>1. /\ Len(B) = 0 => k = 0
        /\ Len(B) > 0 => k \in 1..Len(B)
    BY <1>0, <1>b, <1>1, BestFitIn
  <2>2. Len(B) \in Nat
    BY <1>1, BlockFacts
  <2>3. k # 0 /\ ~(B[k].size < size)
    BY <1>b, <1>3 DEF NoRoom
  <2>4. k \in 1..Len(B)
    BY <2>1, <2>2, <2>3
  <2>5. B[k].addr \in Nat /\ B[k].size \in Nat
    BY <1>1, <2>4, BlockFacts
  <2> QED BY <1>0, <2>3, <2>4, <2>5
<1>5. LET G == Taken(B, k, size)
          x0 == B[k].addr
      IN /\ G \in Seq(Block) /\ Ordered(G, lo, hi)
         /\ x0 \in Nat /\ lo <= x0 /\ x0 + size <= hi
         /\ Clear(G, x0, x0 + size)
         /\ \A x, y \in Int : x < y /\ Clear(B, x, y) =>
              Clear(G, x, y) /\ (y <= x0 \/ x0 + size <= x)
  BY <1>0, <1>1, <1>4, TakenFacts
<1>6. c.data[t] = B[k].addr /\ c.data \in [Tensors -> Int]
      /\ \A u \in Tensors : u # t => c.data[u] = a.data[u]
  <2>1. \A f \in [Tensors -> Int], v \in Int :
          /\ [f EXCEPT ![t] = v] \in [Tensors -> Int] /\ [f EXCEPT ![t] = v][t] = v
          /\ \A u \in Tensors : u # t => [f EXCEPT ![t] = v][u] = f[u]
    OBVIOUS
  <2>2. PICK v \in Int : v = B[k].addr
    BY <1>4
  <2>3. c.data = [a.data EXCEPT ![t] = v]
    BY <1>2, <1>3, <2>2
  <2>4. PICK f \in [Tensors -> Int] : f = a.data
    BY <1>1
  <2> QED BY <2>1, <2>2, <2>3, <2>4
<1>7. c.max_size \in Nat
  <2>1. a.max_size \in Int /\ B[k].addr + size \in Int
    BY <1>0, <1>1, <1>4
  <2>2. Max({a.max_size, B[k].addr + size}) = IF a.max_size >= B[k].addr + size THEN a.max_size
                                              ELSE B[k].addr + size
    BY <2>1, MaxMinOfTwo
  <2>3. c.max_size = Max({a.max_size, B[k].addr + size})
    BY <1>2, <1>3
  <2> QED BY <1>0, <1>1, <1>4, <2>2, <2>3
<1>8. Typed(c)
  <2>1. c.failed \in BOOLEAN /\ c.blocks \in Seq(Block)
    BY <1>2, <1>3, <1>5, <1>1
  <2>2. /\ c.view_src \in [Tensors -> Nat] /\ c.n_children \in [Tensors -> Int]
        /\ c.n_views \in [Tensors -> Int]
    BY <1>2 DEF Typed
  <2> QED BY <1>2, <1>6, <1>7, <2>1, <2>2, Zenon DEF Typed
<1>9. a.failed = FALSE
  BY <1>c, <1>2, <1>3
<1>10. c.blocks = Taken(B, k, size)
  BY <1>2, <1>3
<1>11. Found(a, c, t, lo, hi)
  BY <1>a, <1>2, <1>3, <1>5, <1>6, <1>8, <1>9, <1>10 DEF Found
<1> QED BY <1>c, <1>11

\* A tensor gets a place of its own: nothing that is kept moves or shares it.
LEMMA AllocHeld ==
  ASSUME GraphInv, NEW a, NEW t \in Tensors, NEW R, NEW W, NEW lo \in Nat, NEW hi \in Nat,
         Held(a, t, R, W, lo, hi), graph[t].kind \in {"input", "op"}, ~IsOwn(a, t),
         a.view_src[t] = None, NEW c, c = Alloc(a, t), c.failed = FALSE
  PROVE  /\ Held(c, t + 1, R, W \cup {t}, lo, hi)
         /\ OnlyAt(a, c, t) /\ IsOwn(c, t) /\ t \notin W
<1> DEFINE x0 == c.data[t]
<1>0. /\ Typed(a) /\ Ordered(a.blocks, lo, hi) /\ Places(a, t, lo, hi) /\ Counts(a, R)
      /\ Views(a) /\ Kept(a, W)
  BY DEF Held
<1>1. /\ Typed(c) /\ a.failed = FALSE
      /\ c.view_src = a.view_src /\ c.n_children = a.n_children /\ c.n_views = a.n_views
      /\ \A u \in Tensors : u # t => c.data[u] = a.data[u]
      /\ Ordered(c.blocks, lo, hi)
      /\ x0 \in Nat /\ lo <= x0 /\ x0 + AllocSize(t) <= hi
      /\ Clear(c.blocks, x0, x0 + AllocSize(t))
      /\ \A x, y \in Int : x < y /\ Clear(a.blocks, x, y) =>
           Clear(c.blocks, x, y) /\ (y <= x0 \/ x0 + AllocSize(t) <= x)
  <2>1. Found(a, c, t, lo, hi)
    BY <1>0, AllocPlace
  <2> QED BY <2>1 DEF Found
<1>2. OnlyAt(a, c, t)
  BY <1>1 DEF OnlyAt
<1>3. IsOwn(c, t) /\ Region(c, t) = t /\ AEnd(c, t) = x0 + AllocSize(t)
  BY <1>1 DEF IsOwn, Region, AEnd
<1>4. t \in Nat /\ graph[t].kind # "view" /\ graph[t].kind # "weight"
  BY GraphFacts
<1>5. PlaceOf(c, t, t + 1, lo, hi)
  <2>1. /\ c.data[t] \in Nat /\ lo <= c.data[t] /\ AEnd(c, t) <= hi
        /\ c.data[t] >= External /\ c.data[t] # NULL /\ c.data[t] # External
    BY <1>1, <1>3 DEF NULL, External
  <2>2. ~(t >= t + 1)
    BY <1>4
  <2>3. c.view_src[t] = None
    BY <1>1
  <2>4. graph[t].kind # "view" /\ graph[t].kind # "weight"
    BY <1>4
  <2> QED BY <2>1, <2>2, <2>3, <2>4, Zenon DEF PlaceOf
<1>6. c.data[t] = External <=> a.data[t] = External
  <2>1. a.data[t] # External
    BY <1>0 DEF Places, PlaceOf
  <2> QED BY <1>1, <2>1 DEF External
<1>7. Places(c, t + 1, lo, hi)
  BY <1>0, <1>1, <1>2, <1>5, <1>6, PlacesChange
<1>8. /\ Kept(c, W) /\ t \notin W
      /\ \A o \in W : /\ Region(c, o) = Region(a, o) /\ AEnd(c, Region(c, o)) = AEnd(a, Region(a, o))
                      /\ c.data[o] = a.data[o]
  BY <1>0, <1>1, <1>2, KeptChange
<1>9. ASSUME NEW o \in W
      PROVE  \/ AEnd(c, Region(c, o)) <= c.data[t]
             \/ AEnd(c, Region(c, t)) <= c.data[o]
  <2>1. /\ o \in Tensors /\ graph[o].kind # "view" /\ IsOwn(a, o)
        /\ Clear(a.blocks, a.data[o], AEnd(a, Region(a, o)))
    BY <1>0 DEF Kept
  <2>2. /\ Region(a, o) \in Tensors /\ IsOwn(a, Region(a, o)) /\ a.data[Region(a, o)] = a.data[o]
    BY <1>0, <2>1, RegionFacts
  <2>3. a.data[o] \in Int /\ AEnd(a, Region(a, o)) \in Int /\ a.data[o] < AEnd(a, Region(a, o))
    BY <1>0, <2>2, OwnFacts
  <2>4. AEnd(a, Region(a, o)) <= x0 \/ x0 + AllocSize(t) <= a.data[o]
    BY <1>1, <2>1, <2>3
  <2> QED BY <1>3, <1>8, <2>4
<1>10. Kept(c, W \cup {t})
  BY <1>1, <1>3, <1>4, <1>8, <1>9, KeptAdd
<1>11. Counts(c, R) /\ Views(c)
  BY <1>0, <1>1, SameCounts
<1> QED BY <1>1, <1>2, <1>3, <1>7, <1>8, <1>10, <1>11 DEF Held

-----------------------------------------------------------------------------
(* Memory is given back.                                                   *)

\* A part of a clear place is clear.
LEMMA ClearPart ==
  ASSUME NEW B \in Seq(Block), NEW x \in Int, NEW y \in Int, NEW z \in Int, y <= z, Clear(B, x, z)
  PROVE  Clear(B, x, y)
<1> SUFFICES ASSUME NEW k \in 1..Len(B) PROVE End(B[k]) <= x \/ y <= B[k].addr
  BY DEF Clear
<1>1. B[k].addr \in Nat /\ (End(B[k]) <= x \/ z <= B[k].addr)
  BY BlockFacts DEF Clear
<1> QED BY <1>1

\* Memory that ggml_tallocr_free_tensor takes back.
Freed(a, c, f, lo, hi) ==
    /\ Typed(c) /\ c.failed = FALSE
    /\ c.view_src = a.view_src /\ c.n_children = a.n_children /\ c.n_views = a.n_views
    /\ c.data = a.data
    /\ Ordered(c.blocks, lo, hi)
    /\ \A x, y \in Int : x < y /\ Clear(a.blocks, x, y) /\ (y <= a.data[f] \/ AEnd(a, f) <= x) =>
         Clear(c.blocks, x, y)

\* Memory that is given back without failure is in the free list afterwards.
LEMMA FreePlace ==
  ASSUME GraphInv, NEW a, Typed(a), NEW f \in Tensors, NEW lo \in Nat, NEW hi \in Nat,
         Ordered(a.blocks, lo, hi), IsOwn(a, f), lo <= a.data[f], AEnd(a, f) <= hi,
         Clear(a.blocks, a.data[f], AEnd(a, f)), FreeTensor(a, f).failed = FALSE
  PROVE  Freed(a, FreeTensor(a, f), f, lo, hi)
<1>a. PICK ptr \in Nat : ptr = a.data[f]
  BY OwnFacts
<1>b. PICK size \in Nat \ {0} : size = AllocSize(f)
  BY GraphFacts
<1>c. PICK c : c = FreeTensor(a, f)
  OBVIOUS
<1>d. AEnd(a, f) = ptr + size
  BY <1>a, <1>b DEF AEnd
<1>1. Fields(a) /\ a.failed \in BOOLEAN /\ a.blocks \in Seq(Block)
  BY TypedFacts
<1>2. FreeEffect(a, ptr, size, c)
  <2>1. /\ a.data[f] \in Nat /\ AllocSize(f) \in Nat \ {0}
        /\ Clear(a.blocks, a.data[f], a.data[f] + AllocSize(f))
    BY <1>a, <1>b, <1>d
  <2> QED BY <1>a, <1>b, <1>c, <1>1, <2>1, FreeForm
<1>3. PICK p, q, e :
           /\ Joins(a.blocks, ptr, size, p, q, e)
           /\ q < p /\ Len(a.blocks) >= MaxBlocks => c.failed = TRUE /\ c.blocks = a.blocks
           /\ ~(q < p /\ Len(a.blocks) >= MaxBlocks) =>
                c.failed = a.failed /\ c.blocks = Spliced(a.blocks, p, e, q)
  BY <1>2 DEF FreeEffect
<1>4. /\ Fields(c)
      /\ c.view_src = a.view_src /\ c.n_children = a.n_children /\ c.n_views = a.n_views
      /\ c.data = a.data /\ c.max_size = a.max_size
  BY <1>2 DEF FreeEffect
<1>5. c.failed = FALSE /\ c.blocks = Spliced(a.blocks, p, e, q)
  BY <1>c, <1>3
<1>6. LET G == Spliced(a.blocks, p, e, q) IN
      /\ G \in Seq(Block) /\ Ordered(G, lo, hi)
      /\ \A x, y \in Int : x < y /\ Clear(a.blocks, x, y) /\ (y <= ptr \/ ptr + size <= x) =>
           Clear(G, x, y)
  BY <1>a, <1>d, <1>1, <1>3, GivenFacts, SMTT(30)
<1>7. Typed(c)
  <2>1. c.failed \in BOOLEAN /\ c.blocks \in Seq(Block) /\ c.max_size \in Nat
    BY <1>1, <1>4, <1>5, <1>6, TypedFacts
  <2>2. /\ c.view_src \in [Tensors -> Nat] /\ c.n_children \in [Tensors -> Int]
        /\ c.n_views \in [Tensors -> Int] /\ c.data \in [Tensors -> Int]
    BY <1>4 DEF Typed
  <2> QED BY <1>4, <2>1, <2>2, Zenon DEF Typed
<1>8. Freed(a, c, f, lo, hi)
  <2>1. Ordered(c.blocks, lo, hi)
    BY <1>5, <1>6
  <2>2. \A x, y \in Int : x < y /\ Clear(a.blocks, x, y) /\ (y <= a.data[f] \/ AEnd(a, f) <= x) =>
          Clear(c.blocks, x, y)
    BY <1>a, <1>d, <1>5, <1>6
  <2> QED BY <1>4, <1>5, <1>7, <2>1, <2>2, Zenon DEF Freed
<1> QED BY <1>c, <1>8

\* A failure stays.
LEMMA FreeSticky ==
  ASSUME NEW a, Fields(a), NEW t, NEW c, c = FreeTensor(a, t)
  PROVE  /\ Fields(c) /\ (c.failed = FALSE => a.failed = FALSE)
         /\ c.failed \in {a.failed, TRUE}
         /\ c.data = a.data /\ c.view_src = a.view_src /\ c.max_size = a.max_size
         /\ c.n_children = a.n_children /\ c.n_views = a.n_views
<1>1. c = a \/ c = [a EXCEPT !.failed = TRUE] \/ \E B : c = [a EXCEPT !.blocks = B]
  BY DEF FreeTensor
<1> QED BY <1>1 DEF Fields

\* Who is neither read nor viewed is not needed.
LEMMA NotNeeded ==
  ASSUME GraphInv, NEW c, Typed(c), NEW n, NEW lo, NEW hi, Places(c, n, lo, hi),
         NEW S, S \subseteq Reads, Counts(c, S), Views(c),
         NEW q \in Tensors, c.n_children[q] = 0, c.n_views[q] = 0
  PROVE  q \notin Need(S)
<1> SUFFICES ASSUME NEW r \in S, Origin(Source(r)) = q PROVE FALSE
  BY DEF Need
<1> DEFINE s == Source(r)
<1>1. s \in Tensors
  BY ReadFacts
<1>2. c.n_children[s] > 0
  <2>1. ReadBy(S, s) \subseteq Reads /\ r \in ReadBy(S, s)
    BY DEF ReadBy
  <2>2. IsFiniteSet(ReadBy(S, s))
    BY <2>1, ReadFacts, FS_Subset
  <2>3. Cardinality(ReadBy(S, s)) \in Nat /\ Cardinality(ReadBy(S, s)) # 0
    BY <2>1, <2>2, FS_CardinalityType, FS_EmptySet
  <2> QED BY <1>1, <2>3 DEF Counts
<1>3. s # q
  BY <1>2
<1>4. graph[s].kind = "view" /\ graph[s].of = q
  BY <1>1, <1>3, GraphFacts
<1>5. c.view_src[s] = q
  BY <1>1, <1>4 DEF Places, PlaceOf
<1>6. s \in ViewsOf(c, q) /\ ViewsOf(c, q) \subseteq Tensors
  BY <1>1, <1>2, <1>5 DEF ViewsOf, Alive
<1>7. IsFiniteSet(ViewsOf(c, q))
  BY <1>6, GraphFacts, FS_Subset
<1>8. Cardinality(ViewsOf(c, q)) \in Nat /\ Cardinality(ViewsOf(c, q)) # 0
  BY <1>6, <1>7, FS_CardinalityType, FS_EmptySet
<1> QED BY <1>8 DEF Views

-----------------------------------------------------------------------------
(* One source of a node is released: counts, views, and who is freed.      *)

\* p has one reader less ...
Dropped(a, p) == [a EXCEPT !.n_children[p] = @ - 1]

\* ... and is no view of its root any more.
Unviewed(a, p) == [Dropped(a, p) EXCEPT !.n_views[a.view_src[p]] = @ - 1]

\* Another tensor still holds the memory of p.
Guarded(a, p) ==
    IF a.view_src[p] = None THEN a.n_views[p] > 0 ELSE a.n_views[a.view_src[p]] > 1

\* The four ends of ggml_tallocr's update of one source.
LEMMA ReleaseCases ==
  ASSUME NEW a, NEW p, NEW b, b = Dropped(a, p), NEW u, u = Unviewed(a, p),
         NEW r, r = a.view_src[p]
  PROVE  \/ /\ b.n_children[p] # 0 \/ b.n_views[p] # 0
            /\ Release(a, p) = b
         \/ /\ b.n_children[p] = 0 /\ b.n_views[p] = 0 /\ r = None
            /\ Release(a, p) = FreeTensor(b, p)
         \/ /\ b.n_children[p] = 0 /\ b.n_views[p] = 0 /\ r # None
            /\ u.n_views[r] = 0 /\ u.n_children[r] = 0
            /\ Release(a, p) = FreeTensor(u, r)
         \/ /\ b.n_children[p] = 0 /\ b.n_views[p] = 0 /\ r # None
            /\ Release(a, p) = u
BY DEF Release, Dropped, Unviewed

\* The fields when p has one reader less ...
LEMMA DroppedFields ==
  ASSUME GraphInv, NEW a, Typed(a), NEW p \in Tensors, NEW b, b = Dropped(a, p)
  PROVE  /\ Typed(b) /\ b.failed = a.failed /\ b.blocks = a.blocks /\ b.data = a.data
         /\ b.view_src = a.view_src /\ b.n_views = a.n_views /\ b.max_size = a.max_size
         /\ b.n_children[p] = a.n_children[p] - 1
         /\ \A v \in Tensors : v # p => b.n_children[v] = a.n_children[v]
<1>0. Fields(a) /\ a.n_children \in [Tensors -> Int]
  BY DEF Typed
<1>1. /\ Fields(b) /\ b.failed = a.failed /\ b.blocks = a.blocks /\ b.data = a.data
      /\ b.view_src = a.view_src /\ b.n_views = a.n_views /\ b.max_size = a.max_size
      /\ b.n_children = [a.n_children EXCEPT ![p] = @ - 1]
  BY <1>0 DEF Dropped, Fields
<1>2. \A f \in [Tensors -> Int] :
        /\ [f EXCEPT ![p] = @ - 1] \in [Tensors -> Int] /\ [f EXCEPT ![p] = @ - 1][p] = f[p] - 1
        /\ \A v \in Tensors : v # p => [f EXCEPT ![p] = @ - 1][v] = f[v]
  OBVIOUS
<1>3. /\ b.n_children \in [Tensors -> Int]
      /\ b.n_children[p] = a.n_children[p] - 1
      /\ \A v \in Tensors : v # p => b.n_children[v] = a.n_children[v]
  <2>1. PICK f \in [Tensors -> Int] : f = a.n_children
    BY <1>0
  <2> QED BY <1>1, <1>2, <2>1
<1>4. Typed(b)
  <2>1. /\ b.failed \in BOOLEAN /\ b.blocks \in Seq(Block) /\ b.max_size \in Nat
        /\ b.view_src \in [Tensors -> Nat] /\ b.n_views \in [Tensors -> Int]
        /\ b.data \in [Tensors -> Int]
    BY <1>1 DEF Typed
  <2> QED BY <1>1, <1>3, <2>1, Zenon DEF Typed
<1> QED BY <1>1, <1>3, <1>4

\* ... and when its root has one view less.
LEMMA UnviewedFields ==
  ASSUME GraphInv, NEW a, Typed(a), NEW p \in Tensors, a.view_src[p] \in Tensors,
         NEW u, u = Unviewed(a, p)
  PROVE  /\ Typed(u) /\ u.failed = a.failed /\ u.blocks = a.blocks /\ u.data = a.data
         /\ u.view_src = a.view_src /\ u.n_children = Dropped(a, p).n_children
         /\ u.max_size = a.max_size
         /\ u.n_views[a.view_src[p]] = a.n_views[a.view_src[p]] - 1
         /\ \A v \in Tensors : v # a.view_src[p] => u.n_views[v] = a.n_views[v]
<1>a. PICK b : b = Dropped(a, p)
  OBVIOUS
<1>b. PICK r \in Tensors : r = a.view_src[p]
  OBVIOUS
<1>0. /\ Typed(b) /\ b.failed = a.failed /\ b.blocks = a.blocks /\ b.data = a.data
      /\ b.view_src = a.view_src /\ b.n_views = a.n_views /\ b.max_size = a.max_size
  BY <1>a, DroppedFields, SMTT(30)
<1>c. Fields(b) /\ b.n_views \in [Tensors -> Int]
  BY <1>0 DEF Typed
<1>1. /\ Fields(u) /\ u.failed = b.failed /\ u.blocks = b.blocks /\ u.data = b.data
      /\ u.view_src = b.view_src /\ u.n_children = b.n_children /\ u.max_size = b.max_size
      /\ u.n_views = [b.n_views EXCEPT ![r] = @ - 1]
  <2>1. u = [b EXCEPT !.n_views[r] = @ - 1]
    BY <1>a, <1>b DEF Unviewed
  <2> QED BY <1>c, <2>1 DEF Fields
<1>2. \A f \in [Tensors -> Int] :
        /\ [f EXCEPT ![r] = @ - 1] \in [Tensors -> Int] /\ [f EXCEPT ![r] = @ - 1][r] = f[r] - 1
        /\ \A v \in Tensors : v # r => [f EXCEPT ![r] = @ - 1][v] = f[v]
  OBVIOUS
<1>3. /\ u.n_views \in [Tensors -> Int]
      /\ u.n_views[r] = b.n_views[r] - 1
      /\ \A v \in Tensors : v # r => u.n_views[v] = b.n_views[v]
  <2>1. PICK f \in [Tensors -> Int] : f = b.n_views
    BY <1>c
  <2> QED BY <1>1, <1>2, <2>1
<1>4. Typed(u)
  <2>1. /\ u.failed \in BOOLEAN /\ u.blocks \in Seq(Block) /\ u.max_size \in Nat
        /\ u.view_src \in [Tensors -> Nat] /\ u.n_children \in [Tensors -> Int]
        /\ u.data \in [Tensors -> Int]
    BY <1>0, <1>1 DEF Typed
  <2> QED BY <1>1, <1>3, <2>1, Zenon DEF Typed
<1> QED BY <1>a, <1>b, <1>0, <1>1, <1>3, <1>4

\* A failure stays, and nothing but counts and blocks changes.
LEMMA ReleaseSticky ==
  ASSUME NEW a, Fields(a), NEW p, NEW c, c = Release(a, p)
  PROVE  /\ Fields(c) /\ (c.failed = FALSE => a.failed = FALSE)
         /\ c.failed \in {a.failed, TRUE}
         /\ c.data = a.data /\ c.view_src = a.view_src /\ c.max_size = a.max_size
<1>a. PICK b : b = Dropped(a, p)
  OBVIOUS
<1>b. PICK u : u = Unviewed(a, p)
  OBVIOUS
<1>c. PICK r : r = a.view_src[p]
  OBVIOUS
<1>1. /\ Fields(b) /\ b.failed = a.failed /\ b.data = a.data /\ b.view_src = a.view_src
      /\ b.max_size = a.max_size
  BY <1>a DEF Dropped, Fields
<1>2. /\ Fields(u) /\ u.failed = a.failed /\ u.data = a.data /\ u.view_src = a.view_src
      /\ u.max_size = a.max_size
  <2>1. u = [b EXCEPT !.n_views[r] = @ - 1]
    BY <1>a, <1>b, <1>c DEF Unviewed
  <2> QED BY <1>1, <2>1 DEF Fields
<1>3. c \in {b, u, FreeTensor(b, p), FreeTensor(u, r)}
  BY <1>a, <1>b, <1>c, ReleaseCases
<1>4. \A e \in {b, u} : \A v : LET f == FreeTensor(e, v) IN
        /\ Fields(f) /\ (f.failed = FALSE => e.failed = FALSE) /\ f.failed \in {e.failed, TRUE}
        /\ f.data = e.data /\ f.view_src = e.view_src /\ f.max_size = e.max_size
  <2> SUFFICES ASSUME NEW e \in {b, u}, NEW v, NEW f, f = FreeTensor(e, v)
               PROVE  /\ Fields(f) /\ (f.failed = FALSE => e.failed = FALSE)
                      /\ f.failed \in {e.failed, TRUE}
                      /\ f.data = e.data /\ f.view_src = e.view_src /\ f.max_size = e.max_size
    BY ZenonT(30)
  <2>1. Fields(e)
    BY <1>1, <1>2
  <2> QED BY <2>1, FreeSticky
<1>5. CASE c \in {b, u}
  BY <1>1, <1>2, <1>5
<1>6. CASE c \in {FreeTensor(b, p), FreeTensor(u, r)}
  BY <1>1, <1>2, <1>4, <1>6
<1> QED BY <1>3, <1>5, <1>6

\* The counts are exact again when one read is over.
LEMMA CountsDrop ==
  ASSUME GraphInv, NEW a, Typed(a), NEW R, R \subseteq Reads, Counts(a, R), NEW e \in R,
         NEW p \in Tensors, p = Source(e), NEW b, b.n_children[p] = a.n_children[p] - 1,
         \A v \in Tensors : v # p => b.n_children[v] = a.n_children[v]
  PROVE  Counts(b, R \ {e}) /\ a.n_children[p] > 0
<1>0. IsFiniteSet(ReadBy(R, p)) /\ e \in ReadBy(R, p)
  <2>1. ReadBy(R, p) \subseteq Reads /\ e \in ReadBy(R, p)
    BY DEF ReadBy
  <2> QED BY <2>1, ReadFacts, FS_Subset
<1>1. ReadBy(R \ {e}, p) = ReadBy(R, p) \ {e}
  BY DEF ReadBy
<1>2. \A v : v # p => ReadBy(R \ {e}, v) = ReadBy(R, v)
  BY DEF ReadBy
<1>3. Cardinality(ReadBy(R, p) \ {e}) = Cardinality(ReadBy(R, p)) - 1
  BY <1>0, FS_RemoveElement
<1>4. Cardinality(ReadBy(R, p)) \in Nat /\ Cardinality(ReadBy(R, p)) # 0
  BY <1>0, FS_CardinalityType, FS_EmptySet
<1>5. \A v \in Tensors : a.n_children[v] = Cardinality(ReadBy(R, v))
  BY DEF Counts
<1>6. a.n_children[p] > 0
  BY <1>4, <1>5
<1>7. ASSUME NEW v \in Tensors PROVE b.n_children[v] = Cardinality(ReadBy(R \ {e}, v))
  <2>1. CASE v = p
    BY <1>1, <1>3, <1>5, <2>1
  <2>2. CASE v # p
    BY <1>2, <1>5, <2>2
  <2> QED BY <2>1, <2>2
<1> QED BY <1>6, <1>7 DEF Counts

\* Fewer tensors are alive, so there are no more views.
LEMMA ViewsDrop ==
  ASSUME GraphInv, NEW a, Typed(a), NEW c, Typed(c), c.view_src = a.view_src, Views(a),
         \A v \in Tensors : c.n_children[v] <= a.n_children[v] /\ c.n_views[v] <= a.n_views[v],
         NEW r \in Tensors
  PROVE  /\ ViewsOf(c, r) \subseteq ViewsOf(a, r)
         /\ IsFiniteSet(ViewsOf(a, r)) /\ IsFiniteSet(ViewsOf(c, r))
         /\ Cardinality(ViewsOf(a, r)) \in Nat /\ Cardinality(ViewsOf(c, r)) \in Nat
         /\ Cardinality(ViewsOf(c, r)) <= Cardinality(ViewsOf(a, r))
         /\ \A p \in ViewsOf(a, r) : p \notin ViewsOf(c, r) =>
              Cardinality(ViewsOf(c, r)) <= Cardinality(ViewsOf(a, r)) - 1
<1>1. \A v \in Tensors : Alive(c, v) => Alive(a, v)
  BY TypedFacts DEF Alive
<1>2. ViewsOf(c, r) \subseteq ViewsOf(a, r) /\ ViewsOf(a, r) \subseteq Tensors
  BY <1>1 DEF ViewsOf
<1>3. IsFiniteSet(ViewsOf(a, r)) /\ IsFiniteSet(ViewsOf(c, r))
  BY <1>2, GraphFacts, FS_Subset
<1>4. Cardinality(ViewsOf(c, r)) <= Cardinality(ViewsOf(a, r))
  BY <1>2, <1>3, FS_Subset
<1>5. ASSUME NEW p \in ViewsOf(a, r), p \notin ViewsOf(c, r)
      PROVE  Cardinality(ViewsOf(c, r)) <= Cardinality(ViewsOf(a, r)) - 1
  <2>1. ViewsOf(c, r) \subseteq ViewsOf(a, r) \ {p}
    BY <1>2, <1>5
  <2>2. IsFiniteSet(ViewsOf(a, r) \ {p})
        /\ Cardinality(ViewsOf(a, r) \ {p}) = Cardinality(ViewsOf(a, r)) - 1
    BY <1>3, <1>5, FS_RemoveElement
  <2>3. Cardinality(ViewsOf(c, r)) <= Cardinality(ViewsOf(a, r) \ {p})
    BY <2>1, <2>2, FS_Subset
  <2> QED BY <2>2, <2>3
<1>6. Cardinality(ViewsOf(a, r)) \in Nat /\ Cardinality(ViewsOf(c, r)) \in Nat
  BY <1>3, FS_CardinalityType
<1> QED BY <1>2, <1>3, <1>4, <1>5, <1>6

\* Places and what is kept depend on three of the fields only.
LEMMA SamePlaces ==
  ASSUME NEW a, NEW c, c.data = a.data, c.view_src = a.view_src
  PROVE  /\ \A t : IsOwn(c, t) <=> IsOwn(a, t)
         /\ \A t : AEnd(c, t) = AEnd(a, t) /\ Region(c, t) = Region(a, t)
         /\ \A n, lo, hi : Places(a, n, lo, hi) => Places(c, n, lo, hi)
         /\ c.blocks = a.blocks => \A W : Kept(a, W) => Kept(c, W)
<1>1. \A t : IsOwn(c, t) <=> IsOwn(a, t)
  BY DEF IsOwn
<1>2. \A t : AEnd(c, t) = AEnd(a, t) /\ Region(c, t) = Region(a, t)
  BY DEF AEnd, Region
<1>3. ASSUME NEW n, NEW lo, NEW hi, Places(a, n, lo, hi), NEW t \in Tensors
      PROVE  PlaceOf(c, t, n, lo, hi)
  <2>1. PlaceOf(a, t, n, lo, hi)
    BY <1>3 DEF Places
  <2> QED BY <1>1, <1>2, <2>1, Zenon DEF PlaceOf
<1>4. ASSUME c.blocks = a.blocks, NEW W, Kept(a, W) PROVE Kept(c, W)
  BY <1>1, <1>2, <1>4, Zenon DEF Kept
<1> QED BY <1>1, <1>2, <1>3, <1>4 DEF Places

\* What is needed is held, of what was held before.
StillHeld(c, n, S, W, lo, hi) ==
    \E V \in SUBSET W : /\ Held(c, n, S, V, lo, hi)
                        /\ \A o \in W : o \notin V => o \notin Need(S)

\* Memory of a tensor that is not needed is given back.
LEMMA FreeHeld ==
  ASSUME GraphInv, NEW a, NEW n, NEW S, S \subseteq Reads, NEW W, W \subseteq Tensors,
         NEW lo \in Nat, NEW hi \in Nat, Held(a, n, S, W, lo, hi),
         NEW q \in Tensors, graph[q].kind # "view",
         a.n_children[q] = 0, a.n_views[q] = 0,
         NEW f \in Tensors, f = q \/ (IsOwn(a, q) /\ f = Region(a, q)), IsOwn(a, f) => q \in W,
         FreeTensor(a, f).failed = FALSE
  PROVE  StillHeld(FreeTensor(a, f), n, S, W, lo, hi)
<1>0. /\ Typed(a) /\ a.failed = FALSE /\ Ordered(a.blocks, lo, hi) /\ Places(a, n, lo, hi)
      /\ Counts(a, S) /\ Views(a) /\ Kept(a, W)
  BY DEF Held
<1>1. CASE ~IsOwn(a, f)
  <2>1. FreeTensor(a, f) = a
    BY <1>1 DEF FreeTensor
  <2> QED BY <2>1 DEF StillHeld
<1>2. CASE IsOwn(a, f)
  <2> DEFINE V == W \ {q}
  <2>c. PICK c : c = FreeTensor(a, f)
    OBVIOUS
  <2>1. q \in W /\ IsOwn(a, q) /\ Clear(a.blocks, a.data[q], AEnd(a, Region(a, q)))
    BY <1>0, <1>2 DEF Kept
  <2>2. /\ Region(a, q) \in Tensors /\ IsOwn(a, Region(a, q)) /\ a.data[Region(a, q)] = a.data[q]
        /\ AEnd(a, q) <= AEnd(a, Region(a, q)) /\ graph[Region(a, q)].kind # "view"
    BY <1>0, <2>1, RegionFacts
  <2>3. a.data[f] = a.data[q] /\ AEnd(a, f) <= AEnd(a, Region(a, q)) /\ graph[f].kind # "view"
    <3>1. AEnd(a, Region(a, q)) \in Nat
      BY <1>0, <2>2, OwnFacts
    <3>2. CASE f = q
      BY <2>2, <3>2
    <3>3. CASE f = Region(a, q)
      BY <2>2, <3>1, <3>3
    <3> QED BY <3>2, <3>3
  <2>4. a.data[f] \in Nat /\ AEnd(a, f) \in Nat /\ AEnd(a, Region(a, q)) \in Nat
    BY <1>0, <1>2, <2>2, OwnFacts
  <2>5. Clear(a.blocks, a.data[f], AEnd(a, f))
    <3>1. a.blocks \in Seq(Block)
      BY <1>0, TypedFacts
    <3> QED BY <2>1, <2>3, <2>4, <3>1, ClearPart
  <2>6. lo <= a.data[f] /\ AEnd(a, f) <= hi
    BY <1>0, <1>2, <2>3 DEF Places, PlaceOf
  <2>7. Freed(a, c, f, lo, hi)
    BY <1>0, <1>2, <2>c, <2>5, <2>6, FreePlace
  <2>8. /\ Typed(c) /\ c.failed = FALSE
        /\ c.view_src = a.view_src /\ c.n_children = a.n_children /\ c.n_views = a.n_views
        /\ c.data = a.data
        /\ Ordered(c.blocks, lo, hi)
        /\ \A x, y \in Int : x < y /\ Clear(a.blocks, x, y) /\ (y <= a.data[f] \/ AEnd(a, f) <= x) =>
             Clear(c.blocks, x, y)
    BY <2>7 DEF Freed
  <2>9. /\ \A t : IsOwn(c, t) <=> IsOwn(a, t)
        /\ \A t : AEnd(c, t) = AEnd(a, t) /\ Region(c, t) = Region(a, t)
        /\ Places(c, n, lo, hi)
    BY <1>0, <2>8, SamePlaces
  <2>10. Counts(c, S) /\ Views(c)
    BY <1>0, <2>8, SameCounts
  <2>11. ASSUME NEW o \in V
         PROVE  Clear(c.blocks, c.data[o], AEnd(c, Region(c, o)))
    <3>1. /\ o \in W /\ o # q /\ o \in Tensors /\ graph[o].kind # "view" /\ IsOwn(a, o)
          /\ Clear(a.blocks, a.data[o], AEnd(a, Region(a, o)))
          /\ AEnd(a, Region(a, o)) <= a.data[q] \/ AEnd(a, Region(a, q)) <= a.data[o]
      BY <1>0, <2>1 DEF Kept
    <3>2. Region(a, o) \in Tensors /\ IsOwn(a, Region(a, o)) /\ a.data[Region(a, o)] = a.data[o]
      BY <1>0, <3>1, RegionFacts
    <3>3. a.data[o] \in Int /\ AEnd(a, Region(a, o)) \in Int /\ a.data[o] < AEnd(a, Region(a, o))
      BY <1>0, <3>2, OwnFacts
    <3>4. AEnd(a, Region(a, o)) <= a.data[f] \/ AEnd(a, f) <= a.data[o]
      BY <2>3, <2>4, <3>1, <3>3
    <3>5. Clear(c.blocks, a.data[o], AEnd(a, Region(a, o)))
      BY <2>8, <3>1, <3>3, <3>4
    <3> QED BY <2>8, <2>9, <3>5
  <2>12. Kept(c, V)
    BY <1>0, <2>8, <2>9, <2>11, Zenon DEF Kept
  <2>13. q \notin Need(S)
    BY <1>0, NotNeeded
  <2>14. Held(c, n, S, V, lo, hi)
    BY <2>8, <2>9, <2>10, <2>12, Zenon DEF Held
  <2>15. V \in SUBSET W /\ \A o \in W : o \notin V => o \notin Need(S)
    BY <2>13
  <2> HIDE DEF V
  <2> QED BY <2>c, <2>14, <2>15 DEF StillHeld
<1> QED BY <1>1, <1>2

\* Who is viewed, by a view or by a node that works in place.
LEMMA ViewSrcFacts ==
  ASSUME GraphInv, NEW a, Typed(a), NEW n, NEW lo, NEW hi, Places(a, n, lo, hi),
         NEW p \in Tensors, NEW r, r = a.view_src[p]
  PROVE  /\ r # None => r \in Tensors /\ r < p /\ graph[r].kind # "view"
         /\ graph[p].kind = "view" => r = Origin(p) /\ r # None
         /\ graph[p].kind # "view" /\ r # None =>
              Origin(p) = p /\ IsOwn(a, p) /\ r = Region(a, p)
<1>0. /\ p \in Nat /\ p >= 1 /\ Tensors = 1..Len(graph) /\ Len(graph) \in Nat
      /\ FirstNode \in Nat /\ r \in Nat
  BY GraphFacts, TypedFacts
<1>1. PlaceOf(a, p, n, lo, hi)
  BY DEF Places
<1>2. CASE graph[p].kind = "view"
  <2>1. r = graph[p].of
    BY <1>1, <1>2 DEF PlaceOf
  <2>2. Origin(p) = graph[p].of /\ graph[p].of \in Tensors /\ graph[p].of < p
        /\ graph[Origin(p)].kind # "view"
    BY <1>2, GraphFacts
  <2>3. r # None
    BY <1>0, <2>1, <2>2 DEF None
  <2> QED BY <1>2, <2>1, <2>2, <2>3
<1>3. CASE graph[p].kind # "view" /\ r # None
  <2>1. graph[p].kind = "op"
    <3>1. p < FirstNode \/ p >= FirstNode
      BY <1>0
    <3>2. graph[p].kind \in {"input", "weight", "op", "view"}
      BY <3>1, GraphFacts
    <3>3. ~(graph[p].kind \in {"input", "weight"})
      BY <1>1, <1>3 DEF PlaceOf
    <3> QED BY <1>3, <3>2, <3>3
  <2>2. r \in 1..(p - 1) /\ graph[r].kind # "view" /\ IsOwn(a, p)
    BY <1>1, <1>3, <2>1 DEF PlaceOf
  <2>3. r \in Tensors /\ r < p
    BY <1>0, <2>2
  <2>4. Origin(p) = p
    BY <1>3, GraphFacts
  <2> QED BY <1>3, <2>2, <2>3, <2>4 DEF Region
<1>4. CASE graph[p].kind # "view" /\ r = None
  BY <1>4
<1> QED BY <1>2, <1>3, <1>4

\* There are no more views when counts only fall.
LEMMA ViewsKeep ==
  ASSUME GraphInv, NEW a, Typed(a), NEW c, Typed(c), c.view_src = a.view_src, Views(a),
         \A v \in Tensors : c.n_children[v] <= a.n_children[v] /\ c.n_views[v] = a.n_views[v]
  PROVE  Views(c)
<1> SUFFICES ASSUME NEW r \in Tensors
             PROVE  c.n_views[r] \in Nat /\ Cardinality(ViewsOf(c, r)) <= c.n_views[r]
  BY DEF Views
<1>1. a.n_views[r] \in Nat /\ Cardinality(ViewsOf(a, r)) <= a.n_views[r]
  BY DEF Views
<1>2. \A v \in Tensors : c.n_children[v] <= a.n_children[v] /\ c.n_views[v] <= a.n_views[v]
  BY TypedFacts
<1>3. /\ Cardinality(ViewsOf(a, r)) \in Nat /\ Cardinality(ViewsOf(c, r)) \in Nat
      /\ Cardinality(ViewsOf(c, r)) <= Cardinality(ViewsOf(a, r))
  BY <1>2, ViewsDrop
<1> QED BY <1>1, <1>3

\* One view less of r, because p is no longer alive.
LEMMA ViewsLess ==
  ASSUME GraphInv, NEW a, Typed(a), NEW c, Typed(c), c.view_src = a.view_src, Views(a),
         NEW p \in Tensors, NEW r \in Tensors, a.view_src[p] = r, a.n_children[p] > 0,
         c.n_children[p] = 0, c.n_views[p] = 0, c.n_views[r] = a.n_views[r] - 1,
         \A v \in Tensors : c.n_children[v] <= a.n_children[v],
         \A v \in Tensors : v # r => c.n_views[v] = a.n_views[v]
  PROVE  Views(c)
<1> SUFFICES ASSUME NEW s \in Tensors
             PROVE  c.n_views[s] \in Nat /\ Cardinality(ViewsOf(c, s)) <= c.n_views[s]
  BY DEF Views
<1>1. a.n_views[s] \in Nat /\ Cardinality(ViewsOf(a, s)) <= a.n_views[s] /\ a.n_views[r] \in Nat
  BY DEF Views
<1>2. \A v \in Tensors : c.n_children[v] <= a.n_children[v] /\ c.n_views[v] <= a.n_views[v]
  <2> SUFFICES ASSUME NEW v \in Tensors PROVE c.n_views[v] <= a.n_views[v]
    OBVIOUS
  <2>1. a.n_views[v] \in Int /\ a.n_views[r] \in Int
    BY TypedFacts
  <2>2. CASE v = r
    BY <2>1, <2>2
  <2>3. CASE v # r
    BY <2>1, <2>3
  <2> QED BY <2>2, <2>3
<1>3. /\ Cardinality(ViewsOf(a, s)) \in Nat /\ Cardinality(ViewsOf(c, s)) \in Nat
      /\ Cardinality(ViewsOf(c, s)) <= Cardinality(ViewsOf(a, s))
      /\ \A v \in ViewsOf(a, s) : v \notin ViewsOf(c, s) =>
           Cardinality(ViewsOf(c, s)) <= Cardinality(ViewsOf(a, s)) - 1
  BY <1>2, ViewsDrop
<1>4. CASE s # r
  BY <1>1, <1>3, <1>4
<1>5. CASE s = r
  <2>1. p \in ViewsOf(a, r)
    BY DEF ViewsOf, Alive
  <2>2. p \notin ViewsOf(c, r)
    BY DEF ViewsOf, Alive
  <2>3. Cardinality(ViewsOf(c, s)) <= Cardinality(ViewsOf(a, s)) - 1
    BY <1>3, <1>5, <2>1, <2>2
  <2> QED BY <1>1, <1>3, <1>5, <2>3
<1> QED BY <1>4, <1>5

\* One read is over: what is still needed is still held.
LEMMA ReleaseHeld ==
  ASSUME GraphInv, NEW a, NEW n, NEW R, R \subseteq Reads, NEW W, W \subseteq Tensors,
         NEW lo \in Nat, NEW hi \in Nat, Held(a, n, R, W, lo, hi),
         NEW e \in R, NEW p, p = Source(e),
         Origin(p) \in W \/ ~IsOwn(a, Origin(p)) \/ Guarded(a, p),
         Release(a, p).failed = FALSE
  PROVE  StillHeld(Release(a, p), n, R \ {e}, W, lo, hi)
<1> DEFINE S == R \ {e}
           q == Origin(p)
<1>0. /\ Typed(a) /\ a.failed = FALSE /\ Ordered(a.blocks, lo, hi) /\ Places(a, n, lo, hi)
      /\ Counts(a, R) /\ Views(a) /\ Kept(a, W)
  BY DEF Held
<1>a. PICK b : b = Dropped(a, p)
  OBVIOUS
<1>b. PICK u : u = Unviewed(a, p)
  OBVIOUS
<1>c. PICK r : r = a.view_src[p]
  OBVIOUS
<1>1. p \in Tensors /\ S \subseteq Reads
  BY ReadFacts
<1>2. /\ Typed(b) /\ b.failed = a.failed /\ b.blocks = a.blocks /\ b.data = a.data
      /\ b.view_src = a.view_src /\ b.n_views = a.n_views
      /\ b.n_children[p] = a.n_children[p] - 1
      /\ \A v \in Tensors : v # p => b.n_children[v] = a.n_children[v]
  BY <1>0, <1>1, <1>a, DroppedFields
<1>3. Counts(b, S) /\ a.n_children[p] > 0
  BY <1>0, <1>1, <1>2, CountsDrop
<1>4. \A v \in Tensors : b.n_children[v] <= a.n_children[v]
  BY <1>0, <1>1, <1>2, TypedFacts
<1>5. Views(b)
  BY <1>0, <1>2, <1>4, ViewsKeep
<1>6. Held(b, n, S, W, lo, hi)
  <2>1. Places(b, n, lo, hi) /\ Kept(b, W)
    BY <1>0, <1>2, SamePlaces
  <2>2. b.failed = FALSE /\ Ordered(b.blocks, lo, hi)
    BY <1>0, <1>2
  <2> QED BY <1>2, <1>3, <1>5, <2>1, <2>2, Zenon DEF Held
<1>7. /\ r # None => r \in Tensors /\ r < p /\ graph[r].kind # "view"
      /\ graph[p].kind = "view" => r = q /\ r # None
      /\ graph[p].kind # "view" /\ r # None => q = p /\ IsOwn(a, p) /\ r = Region(a, p)
      /\ graph[p].kind # "view" => q = p
      /\ q \in Tensors /\ graph[q].kind # "view" /\ p \in Nat
  BY <1>0, <1>1, <1>c, ViewSrcFacts, GraphFacts
<1>8. r # None =>
        /\ Typed(u) /\ u.failed = a.failed /\ u.blocks = a.blocks /\ u.data = a.data
        /\ u.view_src = a.view_src /\ u.n_children = b.n_children
        /\ u.n_views[r] = a.n_views[r] - 1
        /\ \A v \in Tensors : v # r => u.n_views[v] = a.n_views[v]
  <2> SUFFICES ASSUME r # None
      PROVE  /\ Typed(u) /\ u.failed = a.failed /\ u.blocks = a.blocks /\ u.data = a.data
             /\ u.view_src = a.view_src /\ u.n_children = b.n_children
             /\ u.n_views[r] = a.n_views[r] - 1
             /\ \A v \in Tensors : v # r => u.n_views[v] = a.n_views[v]
    OBVIOUS
  <2>1. a.view_src[p] \in Tensors
    BY <1>7, <1>c
  <2>2. /\ Typed(u) /\ u.failed = a.failed /\ u.blocks = a.blocks /\ u.data = a.data
        /\ u.view_src = a.view_src /\ u.n_children = Dropped(a, p).n_children
        /\ u.n_views[a.view_src[p]] = a.n_views[a.view_src[p]] - 1
        /\ \A v \in Tensors : v # a.view_src[p] => u.n_views[v] = a.n_views[v]
    BY <1>0, <1>1, <2>1, <1>b, UnviewedFields
  <2> QED BY <2>2, <1>a, <1>c
<1>9. ASSUME r # None, b.n_children[p] = 0, b.n_views[p] = 0
      PROVE  Held(u, n, S, W, lo, hi) /\ u.n_children[p] = 0 /\ u.n_views[p] = 0
  <2>1. /\ Typed(u) /\ u.failed = FALSE /\ u.blocks = a.blocks /\ u.data = a.data
        /\ u.view_src = a.view_src /\ u.n_children = b.n_children
        /\ u.n_views[r] = a.n_views[r] - 1
        /\ \A v \in Tensors : v # r => u.n_views[v] = a.n_views[v]
    BY <1>0, <1>8, <1>9
  <2>2. r \in Tensors /\ p # r
    BY <1>7, <1>9
  <2>3. u.n_children[p] = 0 /\ u.n_views[p] = 0
    BY <1>1, <1>2, <1>9, <2>1, <2>2
  <2>4. Counts(u, S)
    BY <1>3, <2>1 DEF Counts
  <2>5. Views(u)
    BY <1>0, <1>1, <1>3, <1>4, <1>c, <2>1, <2>2, <2>3, ViewsLess
  <2>6. Places(u, n, lo, hi) /\ Kept(u, W) /\ Ordered(u.blocks, lo, hi)
    BY <1>0, <2>1, SamePlaces
  <2> QED BY <2>1, <2>3, <2>4, <2>5, <2>6, Zenon DEF Held
<1>10. CASE Release(a, p) = b
  BY <1>6, <1>10 DEF StillHeld
<1>11. CASE /\ b.n_children[p] = 0 /\ b.n_views[p] = 0 /\ r = None
            /\ Release(a, p) = FreeTensor(b, p)
  <2>1. q = p
    BY <1>7, <1>11
  <2>2. ~Guarded(a, p)
    BY <1>2, <1>11, <1>c DEF Guarded
  <2>3. IsOwn(b, p) => p \in W
    BY <1>2, <2>1, <2>2 DEF IsOwn
  <2>4. FreeTensor(b, p).failed = FALSE /\ graph[p].kind # "view"
    BY <1>7, <1>11, <2>1
  <2>5. StillHeld(FreeTensor(b, p), n, S, W, lo, hi)
    <3>1. b.n_children[p] = 0 /\ b.n_views[p] = 0
      BY <1>11
    <3> HIDE DEF S
    <3> QED BY <1>1, <1>6, <2>3, <2>4, <3>1, FreeHeld
  <2> QED BY <1>11, <2>5
<1>12. CASE /\ b.n_children[p] = 0 /\ b.n_views[p] = 0 /\ r # None
            /\ u.n_views[r] = 0 /\ u.n_children[r] = 0
            /\ Release(a, p) = FreeTensor(u, r)
  <2>1. Held(u, n, S, W, lo, hi) /\ u.n_children[p] = 0 /\ u.n_views[p] = 0
    BY <1>9, <1>12
  <2>2. /\ r \in Tensors /\ u.data = a.data /\ u.view_src = a.view_src
        /\ u.n_views[r] = a.n_views[r] - 1
    BY <1>7, <1>8, <1>12
  <2>3. ~Guarded(a, p)
    <3>1. a.n_views[r] \in Int
      BY <1>0, <2>2, TypedFacts
    <3>2. ~(a.n_views[r] > 1)
      BY <1>12, <2>2, <3>1
    <3> QED BY <1>12, <1>c, <3>2 DEF Guarded
  <2>4. \A t : (IsOwn(u, t) <=> IsOwn(a, t)) /\ Region(u, t) = Region(a, t)
    BY <2>2, SamePlaces
  <2>5. FreeTensor(u, r).failed = FALSE
    BY <1>12
  <2>6. CASE graph[p].kind = "view"
    <3>1. r = q /\ u.n_children[q] = 0 /\ u.n_views[q] = 0
      BY <1>7, <1>12, <2>6
    <3>2. IsOwn(u, r) => q \in W
      BY <2>3, <2>4, <3>1
    <3>3. StillHeld(FreeTensor(u, r), n, S, W, lo, hi)
      <4>1. u.n_children[r] = 0 /\ u.n_views[r] = 0 /\ graph[r].kind # "view" /\ r \in Tensors
        BY <1>7, <1>12
      <4>2. IsOwn(u, r) => r \in W
        BY <3>1, <3>2
      <4> HIDE DEF S, q
      <4> QED BY <1>1, <2>1, <2>5, <4>1, <4>2, FreeHeld
    <3> QED BY <1>12, <3>3
  <2>7. CASE graph[p].kind # "view"
    <3>1. q = p /\ IsOwn(a, p) /\ r = Region(a, p)
      BY <1>7, <1>12, <2>7
    <3>2. p \in W
      BY <2>3, <3>1
    <3>3. IsOwn(u, p) /\ r = Region(u, p)
      BY <2>4, <3>1
    <3>4. StillHeld(FreeTensor(u, r), n, S, W, lo, hi)
      <4> HIDE DEF S, q
      <4> QED BY <1>1, <2>1, <2>2, <2>5, <2>7, <3>2, <3>3, FreeHeld
    <3> QED BY <1>12, <3>4
  <2> QED BY <2>6, <2>7
<1>13. CASE /\ b.n_children[p] = 0 /\ b.n_views[p] = 0 /\ r # None
            /\ Release(a, p) = u
  BY <1>9, <1>13 DEF StillHeld
<1>14. \/ Release(a, p) = b
       \/ /\ b.n_children[p] = 0 /\ b.n_views[p] = 0 /\ r = None
          /\ Release(a, p) = FreeTensor(b, p)
       \/ /\ b.n_children[p] = 0 /\ b.n_views[p] = 0 /\ r # None
          /\ u.n_views[r] = 0 /\ u.n_children[r] = 0
          /\ Release(a, p) = FreeTensor(u, r)
       \/ /\ b.n_children[p] = 0 /\ b.n_views[p] = 0 /\ r # None
          /\ Release(a, p) = u
  BY <1>a, <1>b, <1>c, ReleaseCases
<1> QED BY <1>10, <1>11, <1>12, <1>13, <1>14

\* The memory at which a tensor lies is in no block.
Fits(a, f, hi) ==
    IsOwn(a, f) => Clear(a.blocks, a.data[f], AEnd(a, f)) /\ AEnd(a, f) <= hi

\* What the update of a source finds: memory it gives back is in no block.
Releasable(a, p, lo, hi) ==
    /\ Typed(a) /\ a.failed = FALSE /\ Ordered(a.blocks, lo, hi) /\ p \in Tensors
    /\ Region(a, p) \in Tensors
    /\ ~Guarded(a, p) => Fits(a, Region(a, p), hi)

\* The update of a source of which something is kept is releasable.
LEMMA ReleaseFits ==
  ASSUME GraphInv, NEW a, NEW n, NEW R, R \subseteq Reads, NEW W, W \subseteq Tensors,
         NEW lo \in Nat, NEW hi \in Nat, Held(a, n, R, W, lo, hi),
         NEW e \in R, NEW p, p = Source(e),
         Origin(p) \in W \/ ~IsOwn(a, Origin(p)) \/ Guarded(a, p)
  PROVE  Releasable(a, p, lo, hi)
<1>q. PICK q : q = Origin(p)
  OBVIOUS
<1>f. PICK f : f = Region(a, p)
  OBVIOUS
<1>0. /\ Typed(a) /\ a.failed = FALSE /\ Ordered(a.blocks, lo, hi) /\ Places(a, n, lo, hi)
      /\ Kept(a, W)
  BY DEF Held
<1>1. p \in Tensors
  BY ReadFacts
<1>2. /\ q \in Tensors /\ graph[q].kind # "view"
      /\ graph[p].kind # "view" => q = p
      /\ graph[p].kind = "view" => q = graph[p].of /\ q < p
      /\ \A t \in Tensors : t >= 1
  BY <1>1, <1>q, GraphFacts
<1>3. graph[p].kind = "view" => f = q
  <2>1. graph[p].kind = "view" => a.view_src[p] = q
    BY <1>0, <1>1, <1>2 DEF Places, PlaceOf
  <2>2. q # None
    BY <1>2 DEF None
  <2> QED BY <2>1, <2>2, <1>f DEF Region
<1>4. graph[p].kind # "view" => f = p \/ (IsOwn(a, p) /\ f \in Tensors)
  <2>1. graph[p].kind # "view" /\ a.view_src[p] # None => IsOwn(a, p)
    BY <1>0, <1>1, <1>2, ViewSrcFacts
  <2>2. CASE a.view_src[p] = None
    BY <2>2, <1>f DEF Region
  <2>3. CASE a.view_src[p] # None
    <3>1. graph[p].kind # "view" /\ IsOwn(a, p) => Region(a, p) \in Tensors
      BY <1>0, <1>1, RegionFacts
    <3> QED BY <2>1, <2>3, <3>1, <1>f
  <2> QED BY <2>2, <2>3
<1>5. f \in Tensors
  BY <1>1, <1>2, <1>3, <1>4
<1>6. ASSUME ~Guarded(a, p), IsOwn(a, f)
      PROVE  Clear(a.blocks, a.data[f], AEnd(a, f)) /\ AEnd(a, f) <= hi
  <2>1. IsOwn(a, q)
    BY <1>2, <1>3, <1>4, <1>6
  <2>2. q \in W
    BY <1>6, <1>q, <2>1
  <2>3. Clear(a.blocks, a.data[q], AEnd(a, Region(a, q)))
    BY <1>0, <2>2 DEF Kept
  <2>4. /\ Region(a, q) \in Tensors /\ graph[Region(a, q)].kind # "view"
        /\ IsOwn(a, Region(a, q)) /\ a.data[Region(a, q)] = a.data[q]
        /\ AEnd(a, q) <= AEnd(a, Region(a, q))
    BY <1>0, <1>2, <2>1, RegionFacts
  <2>5. f = q \/ f = Region(a, q)
    BY <1>2, <1>3, <1>f
  <2>6. /\ a.data[q] \in Nat /\ AEnd(a, q) \in Nat /\ AEnd(a, Region(a, q)) \in Nat
    BY <1>0, <1>2, <2>1, <2>4, OwnFacts
  <2>7. Clear(a.blocks, a.data[q], AEnd(a, q))
    <3>1. a.blocks \in Seq(Block)
      BY <1>0, TypedFacts
    <3> QED BY <2>3, <2>4, <2>6, <3>1, ClearPart
  <2>8. AEnd(a, q) <= hi /\ AEnd(a, Region(a, q)) <= hi
    BY <1>0, <1>2, <2>1, <2>4 DEF Places, PlaceOf
  <2> QED BY <2>3, <2>4, <2>5, <2>7, <2>8
<1> QED BY <1>0, <1>1, <1>5, <1>6, <1>f DEF Releasable, Fits

-----------------------------------------------------------------------------
(* A node gets its place: a view of its root, a block, or the memory of a  *)
(* source.                                                                 *)

\* A new entry of one of the functions on tensors.
LEMMA EntryChange ==
  ASSUME NEW T, NEW f \in [Tensors -> T], NEW t \in Tensors, NEW v \in T
  PROVE  /\ [f EXCEPT ![t] = v] \in [Tensors -> T]
         /\ [f EXCEPT ![t] = v][t] = v
         /\ \A u \in Tensors : u # t => [f EXCEPT ![t] = v][u] = f[u]
OBVIOUS

\* A state that differs only in the place of t.
Moved(a, c, t, v) ==
    /\ Typed(c) /\ c.failed = a.failed /\ c.blocks = a.blocks /\ c.max_size = a.max_size
    /\ c.view_src = a.view_src /\ c.n_children = a.n_children /\ c.n_views = a.n_views
    /\ c.data[t] = v
    /\ \A u \in Tensors : u # t => c.data[u] = a.data[u]

\* Writing the place of t moves t and no other.
LEMMA MovedForm ==
  ASSUME GraphInv, NEW a, Typed(a), NEW t \in Tensors, NEW v \in Int
  PROVE  Moved(a, [a EXCEPT !.data[t] = v], t, v)
<1>a. PICK c : c = [a EXCEPT !.data[t] = v]
  OBVIOUS
<1>0. Fields(a) /\ a.data \in [Tensors -> Int]
  BY DEF Typed
<1>1. /\ Fields(c) /\ c.failed = a.failed /\ c.blocks = a.blocks /\ c.max_size = a.max_size
      /\ c.view_src = a.view_src /\ c.n_children = a.n_children /\ c.n_views = a.n_views
      /\ c.data = [a.data EXCEPT ![t] = v]
  BY <1>0, <1>a DEF Fields
<1>2. /\ c.data \in [Tensors -> Int] /\ c.data[t] = v
      /\ \A u \in Tensors : u # t => c.data[u] = a.data[u]
  <2>1. PICK f \in [Tensors -> Int] : f = a.data
    BY <1>0
  <2> QED BY <1>1, <2>1, EntryChange
<1>3. Typed(c)
  <2>1. /\ c.failed \in BOOLEAN /\ c.blocks \in Seq(Block) /\ c.max_size \in Nat
        /\ c.view_src \in [Tensors -> Nat] /\ c.n_views \in [Tensors -> Int]
        /\ c.n_children \in [Tensors -> Int]
    BY <1>1 DEF Typed
  <2> QED BY <1>1, <1>2, <2>1, Zenon DEF Typed
<1>4. Moved(a, c, t, v)
  BY <1>1, <1>2, <1>3, Zenon DEF Moved
<1> QED BY <1>a, <1>4

\* The roots of what is needed are no views.
LEMMA NeedFacts ==
  ASSUME GraphInv, NEW S, S \subseteq Reads
  PROVE  \A o \in Need(S) : o \in Tensors /\ graph[o].kind # "view"
BY ReadFacts, GraphFacts DEF Need

\* What the reads R need is kept, but for the read by which t took over the
\* memory of one of its sources: another view still holds that.
Ready(c, t, R, V) ==
    \/ Covers(c, R, V)
    \/ \E j \in DOMAIN graph[t].src :
         LET p == graph[t].src[j] IN
         /\ Covers(c, R \ {<<t, j>>}, V)
         /\ Guarded(c, p)
         /\ \A i \in DOMAIN graph[t].src : i # j =>
              /\ graph[t].src[i] # p
              /\ c.view_src[graph[t].src[i]] # Region(c, p)

\* Node t has its place.
NodePlaced(a, c, t, R, V, lo, hi) ==
    /\ Held(c, t + 1, R, V, lo, hi) /\ OnlyAt(a, c, t)
    /\ graph[t].kind = "op" => NodeApart(c, t)
    /\ Ready(c, t, R, V)

\* A view gets its place in the memory of its root.
LEMMA ViewPlaced ==
  ASSUME GraphInv, NEW a, NEW t \in Tensors, NEW R, R \subseteq Reads, NEW W, W \subseteq Tensors,
         NEW lo \in Nat, NEW hi \in Nat, Held(a, t, R, W, lo, hi), Covers(a, R, W),
         graph[t].kind = "view"
  PROVE  NodePlaced(a, AllocateNode(a, t), t, R, W, lo, hi)
<1>a. PICK c : c = AllocateNode(a, t)
  OBVIOUS
<1>b. PICK r : r = graph[t].of
  OBVIOUS
<1>0. /\ Typed(a) /\ a.failed = FALSE /\ Ordered(a.blocks, lo, hi) /\ Places(a, t, lo, hi)
      /\ Counts(a, R) /\ Views(a) /\ Kept(a, W)
  BY DEF Held
<1>1. /\ r \in Tensors /\ r < t /\ t \in Nat /\ graph[t].offs \in Nat
      /\ graph[r].kind # "view" /\ a.data[r] \in Int /\ a.data[t] \in Int
      /\ graph[t].offs + graph[t].size <= graph[r].size
      /\ graph[t].size \in Nat /\ graph[r].size \in Nat
  BY <1>0, <1>b, GraphFacts, TypedFacts
<1>2. /\ a.data[t] >= External /\ ~IsOwn(a, t) /\ a.view_src[t] = r
      /\ a.data[t] = External <=> a.data[r] = External
  BY <1>0, <1>1, <1>b DEF Places, PlaceOf
<1>3. a.data[r] # NULL /\ a.data[r] >= External
  BY <1>0, <1>1 DEF Places, PlaceOf
<1>4. a.data[t] = External \/ a.data[t] = NULL
  <2>1. PICK v \in Int : v = a.data[t]
    BY <1>1
  <2>2. v >= -2 /\ ~(v >= 0)
    BY <1>2, <2>1 DEF IsOwn, External
  <2>3. v = -2 \/ v = -1
    BY <2>2
  <2> QED BY <2>1, <2>3 DEF External, NULL
<1>5. /\ Typed(c) /\ c.failed = FALSE /\ c.blocks = a.blocks
      /\ c.view_src = a.view_src /\ c.n_children = a.n_children /\ c.n_views = a.n_views
      /\ \A u \in Tensors : u # t => c.data[u] = a.data[u]
      /\ \/ a.data[t] = External /\ c.data[t] = External
         \/ a.data[t] = NULL /\ IsOwn(a, r) /\ c.data[t] = a.data[r] + graph[t].offs
  <2>1. CASE a.data[t] = External
    <3>1. c = a
      BY <1>a, <2>1 DEF AllocateNode, External, NULL
    <3> QED BY <1>0, <2>1, <3>1
  <2>2. CASE a.data[t] = NULL
    <3>1. IsOwn(a, r)
      <4>1. a.data[r] # External
        BY <1>2, <2>2 DEF External, NULL
      <4>2. PICK v \in Int : v = a.data[r]
        BY <1>1
      <4>3. v >= -2 /\ v # -1 /\ v # -2
        BY <1>3, <4>1, <4>2 DEF External, NULL
      <4>4. v >= 0
        BY <4>3
      <4> QED BY <4>2, <4>4 DEF IsOwn
    <3>2. a.view_src[t] # None
      BY <1>1, <1>2, GraphFacts DEF None
    <3>3. c = InitView(a, t)
      BY <1>a, <2>2, <3>2 DEF AllocateNode
    <3>4. c = [a EXCEPT !.data[t] = a.data[r] + graph[t].offs]
      BY <1>2, <3>1, <3>3 DEF InitView
    <3>5. PICK v \in Int : v = a.data[r] + graph[t].offs
      BY <1>1
    <3>6. Moved(a, c, t, v)
      BY <1>0, <3>4, <3>5, MovedForm
    <3> QED BY <1>0, <2>2, <3>1, <3>5, <3>6 DEF Moved
  <2> QED BY <1>4, <2>1, <2>2
<1>6. OnlyAt(a, c, t)
  BY <1>5 DEF OnlyAt
<1>7. c.data[r] = a.data[r]
  BY <1>1, <1>5
<1>8. PlaceOf(c, t, t + 1, lo, hi)
  <2>1. c.data[t] >= External /\ c.data[t] # NULL
    BY <1>1, <1>5 DEF External, NULL, IsOwn
  <2>2. c.data[t] = External <=> c.data[r] = External
    BY <1>1, <1>2, <1>5, <1>7 DEF External, NULL, IsOwn
  <2>3. IsOwn(c, t) => IsOwn(c, r) /\ c.data[t] = c.data[r] + graph[t].offs
    BY <1>5, <1>7 DEF IsOwn, External
  <2>4. ~(t >= t + 1)
    BY <1>1
  <2>5. c.view_src[t] = r
    BY <1>2, <1>5
  <2> QED BY <1>b, <2>1, <2>2, <2>3, <2>4, <2>5 DEF PlaceOf
<1>9. c.data[t] = External <=> a.data[t] = External
  BY <1>1, <1>5 DEF External, NULL, IsOwn
<1>10. Places(c, t + 1, lo, hi)
  BY <1>0, <1>2, <1>5, <1>6, <1>8, <1>9, PlacesChange
<1>11. Kept(c, W)
  BY <1>0, <1>2, <1>5, <1>6, KeptChange
<1>12. Counts(c, R) /\ Views(c)
  BY <1>0, <1>5, SameCounts
<1>13. Held(c, t + 1, R, W, lo, hi)
  <2>1. Ordered(c.blocks, lo, hi)
    BY <1>0, <1>5
  <2> QED BY <1>5, <1>10, <1>11, <1>12, <2>1, Zenon DEF Held
<1>14. Covers(c, R, W)
  <2> SUFFICES ASSUME NEW o \in Need(R), IsOwn(c, o) PROVE o \in W
    BY DEF Covers
  <2>1. o \in Tensors /\ o # t
    BY NeedFacts
  <2>2. IsOwn(a, o)
    BY <1>5, <2>1 DEF IsOwn
  <2> QED BY <2>2 DEF Covers
<1>15. NodePlaced(a, c, t, R, W, lo, hi)
  BY <1>6, <1>13, <1>14 DEF NodePlaced, Ready
<1> QED BY <1>a, <1>15

\* A node is apart from what is still read when all of that is kept beside it.
LEMMA ApartBy ==
  ASSUME GraphInv, NEW c, NEW t \in Tensors, NEW R, NEW V, V \subseteq Tensors,
         NEW lo, NEW hi, Held(c, t + 1, R, V, lo, hi), t \in V,
         NEW S, S \subseteq Reads, ReadsFrom(t + 1) \subseteq S, Covers(c, S, V),
         \A j \in DOMAIN graph[t].src :
            \/ <<t, j>> \in S
            \/ /\ graph[t].inplace /\ graph[t].size = graph[graph[t].src[j]].size
               /\ c.data[t] = c.data[graph[t].src[j]]
  PROVE  NodeApart(c, t)
<1>0. Typed(c) /\ Places(c, t + 1, lo, hi) /\ Kept(c, V)
  BY DEF Held
<1>1. graph[t].kind # "view" /\ IsOwn(c, t) /\ t \in Nat
  BY <1>0, GraphFacts DEF Kept
<1>2. ASSUME NEW s \in Tensors, s < t, Origin(s) \in Need(S), IsOwn(c, s)
      PROVE  Away(c, t, s)
  <2>o. PICK o \in Tensors : o = Origin(s)
    BY GraphFacts
  <2>1. /\ o <= s /\ graph[o].kind # "view" /\ s \in Nat /\ o \in Nat
        /\ graph[s].kind # "view" => o = s /\ graph[s].offs = 0
        /\ graph[s].kind = "view" => o = graph[s].of
        /\ graph[s].offs \in Nat /\ graph[s].offs + graph[s].size <= graph[o].size
        /\ graph[s].size \in Nat /\ graph[o].size \in Nat /\ graph[t].size \in Nat
    BY <2>o, GraphFacts
  <2>2. o # t
    BY <1>1, <1>2, <2>1
  <2>3. IsOwn(c, o) /\ c.data[s] = c.data[o] + graph[s].offs
    <3>0. c.data[o] \in Int /\ c.data[s] \in Int
      BY <1>0, TypedFacts
    <3>1. CASE graph[s].kind = "view"
      <4>1. PlaceOf(c, s, t + 1, lo, hi)
        BY <1>0 DEF Places
      <4> QED BY <1>2, <2>1, <3>1, <4>1 DEF PlaceOf
    <3>2. CASE graph[s].kind # "view"
      BY <1>2, <2>1, <3>0, <3>2
    <3> QED BY <3>1, <3>2
  <2>4. o \in V
    BY <1>2, <2>o, <2>3 DEF Covers
  <2>5. \/ AEnd(c, Region(c, o)) <= c.data[t]
        \/ AEnd(c, Region(c, t)) <= c.data[o]
    BY <1>0, <2>2, <2>4 DEF Kept
  <2>6. \A q \in {o, t} : /\ c.data[q] \in Nat /\ AEnd(c, Region(c, q)) \in Nat
                          /\ c.data[q] + graph[q].size <= AEnd(c, Region(c, q))
    <3> SUFFICES ASSUME NEW q \in {o, t}
                 PROVE  /\ c.data[q] \in Nat /\ AEnd(c, Region(c, q)) \in Nat
                        /\ c.data[q] + graph[q].size <= AEnd(c, Region(c, q))
      OBVIOUS
    <3>1. q \in Tensors /\ graph[q].kind # "view" /\ IsOwn(c, q) /\ graph[q].size \in Nat
      BY <1>1, <2>1, <2>3
    <3>2. /\ Region(c, q) \in Tensors /\ IsOwn(c, Region(c, q))
          /\ AEnd(c, q) <= AEnd(c, Region(c, q))
      BY <1>0, <3>1, RegionFacts
    <3>3. c.data[q] \in Nat /\ AEnd(c, q) \in Nat /\ c.data[q] + graph[q].size <= AEnd(c, q)
      BY <1>0, <3>1, OwnFacts
    <3>4. AEnd(c, Region(c, q)) \in Nat
      BY <1>0, <3>2, OwnFacts
    <3> QED BY <3>1, <3>2, <3>3, <3>4
  <2> QED BY <2>1, <2>3, <2>5, <2>6 DEF Away
<1>3. ASSUME NEW o \in Need(ReadsFrom(t + 1)), o < t, IsOwn(c, o)
      PROVE  Away(c, t, o)
  <2>1. o \in Need(S)
    BY DEF Need
  <2>2. o \in Tensors /\ Origin(o) = o
    BY <2>1, NeedFacts, GraphFacts
  <2> QED BY <1>2, <1>3, <2>1, <2>2
<1>4. ASSUME NEW j \in DOMAIN graph[t].src, NEW p, p = graph[t].src[j], IsOwn(c, p)
      PROVE  \/ Away(c, t, p)
             \/ graph[t].inplace /\ c.data[t] = c.data[p] /\ graph[t].size = graph[p].size
  <2>1. p \in Tensors /\ p < t
    BY <1>4, SourceFacts
  <2>2. CASE <<t, j>> \in S
    <3>1. Source(<<t, j>>) = p
      BY <1>4, ReadFacts
    <3>2. Origin(p) \in Need(S)
      BY <2>2, <3>1 DEF Need
    <3> QED BY <1>2, <1>4, <2>1, <3>2
  <2> QED BY <1>4, <2>2
<1> QED BY <1>1, <1>3, <1>4 DEF NodeApart

\* A node gets memory of its own.
LEMMA AllocPlaced ==
  ASSUME GraphInv, NEW a, NEW t \in Tensors, NEW R, R = ReadsFrom(t), NEW W, W \subseteq Tensors,
         NEW lo \in Nat, NEW hi \in Nat, Held(a, t, R, W, lo, hi), Covers(a, R, W),
         graph[t].kind = "op", a.view_src[t] = None, Alloc(a, t).failed = FALSE
  PROVE  NodePlaced(a, Alloc(a, t), t, R, W \cup {t}, lo, hi)
<1>a. PICK c : c = Alloc(a, t)
  OBVIOUS
<1>b. PICK V : V = W \cup {t}
  OBVIOUS
<1>0. Typed(a) /\ Places(a, t, lo, hi) /\ t \in Nat
  BY GraphFacts DEF Held
<1>1. ~IsOwn(a, t)
  BY <1>0 DEF Places, PlaceOf
<1>2. Held(c, t + 1, R, V, lo, hi) /\ OnlyAt(a, c, t) /\ IsOwn(c, t)
  BY <1>a, <1>b, <1>1, AllocHeld
<1>3. R \subseteq Reads /\ ReadsFrom(t + 1) \subseteq R
  BY ReadsSplit
<1>4. Covers(c, R, V)
  <2> SUFFICES ASSUME NEW o \in Need(R), IsOwn(c, o), o # t PROVE o \in V
    BY <1>b DEF Covers
  <2>1. o \in Tensors
    BY <1>3, NeedFacts
  <2>2. IsOwn(a, o)
    BY <1>2, <2>1 DEF IsOwn, OnlyAt
  <2> QED BY <1>b, <2>2 DEF Covers
<1>5. NodeApart(c, t)
  <2>1. \A j \in DOMAIN graph[t].src : <<t, j>> \in R
    BY ReadsSplit
  <2>2. V \subseteq Tensors /\ t \in V
    BY <1>b
  <2> QED BY <1>2, <1>3, <1>4, <2>1, <2>2, ApartBy
<1>6. NodePlaced(a, c, t, R, V, lo, hi)
  BY <1>2, <1>4, <1>5 DEF NodePlaced, Ready
<1> QED BY <1>a, <1>b, <1>6

\* What node t finds in its source p when it may write over it.
TakeOver(a, t, p, r) ==
    /\ r \in Tensors /\ r < t /\ graph[r].kind # "view" /\ IsOwn(a, r)
    /\ a.data[r] = a.data[p]
    /\ graph[t].size <= graph[r].size
    /\ IsOwn(a, Origin(p)) /\ a.data[Origin(p)] = a.data[p]
    /\ AEnd(a, r) <= AEnd(a, Region(a, Origin(p)))

\* A source that is reusable has memory that t can take over whole.
LEMMA TakeOverPlace ==
  ASSUME GraphInv, NEW a, Typed(a), NEW n, NEW lo, NEW hi, Places(a, n, lo, hi),
         NEW t \in Tensors, NEW p \in Tensors, p < t, Reusable(a, t, p),
         NEW r, r = Region(a, p)
  PROVE  TakeOver(a, t, p, r)
<1>0. /\ IsOwn(a, p) /\ graph[p].size = graph[t].size
      /\ a.view_src[p] # None => a.data[a.view_src[p]] = a.data[p]
  BY DEF Reusable
<1>1. /\ p \in Nat /\ t \in Nat /\ graph[p].size \in Nat /\ graph[p].offs \in Nat
      /\ graph[p].offs + graph[p].size <= graph[Origin(p)].size
      /\ Origin(p) \in Tensors /\ graph[Origin(p)].kind # "view"
      /\ graph[Origin(p)].size \in Nat /\ a.data[p] \in Int
      /\ graph[p].kind # "view" => Origin(p) = p
      /\ graph[p].kind = "view" => Origin(p) = graph[p].of
      /\ AllocSize(p) \in Nat
  BY GraphFacts, TypedFacts
<1>2. PlaceOf(a, p, n, lo, hi)
  BY DEF Places
<1>3. CASE a.view_src[p] = None
  <2>1. graph[p].kind # "view" /\ r = p
    BY <1>3, ViewSrcFacts DEF Region
  <2>2. Origin(p) = p /\ Region(a, p) = p /\ AEnd(a, p) \in Nat
    BY <1>0, <1>1, <2>1, OwnFacts
  <2> QED BY <1>0, <1>1, <2>1, <2>2 DEF TakeOver
<1>4. CASE a.view_src[p] # None
  <2>1. r = a.view_src[p]
    BY <1>4 DEF Region
  <2>2. r \in Tensors /\ r < p /\ graph[r].kind # "view" /\ a.data[r] = a.data[p]
    BY <1>0, <1>4, <2>1, ViewSrcFacts
  <2>3. IsOwn(a, r) /\ r \in Nat /\ r < t
    <3>1. r \in Nat
      BY <2>2, GraphFacts
    <3> QED BY <1>0, <1>1, <2>2, <3>1 DEF IsOwn
  <2>4. CASE graph[p].kind = "view"
    <3>1. r = Origin(p)
      BY <2>1, <2>4, ViewSrcFacts
    <3>2. AEnd(a, r) <= AEnd(a, Region(a, r))
      BY <2>2, <2>3, RegionFacts
    <3>3. graph[t].size <= graph[r].size
      BY <1>0, <1>1, <3>1
    <3> QED BY <2>2, <2>3, <3>1, <3>2, <3>3 DEF TakeOver
  <2>5. CASE graph[p].kind # "view"
    <3>1. Origin(p) = p /\ Region(a, p) = r
      BY <1>1, <2>5
    <3>2. graph[p].size <= graph[r].size
      <4>1. graph[p].kind = "op"
        <5>1. FirstNode \in Nat
          BY GraphFacts
        <5>2. p < FirstNode \/ p >= FirstNode
          BY <1>1, <5>1
        <5>3. ~(graph[p].kind \in {"input", "weight"})
          BY <1>2, <1>4 DEF PlaceOf
        <5> QED BY <2>5, <5>2, <5>3, GraphFacts
      <4> QED BY <1>2, <1>4, <2>1, <4>1 DEF PlaceOf
    <3>3. AEnd(a, r) \in Nat
      BY <2>2, <2>3, OwnFacts
    <3> QED BY <1>0, <2>2, <2>3, <3>1, <3>2, <3>3 DEF TakeOver
  <2> QED BY <2>4, <2>5
<1> QED BY <1>3, <1>4

\* The read by which t takes over p is its only one.
LEMMA OnlyRead ==
  ASSUME GraphInv, NEW a, NEW R, R \subseteq Reads, Counts(a, R),
         NEW p \in Tensors, a.n_children[p] = 1, NEW x \in R, Source(x) = p,
         NEW y \in R, Source(y) = p
  PROVE  y = x
<1>1. IsFiniteSet(ReadBy(R, p)) /\ x \in ReadBy(R, p) /\ y \in ReadBy(R, p)
  <2>1. ReadBy(R, p) \subseteq Reads /\ x \in ReadBy(R, p) /\ y \in ReadBy(R, p)
    BY DEF ReadBy
  <2> QED BY <2>1, ReadFacts, FS_Subset
<1>2. Cardinality(ReadBy(R, p)) = 1
  BY DEF Counts
<1>3. PICK z : ReadBy(R, p) = {z}
  BY <1>1, <1>2, FS_Singleton
<1> QED BY <1>1, <1>3

\* A tensor that is read is alive.
LEMMA ReadAlive ==
  ASSUME GraphInv, NEW a, NEW R, R \subseteq Reads, Counts(a, R), NEW x \in R
  PROVE  Alive(a, Source(x)) /\ a.n_children[Source(x)] > 0
<1> DEFINE p == Source(x)
<1>1. IsFiniteSet(ReadBy(R, p)) /\ x \in ReadBy(R, p)
  <2>1. ReadBy(R, p) \subseteq Reads /\ x \in ReadBy(R, p)
    BY DEF ReadBy
  <2> QED BY <2>1, ReadFacts, FS_Subset
<1>2. Cardinality(ReadBy(R, p)) \in Nat /\ Cardinality(ReadBy(R, p)) # 0
  BY <1>1, FS_CardinalityType, FS_EmptySet
<1>3. p \in Tensors
  BY ReadFacts
<1> QED BY <1>2, <1>3 DEF Counts, Alive

\* Without this read nobody needs the memory of p.
LEMMA TakeOverDead ==
  ASSUME GraphInv, NEW a, NEW n, NEW lo, NEW hi, NEW R, R \subseteq Reads, NEW W,
         Held(a, n, R, W, lo, hi),
         NEW t \in Tensors, NEW p \in Tensors, Reusable(a, t, p), NEW x \in R, Source(x) = p
  PROVE  Origin(p) \notin Need(R \ {x})
<1>0. Typed(a) /\ Places(a, n, lo, hi) /\ Counts(a, R) /\ Views(a)
  BY DEF Held
<1>1. /\ a.n_children[p] = 1 /\ a.n_views[p] = 0
      /\ a.view_src[p] # None => a.n_views[a.view_src[p]] = 1 /\ a.n_children[a.view_src[p]] = 0
  BY DEF Reusable
<1>a. PICK b : b = Dropped(a, p)
  OBVIOUS
<1>2. /\ Typed(b) /\ b.data = a.data /\ b.view_src = a.view_src /\ b.n_views = a.n_views
      /\ b.n_children[p] = a.n_children[p] - 1
      /\ \A v \in Tensors : v # p => b.n_children[v] = a.n_children[v]
  BY <1>0, <1>a, DroppedFields
<1>3. Counts(b, R \ {x})
  BY <1>0, <1>2, CountsDrop
<1>4. b.n_children[p] = 0
  BY <1>1, <1>2
<1>5. CASE graph[p].kind # "view"
  <2>1. Places(b, n, lo, hi)
    BY <1>0, <1>2, SamePlaces
  <2>2. \A v \in Tensors : b.n_children[v] <= a.n_children[v] /\ b.n_views[v] = a.n_views[v]
    <3> SUFFICES ASSUME NEW v \in Tensors PROVE b.n_children[v] <= a.n_children[v]
      BY <1>2
    <3>1. a.n_children[v] \in Int
      BY <1>0, TypedFacts
    <3>2. CASE v = p
      BY <1>1, <1>4, <3>2
    <3>3. CASE v # p
      BY <1>2, <3>1, <3>3
    <3> QED BY <3>2, <3>3
  <2>3. Views(b)
    BY <1>0, <1>2, <2>2, ViewsKeep
  <2>4. Origin(p) = p /\ b.n_views[p] = 0
    BY <1>1, <1>2, <1>5, GraphFacts
  <2> QED BY <1>2, <1>3, <1>4, <2>1, <2>3, <2>4, NotNeeded
<1>6. CASE graph[p].kind = "view"
  <2>r. PICK r : r = a.view_src[p]
    OBVIOUS
  <2>1. r = Origin(p) /\ r # None /\ r \in Tensors /\ r < p /\ p \in Nat
    BY <1>0, <1>6, <2>r, ViewSrcFacts, GraphFacts
  <2>u. PICK u : u = Unviewed(a, p)
    OBVIOUS
  <2>2. /\ Typed(u) /\ u.data = a.data /\ u.view_src = a.view_src
        /\ u.n_children = b.n_children /\ u.n_views[r] = a.n_views[r] - 1
        /\ \A v \in Tensors : v # r => u.n_views[v] = a.n_views[v]
    BY <1>0, <1>a, <2>1, <2>r, <2>u, UnviewedFields
  <2>3. p # r /\ r \in Nat
    <3>1. r \in Nat
      BY <2>1, GraphFacts
    <3> QED BY <2>1, <3>1
  <2>4. u.n_children[p] = 0 /\ u.n_views[p] = 0 /\ u.n_children[r] = 0 /\ u.n_views[r] = 0
    BY <1>1, <1>2, <1>4, <2>1, <2>2, <2>3, <2>r
  <2>5. \A v \in Tensors : u.n_children[v] <= a.n_children[v]
    <3> SUFFICES ASSUME NEW v \in Tensors PROVE b.n_children[v] <= a.n_children[v]
      BY <2>2
    <3>1. a.n_children[v] \in Int
      BY <1>0, TypedFacts
    <3>2. CASE v = p
      BY <1>1, <1>4, <3>2
    <3>3. CASE v # p
      BY <1>2, <3>1, <3>3
    <3> QED BY <3>2, <3>3
  <2>6. Views(u)
    <3>1. a.n_children[p] > 0
      BY <1>1
    <3> QED BY <1>0, <2>1, <2>2, <2>4, <2>5, <2>r, <3>1, ViewsLess
  <2>7. Counts(u, R \ {x})
    BY <1>3, <2>2 DEF Counts
  <2>8. Places(u, n, lo, hi)
    BY <1>0, <2>2, SamePlaces
  <2> QED BY <2>1, <2>2, <2>4, <2>6, <2>7, <2>8, NotNeeded
<1> QED BY <1>5, <1>6

\* ... and no other source of t is held by the memory of p.
LEMMA TakeOverAlone ==
  ASSUME GraphInv, NEW a, NEW n, NEW lo, NEW hi, NEW R, R \subseteq Reads, NEW W,
         Held(a, n, R, W, lo, hi),
         NEW t \in Tensors, NEW p \in Tensors, Reusable(a, t, p), NEW x \in R, Source(x) = p,
         NEW y \in R, y # x
  PROVE  Source(y) # p /\ a.view_src[Source(y)] # Region(a, p)
<1>0. Typed(a) /\ Places(a, n, lo, hi) /\ Counts(a, R) /\ Views(a)
  BY DEF Held
<1>1. /\ a.n_children[p] = 1 /\ a.n_views[p] = 0
      /\ a.view_src[p] # None => a.n_views[a.view_src[p]] = 1
  BY DEF Reusable
<1>q. PICK q : q = Source(y)
  OBVIOUS
<1>r. PICK r : r = Region(a, p)
  OBVIOUS
<1>2. q # p
  BY <1>0, <1>1, <1>q, OnlyRead
<1>3. q \in Tensors /\ Alive(a, q) /\ Alive(a, p)
  BY <1>0, <1>q, ReadAlive, ReadFacts
<1>4. ASSUME a.view_src[q] = r PROVE FALSE
  <2>1. r \in Tensors
    <3>1. CASE a.view_src[p] = None
      BY <1>r, <3>1 DEF Region
    <3>2. CASE a.view_src[p] # None
      BY <1>0, <1>r, <3>2, ViewSrcFacts DEF Region
    <3> QED BY <3>1, <3>2
  <2>2. q \in ViewsOf(a, r) /\ ViewsOf(a, r) \subseteq Tensors
    BY <1>3, <1>4 DEF ViewsOf
  <2>3. IsFiniteSet(ViewsOf(a, r))
    BY <2>2, GraphFacts, FS_Subset
  <2>4. Cardinality(ViewsOf(a, r)) \in Nat /\ Cardinality(ViewsOf(a, r)) # 0
    BY <2>2, <2>3, FS_CardinalityType, FS_EmptySet
  <2>5. Cardinality(ViewsOf(a, r)) <= a.n_views[r] /\ a.n_views[r] \in Nat
    BY <1>0, <2>1 DEF Views
  <2>6. CASE a.view_src[p] = None
    <3>1. r = p
      BY <1>r, <2>6 DEF Region
    <3> QED BY <1>1, <2>4, <2>5, <3>1
  <2>7. CASE a.view_src[p] # None
    <3>1. r = a.view_src[p]
      BY <1>r, <2>7 DEF Region
    <3>2. a.n_views[r] = 1
      BY <1>1, <2>7, <3>1
    <3>3. Cardinality(ViewsOf(a, r)) = 1
      BY <2>4, <2>5, <3>2
    <3>4. PICK z : ViewsOf(a, r) = {z}
      BY <2>3, <3>3, FS_Singleton
    <3>5. p \in ViewsOf(a, r)
      BY <1>3, <3>1 DEF ViewsOf
    <3> QED BY <1>2, <2>2, <3>4, <3>5
  <2> QED BY <2>6, <2>7
<1> QED BY <1>2, <1>4, <1>q, <1>r

\* A state in which t has taken over the memory of r.
TakenOver(a, c, t, r) ==
    /\ Typed(c) /\ c.failed = a.failed /\ c.blocks = a.blocks /\ c.max_size = a.max_size
    /\ c.n_children = a.n_children
    /\ c.view_src[t] = r /\ c.n_views[r] = a.n_views[r] + 1
    /\ c.data[t] = a.data[r]
    /\ \A u \in Tensors : u # r => c.n_views[u] = a.n_views[u]
    /\ OnlyAt(a, c, t)

\* InPlace takes the memory of the root over.
LEMMA InPlaceForm ==
  ASSUME GraphInv, NEW a, Typed(a), NEW t \in Tensors, NEW p \in Tensors,
         NEW r, r = Region(a, p), r \in Tensors, IsOwn(a, r), r # t, graph[t].offs = 0
  PROVE  TakenOver(a, InPlace(a, t, p), t, r)
<1>c. PICK c : c = InPlace(a, t, p)
  OBVIOUS
<1>b. PICK b : b = [a EXCEPT !.view_src[t] = r, !.n_views[r] = @ + 1]
  OBVIOUS
<1>0. /\ Fields(a) /\ a.view_src \in [Tensors -> Nat] /\ a.n_views \in [Tensors -> Int]
      /\ a.data \in [Tensors -> Int] /\ a.data[r] \in Int /\ r \in Nat
  BY TypedFacts, GraphFacts DEF Typed
<1>1. /\ Fields(b) /\ b.failed = a.failed /\ b.blocks = a.blocks /\ b.max_size = a.max_size
      /\ b.n_children = a.n_children /\ b.data = a.data
      /\ b.view_src = [a.view_src EXCEPT ![t] = r]
      /\ b.n_views = [a.n_views EXCEPT ![r] = @ + 1]
  BY <1>0, <1>b DEF Fields
<1>2. \A f \in [Tensors -> Int] :
        /\ [f EXCEPT ![r] = @ + 1] \in [Tensors -> Int] /\ [f EXCEPT ![r] = @ + 1][r] = f[r] + 1
        /\ \A v \in Tensors : v # r => [f EXCEPT ![r] = @ + 1][v] = f[v]
  OBVIOUS
<1>3. /\ b.n_views \in [Tensors -> Int] /\ b.n_views[r] = a.n_views[r] + 1
      /\ \A u \in Tensors : u # r => b.n_views[u] = a.n_views[u]
  <2>1. PICK f \in [Tensors -> Int] : f = a.n_views
    BY <1>0
  <2> QED BY <1>1, <1>2, <2>1
<1>4. /\ b.view_src \in [Tensors -> Nat] /\ b.view_src[t] = r
      /\ \A u \in Tensors : u # t => b.view_src[u] = a.view_src[u]
  <2>1. PICK f \in [Tensors -> Nat] : f = a.view_src
    BY <1>0
  <2> QED BY <1>0, <1>1, <2>1, EntryChange
<1>5. Typed(b)
  <2>1. /\ b.failed \in BOOLEAN /\ b.blocks \in Seq(Block) /\ b.max_size \in Nat
        /\ b.data \in [Tensors -> Int] /\ b.n_children \in [Tensors -> Int]
    BY <1>1 DEF Typed
  <2> QED BY <1>1, <1>3, <1>4, <2>1, Zenon DEF Typed
<1>6. c = InitView(b, t)
  BY <1>b, <1>c DEF InPlace, Region
<1>7. IsOwn(b, r)
  BY <1>1 DEF IsOwn
<1>8. c = [b EXCEPT !.data[t] = b.data[r] + 0]
  BY <1>4, <1>6, <1>7 DEF InitView
<1>9. PICK v \in Int : v = a.data[r] /\ v = b.data[r] + 0
  BY <1>0, <1>1
<1>10. Moved(b, c, t, v)
  BY <1>5, <1>8, <1>9, MovedForm
<1>11. OnlyAt(a, c, t)
  BY <1>1, <1>4, <1>10 DEF OnlyAt, Moved
<1>12. /\ Typed(c) /\ c.failed = b.failed /\ c.blocks = b.blocks /\ c.max_size = b.max_size
       /\ c.view_src = b.view_src /\ c.n_children = b.n_children /\ c.n_views = b.n_views
       /\ c.data[t] = v
  BY <1>10 DEF Moved
<1>13. TakenOver(a, c, t, r)
  BY <1>1, <1>3, <1>4, <1>9, <1>11, <1>12 DEF TakenOver
<1> QED BY <1>c, <1>13

\* The view of t on r is counted.
LEMMA ViewsMore ==
  ASSUME GraphInv, NEW a, Typed(a), NEW c, NEW t \in Tensors, NEW r \in Tensors,
         TakenOver(a, c, t, r), Views(a), Alive(a, r), a.view_src[t] = None
  PROVE  Views(c)
<1>0. /\ c.n_children = a.n_children /\ c.n_views[r] = a.n_views[r] + 1 /\ Typed(c)
      /\ c.view_src[t] = r
      /\ \A u \in Tensors : u # r => c.n_views[u] = a.n_views[u]
      /\ \A u \in Tensors : u # t => c.view_src[u] = a.view_src[u]
  BY DEF TakenOver, OnlyAt
<1> SUFFICES ASSUME NEW s \in Tensors
             PROVE  c.n_views[s] \in Nat /\ Cardinality(ViewsOf(c, s)) <= c.n_views[s]
  BY DEF Views
<1>1. a.n_views[s] \in Nat /\ Cardinality(ViewsOf(a, s)) <= a.n_views[s] /\ a.n_views[r] \in Nat
  BY DEF Views
<1>2. \A v \in Tensors : Alive(c, v) => Alive(a, v)
  <2> SUFFICES ASSUME NEW v \in Tensors, Alive(c, v) PROVE Alive(a, v)
    OBVIOUS
  <2>1. CASE v = r
    BY <2>1
  <2>2. CASE v # r
    BY <1>0, <2>2 DEF Alive
  <2> QED BY <2>1, <2>2
<1>3. ViewsOf(a, s) \subseteq Tensors /\ IsFiniteSet(ViewsOf(a, s))
  <2>1. ViewsOf(a, s) \subseteq Tensors
    BY DEF ViewsOf
  <2> QED BY <2>1, GraphFacts, FS_Subset
<1>4. t \notin ViewsOf(a, s)
  <2>1. s # 0
    BY GraphFacts
  <2> QED BY <2>1 DEF ViewsOf, None
<1>5. IsFiniteSet(ViewsOf(a, s) \cup {t})
      /\ Cardinality(ViewsOf(a, s) \cup {t}) = Cardinality(ViewsOf(a, s)) + 1
      /\ Cardinality(ViewsOf(a, s)) \in Nat
  BY <1>3, <1>4, FS_AddElement, FS_CardinalityType
<1>6. CASE s = r
  <2>1. ViewsOf(c, s) \subseteq ViewsOf(a, s) \cup {t}
    BY <1>0, <1>2 DEF ViewsOf
  <2>2. Cardinality(ViewsOf(c, s)) <= Cardinality(ViewsOf(a, s)) + 1
        /\ Cardinality(ViewsOf(c, s)) \in Nat
    BY <1>5, <2>1, FS_Subset, FS_CardinalityType
  <2> QED BY <1>0, <1>1, <1>5, <1>6, <2>2
<1>7. CASE s # r
  <2>1. ViewsOf(c, s) \subseteq ViewsOf(a, s)
    BY <1>0, <1>2, <1>7 DEF ViewsOf
  <2>2. Cardinality(ViewsOf(c, s)) <= Cardinality(ViewsOf(a, s))
        /\ Cardinality(ViewsOf(c, s)) \in Nat
    BY <1>3, <2>1, FS_Subset, FS_CardinalityType
  <2>3. c.n_views[s] = a.n_views[s]
    BY <1>0, <1>7
  <2> QED BY <1>1, <1>5, <2>2, <2>3
<1> QED BY <1>6, <1>7

\* The place t has taken over is a place of t.
LEMMA TakeOverPlaces ==
  ASSUME GraphInv, NEW a, Typed(a), NEW c, NEW t \in Tensors, NEW p \in Tensors,
         NEW r \in Tensors, NEW lo \in Nat, NEW hi \in Nat,
         Places(a, t, lo, hi), graph[t].kind = "op", TakeOver(a, t, p, r), TakenOver(a, c, t, r)
  PROVE  Places(c, t + 1, lo, hi) /\ IsOwn(c, t) /\ IsOwn(c, r) /\ c.data[r] = a.data[r]
<1>0. /\ r < t /\ graph[r].kind # "view" /\ IsOwn(a, r) /\ graph[t].size <= graph[r].size
  BY DEF TakeOver
<1>1. /\ Typed(c) /\ c.view_src[t] = r /\ c.data[t] = a.data[r] /\ OnlyAt(a, c, t)
  BY DEF TakenOver
<1>2. /\ t \in Nat /\ r \in Nat /\ r >= 1 /\ r # t
  BY <1>0, GraphFacts
<1>3. /\ a.data[r] \in Nat /\ AEnd(a, r) \in Nat /\ AEnd(a, r) = a.data[r] + AllocSize(r)
      /\ AllocSize(t) \in Nat /\ AllocSize(r) \in Nat /\ AllocSize(t) <= AllocSize(r)
  BY <1>0, OwnFacts, AllocSizeMonotone, GraphFacts DEF AEnd
<1>4. lo <= a.data[r] /\ AEnd(a, r) <= hi
  BY <1>0 DEF Places, PlaceOf
<1>5. ~IsOwn(a, t) /\ (a.data[t] # External)
  BY <1>2 DEF Places, PlaceOf
<1>6. c.data[r] = a.data[r] /\ IsOwn(c, t) /\ IsOwn(c, r)
  BY <1>1, <1>2, <1>3 DEF OnlyAt, IsOwn
<1>7. PlaceOf(c, t, t + 1, lo, hi)
  <2>1. c.data[t] >= External /\ c.data[t] # NULL /\ c.data[t] # External
    BY <1>1, <1>3 DEF External, NULL
  <2>2. lo <= c.data[t] /\ AEnd(c, t) <= hi
    BY <1>1, <1>3, <1>4 DEF AEnd
  <2>3. ~(t >= t + 1) /\ r \in 1..(t - 1)
    BY <1>0, <1>2
  <2> QED BY <1>0, <1>1, <1>6, <2>1, <2>2, <2>3 DEF PlaceOf
<1>8. c.data[t] = External <=> a.data[t] = External
  BY <1>1, <1>3, <1>5 DEF External
<1>9. Places(c, t + 1, lo, hi)
  BY <1>1, <1>5, <1>7, <1>8, PlacesChange
<1> QED BY <1>6, <1>9

\* Part of what is kept is kept.
LEMMA KeptSubset ==
  ASSUME NEW c, NEW W, Kept(c, W), NEW V, V \subseteq W
  PROVE  Kept(c, V)
BY Zenon DEF Kept

\* t keeps the memory that the root of p kept.
LEMMA TakeOverKept ==
  ASSUME GraphInv, NEW a, Typed(a), NEW c, NEW t \in Tensors, NEW p \in Tensors,
         NEW r \in Tensors, NEW lo \in Nat, NEW hi \in Nat,
         Places(a, t, lo, hi), graph[t].kind = "op", TakeOver(a, t, p, r), TakenOver(a, c, t, r),
         NEW W, Kept(a, W), NEW o, o = Origin(p), o \in W
  PROVE  Kept(c, (W \ {o}) \cup {t})
<1>0. /\ r < t /\ IsOwn(a, r) /\ a.data[r] = a.data[p] /\ IsOwn(a, o) /\ a.data[o] = a.data[p]
      /\ AEnd(a, r) <= AEnd(a, Region(a, o))
  BY DEF TakeOver
<1>1. /\ Typed(c) /\ c.view_src[t] = r /\ c.data[t] = a.data[r] /\ OnlyAt(a, c, t)
      /\ c.blocks = a.blocks
  BY DEF TakenOver
<1>2. /\ IsOwn(c, t) /\ IsOwn(c, r) /\ c.data[r] = a.data[r] /\ ~IsOwn(a, t) /\ r # None
  <2>1. ~IsOwn(a, t)
    <3>1. t \in Nat
      BY GraphFacts
    <3> QED BY <3>1 DEF Places, PlaceOf
  <2>2. r # None
    BY GraphFacts DEF None
  <2>3. IsOwn(c, t) /\ IsOwn(c, r) /\ c.data[r] = a.data[r]
    <3>1. r # t
      BY <1>0, GraphFacts
    <3>2. c.data[r] = a.data[r]
      BY <1>1, <3>1 DEF OnlyAt
    <3> QED BY <1>0, <1>1, <3>2 DEF IsOwn
  <2> QED BY <2>1, <2>2, <2>3
<1>3. /\ Kept(c, W) /\ t \notin W
      /\ \A q \in W : /\ Region(c, q) = Region(a, q) /\ AEnd(c, Region(c, q)) = AEnd(a, Region(a, q))
                      /\ c.data[q] = a.data[q]
  BY <1>1, <1>2, KeptChange
<1>4. Region(c, t) = r
  BY <1>1, <1>2 DEF Region
<1>5. AEnd(c, r) = AEnd(a, r) /\ AEnd(a, r) \in Nat /\ a.data[r] \in Nat /\ a.data[r] < AEnd(a, r)
  BY <1>0, <1>2, OwnFacts DEF AEnd
<1>6. o \in Tensors /\ graph[o].kind # "view" /\ IsOwn(a, Region(a, o))
  BY DEF Kept
<1>7. AEnd(a, Region(a, o)) \in Nat
  BY <1>0, <1>6, RegionFacts, OwnFacts
<1>8. Clear(c.blocks, c.data[t], AEnd(c, Region(c, t)))
  <2>1. Clear(a.blocks, a.data[o], AEnd(a, Region(a, o)))
    BY DEF Kept
  <2>2. a.blocks \in Seq(Block)
    BY TypedFacts
  <2>3. Clear(a.blocks, a.data[r], AEnd(a, r))
    BY <1>0, <1>5, <1>7, <2>1, <2>2, ClearPart
  <2> QED BY <1>1, <1>4, <1>5, <2>3
<1>9. ASSUME NEW q \in W \ {o}
      PROVE  \/ AEnd(c, Region(c, q)) <= c.data[t]
             \/ AEnd(c, Region(c, t)) <= c.data[q]
  <2>1. AEnd(a, Region(a, o)) <= a.data[q] \/ AEnd(a, Region(a, q)) <= a.data[o]
    BY DEF Kept
  <2>2. a.data[q] \in Int
    BY TypedFacts DEF Kept
  <2>3. CASE AEnd(a, Region(a, o)) <= a.data[q]
    <3>1. AEnd(a, r) <= a.data[q]
      BY <1>0, <1>5, <1>7, <2>2, <2>3
    <3> QED BY <1>3, <1>4, <1>5, <3>1
  <2>4. CASE AEnd(a, Region(a, q)) <= a.data[o]
    BY <1>0, <1>1, <1>3, <2>4
  <2> QED BY <2>1, <2>3, <2>4
<1>10. Kept(c, W \ {o})
  BY <1>3, KeptSubset
<1> QED BY <1>2, <1>4, <1>8, <1>9, <1>10, KeptAdd

\* A node writes over one of its sources.
LEMMA InPlacePlaced ==
  ASSUME GraphInv, NEW a, NEW t \in Tensors, NEW R, R = ReadsFrom(t), NEW W, W \subseteq Tensors,
         NEW lo \in Nat, NEW hi \in Nat, Held(a, t, R, W, lo, hi), Covers(a, R, W),
         graph[t].kind = "op", a.view_src[t] = None, graph[t].inplace,
         NEW j \in DOMAIN graph[t].src, NEW p, p = graph[t].src[j], Reusable(a, t, p)
  PROVE  NodePlaced(a, InPlace(a, t, p), t, R, (W \ {Origin(p)}) \cup {t}, lo, hi)
<1>c. PICK c : c = InPlace(a, t, p)
  OBVIOUS
<1>r. PICK r : r = Region(a, p)
  OBVIOUS
<1>o. PICK o : o = Origin(p)
  OBVIOUS
<1>v. PICK V : V = (W \ {o}) \cup {t}
  OBVIOUS
<1>x. PICK x : x = <<t, j>>
  OBVIOUS
<1>s. PICK S : S = R \ {x}
  OBVIOUS
<1>0. /\ Typed(a) /\ a.failed = FALSE /\ Ordered(a.blocks, lo, hi) /\ Places(a, t, lo, hi)
      /\ Counts(a, R) /\ Views(a) /\ Kept(a, W)
  BY DEF Held
<1>1. p \in Tensors /\ p < t /\ graph[t].offs = 0
  BY SourceFacts, GraphFacts
<1>2. x \in R /\ Source(x) = p /\ R \subseteq Reads /\ S \subseteq Reads
  BY <1>s, <1>x, ReadsSplit, ReadFacts
<1>3. TakeOver(a, t, p, r)
  BY <1>0, <1>1, <1>r, TakeOverPlace
<1>4. /\ r \in Tensors /\ r < t /\ IsOwn(a, r) /\ IsOwn(a, o) /\ a.data[r] = a.data[p]
      /\ r # t
  <2>1. r \in Tensors /\ r < t /\ IsOwn(a, r) /\ IsOwn(a, o) /\ a.data[r] = a.data[p]
    BY <1>3, <1>o DEF TakeOver
  <2>2. r \in Nat /\ t \in Nat
    BY <2>1, GraphFacts
  <2> QED BY <2>1, <2>2
<1>5. TakenOver(a, c, t, r)
  BY <1>0, <1>1, <1>4, <1>c, <1>r, InPlaceForm
<1>6. /\ Typed(c) /\ c.failed = a.failed /\ c.blocks = a.blocks
      /\ c.n_children = a.n_children /\ c.view_src[t] = r /\ c.n_views[r] = a.n_views[r] + 1
      /\ c.data[t] = a.data[r] /\ OnlyAt(a, c, t)
  BY <1>5 DEF TakenOver
<1>7. /\ IsOwn(a, p) /\ a.n_children[p] = 1 /\ a.n_views[p] = 0 /\ graph[p].size = graph[t].size
      /\ a.view_src[p] # None => a.n_views[a.view_src[p]] = 1
  BY DEF Reusable
<1>8. Places(c, t + 1, lo, hi) /\ IsOwn(c, t)
  BY <1>0, <1>1, <1>3, <1>4, <1>5, TakeOverPlaces
<1>9. Counts(c, R)
  BY <1>0, <1>6 DEF Counts
<1>10. Alive(a, r)
  <2>1. CASE a.view_src[p] = None
    BY <1>7, <1>r, <2>1 DEF Region, Alive
  <2>2. CASE a.view_src[p] # None
    BY <1>7, <1>r, <2>2 DEF Region, Alive
  <2> QED BY <2>1, <2>2
<1>11. Views(c)
  BY <1>0, <1>4, <1>5, <1>10, ViewsMore
<1>12. o \in Need(R) /\ o \in W
  <2>1. o \in Need(R)
    BY <1>2, <1>o DEF Need
  <2> QED BY <1>4, <2>1 DEF Covers
<1>13. Kept(c, V)
  BY <1>0, <1>1, <1>3, <1>4, <1>5, <1>12, <1>o, <1>v, TakeOverKept
<1>14. Held(c, t + 1, R, V, lo, hi)
  <2>1. Ordered(c.blocks, lo, hi) /\ c.failed = FALSE
    BY <1>0, <1>6
  <2> QED BY <1>6, <1>8, <1>9, <1>11, <1>13, <2>1, Zenon DEF Held
<1>15. o \notin Need(S)
  BY <1>1, <1>2, <1>o, <1>s, TakeOverDead
<1>16. Covers(c, S, V)
  <2> SUFFICES ASSUME NEW q \in Need(S), IsOwn(c, q), q # t PROVE q \in V
    BY <1>v DEF Covers
  <2>1. q \in Tensors /\ q \in Need(R)
    BY <1>2, <1>s, NeedFacts DEF Need
  <2>2. IsOwn(a, q)
    BY <1>6, <2>1 DEF IsOwn, OnlyAt
  <2>3. q \in W
    BY <2>1, <2>2 DEF Covers
  <2> QED BY <1>15, <1>v, <2>3
<1>17. \A i \in DOMAIN graph[t].src : i # j =>
          <<t, i>> \in S /\ <<t, i>> \in R /\ <<t, i>> # x
  BY <1>s, <1>x, ReadsSplit
<1>18. p # t /\ c.data[t] = c.data[p]
  <2>1. p \in Nat /\ t \in Nat
    BY <1>1, GraphFacts
  <2> QED BY <1>1, <1>4, <1>6, <2>1 DEF OnlyAt
<1>19. NodeApart(c, t)
  <2>1. ReadsFrom(t + 1) \subseteq S
    BY <1>s, <1>x, ReadsSplit
  <2>2. V \subseteq Tensors /\ t \in V
    BY <1>v
  <2>3. \A i \in DOMAIN graph[t].src :
            \/ <<t, i>> \in S
            \/ /\ graph[t].inplace /\ graph[t].size = graph[graph[t].src[i]].size
               /\ c.data[t] = c.data[graph[t].src[i]]
    BY <1>7, <1>17, <1>18
  <2> QED BY <1>2, <1>14, <1>16, <2>1, <2>2, <2>3, ApartBy
<1>20. c.view_src[p] = a.view_src[p]
  BY <1>1, <1>6, <1>18 DEF OnlyAt
<1>21. Guarded(c, p)
  <2>1. CASE a.view_src[p] = None
    <3>1. r = p
      BY <1>r, <2>1 DEF Region
    <3> QED BY <1>6, <1>7, <1>20, <2>1, <3>1 DEF Guarded
  <2>2. CASE a.view_src[p] # None
    <3>1. r = a.view_src[p]
      BY <1>r, <2>2 DEF Region
    <3> QED BY <1>6, <1>7, <1>20, <2>2, <3>1, SMTT(30) DEF Guarded
  <2> QED BY <2>1, <2>2
<1>22. Region(c, p) = r
  BY <1>r, <1>20 DEF Region
<1>23. ASSUME NEW i \in DOMAIN graph[t].src, i # j
       PROVE  graph[t].src[i] # p /\ c.view_src[graph[t].src[i]] # Region(c, p)
  <2>1. PICK y : y = <<t, i>>
    OBVIOUS
  <2>2. y \in R /\ y # x /\ Source(y) = graph[t].src[i]
    BY <1>17, <1>23, <2>1, ReadFacts
  <2>3. Source(y) # p /\ a.view_src[Source(y)] # r
    BY <1>1, <1>2, <1>r, <2>2, TakeOverAlone
  <2>4. graph[t].src[i] \in Tensors /\ graph[t].src[i] < t /\ t \in Nat
        /\ graph[t].src[i] \in Nat
    BY SourceFacts, GraphFacts
  <2>5. c.view_src[graph[t].src[i]] = a.view_src[graph[t].src[i]]
    BY <1>6, <2>4 DEF OnlyAt
  <2> QED BY <1>22, <2>2, <2>3, <2>5
<1>24. NodePlaced(a, c, t, R, V, lo, hi)
  <2>1. Covers(c, R \ {<<t, j>>}, V)
    BY <1>16, <1>s, <1>x
  <2>2. Ready(c, t, R, V)
    BY <1>21, <1>23, <2>1 DEF Ready
  <2> QED BY <1>6, <1>14, <1>19, <2>2 DEF NodePlaced
<1> QED BY <1>c, <1>o, <1>v, <1>24

\* The first of some sources is one of them.
LEMMA LeastSource ==
  ASSUME GraphInv, NEW t \in Tensors, NEW J, J \subseteq DOMAIN graph[t].src, J # {}
  PROVE  Min(J) \in J
<1>1. J \in SUBSET Nat
  BY SourceFacts
<1>2. \E n \in J : \A m \in J : n <= m
  BY <1>1, Least
<1> QED BY <1>2 DEF Min

\* A node that has no place yet.
LEMMA NodeWaits ==
  ASSUME GraphInv, NEW a, Typed(a), NEW t \in Tensors, t >= FirstNode, NEW lo, NEW hi,
         Places(a, t, lo, hi)
  PROVE  \/ graph[t].kind = "view"
         \/ graph[t].kind = "op" /\ a.view_src[t] = None /\ a.data[t] = NULL
<1>1. graph[t].kind = "op" \/ graph[t].kind = "view"
  BY GraphFacts
<1>2. PlaceOf(a, t, t, lo, hi) /\ t \in Nat /\ a.data[t] \in Int
  BY GraphFacts, TypedFacts DEF Places
<1>3. CASE graph[t].kind = "op"
  <2>1. ~IsOwn(a, t) /\ a.data[t] >= External /\ a.data[t] # External
    BY <1>2, <1>3 DEF PlaceOf
  <2>2. PICK v \in Int : v = a.data[t]
    BY <1>2
  <2>3. v >= -2 /\ v # -2 /\ ~(v >= 0)
    BY <2>1, <2>2 DEF IsOwn, External
  <2>4. v = -1
    BY <2>3
  <2>5. a.view_src[t] = None
    BY <1>2, <1>3, <2>1 DEF PlaceOf
  <2> QED BY <1>3, <2>2, <2>4, <2>5 DEF NULL
<1> QED BY <1>1, <1>3

\* The next node gets its place.
LEMMA AllocateNodePlaced ==
  ASSUME GraphInv, NEW a, NEW t \in Tensors, t >= FirstNode, NEW R, R = ReadsFrom(t),
         NEW W, W \subseteq Tensors, NEW lo \in Nat, NEW hi \in Nat,
         Held(a, t, R, W, lo, hi), Covers(a, R, W), AllocateNode(a, t).failed = FALSE
  PROVE  \E V \in SUBSET Tensors : NodePlaced(a, AllocateNode(a, t), t, R, V, lo, hi)
<1>0. Typed(a) /\ Places(a, t, lo, hi)
  BY DEF Held
<1>1. CASE graph[t].kind = "view"
  <2>1. R \subseteq Reads
    BY DEF ReadsFrom
  <2>2. NodePlaced(a, AllocateNode(a, t), t, R, W, lo, hi)
    BY <1>1, <2>1, ViewPlaced
  <2> QED BY <2>2
<1>2. CASE graph[t].kind = "op" /\ a.view_src[t] = None /\ a.data[t] = NULL
  <2> DEFINE J == {j \in DOMAIN graph[t].src : Reusable(a, t, graph[t].src[j])}
  <2>1. AllocateNode(a, t) = IF graph[t].inplace /\ J # {}
                             THEN InPlace(a, t, graph[t].src[Min(J)]) ELSE Alloc(a, t)
    BY <1>2 DEF AllocateNode
  <2>2. CASE graph[t].inplace /\ J # {}
    <3>1. Min(J) \in J
      BY <2>2, LeastSource
    <3>2. PICK j \in DOMAIN graph[t].src : j = Min(J) /\ Reusable(a, t, graph[t].src[j])
      BY <3>1
    <3>3. PICK p : p = graph[t].src[j]
      OBVIOUS
    <3>4. AllocateNode(a, t) = InPlace(a, t, p)
      BY <2>1, <2>2, <3>2, <3>3
    <3>5. NodePlaced(a, InPlace(a, t, p), t, R, (W \ {Origin(p)}) \cup {t}, lo, hi)
      BY <1>2, <2>2, <3>2, <3>3, InPlacePlaced
    <3>6. (W \ {Origin(p)}) \cup {t} \in SUBSET Tensors
      OBVIOUS
    <3> QED BY <3>4, <3>5, <3>6
  <2>3. CASE ~(graph[t].inplace /\ J # {})
    <3>1. AllocateNode(a, t) = Alloc(a, t)
      BY <2>1, <2>3
    <3>2. NodePlaced(a, Alloc(a, t), t, R, W \cup {t}, lo, hi)
      BY <1>2, <3>1, AllocPlaced
    <3>3. W \cup {t} \in SUBSET Tensors
      OBVIOUS
    <3> QED BY <3>1, <3>2, <3>3
  <2> QED BY <2>2, <2>3
<1> QED BY <1>0, <1>1, <1>2, NodeWaits

\* A failure stays.
LEMMA AllocSticky ==
  ASSUME NEW a, Fields(a), NEW t, NEW c, c = Alloc(a, t)
  PROVE  /\ Fields(c) /\ c.failed \in {a.failed, TRUE}
         /\ c.view_src = a.view_src /\ c.n_children = a.n_children /\ c.n_views = a.n_views
<1>1. PICK k : AllocEffect(a, t, AllocSize(t), k, c)
  BY AllocForm
<1> QED BY <1>1 DEF AllocEffect

\* A failure stays through the turn of a node.
LEMMA AllocateNodeSticky ==
  ASSUME NEW a, Fields(a), NEW t, NEW c, c = AllocateNode(a, t)
  PROVE  Fields(c) /\ c.failed \in {a.failed, TRUE}
<1>1. \A e, u : Fields(e) => Fields(InitView(e, u)) /\ InitView(e, u).failed = e.failed
  BY DEF InitView, Fields
<1>2. \A p : Fields(InPlace(a, t, p)) /\ InPlace(a, t, p).failed = a.failed
  <2> SUFFICES ASSUME NEW p
               PROVE  Fields(InPlace(a, t, p)) /\ InPlace(a, t, p).failed = a.failed
    OBVIOUS
  <2>1. PICK r : r = IF a.view_src[p] = None THEN p ELSE a.view_src[p]
    OBVIOUS
  <2>2. PICK b : b = [a EXCEPT !.view_src[t] = r, !.n_views[r] = @ + 1]
    OBVIOUS
  <2>3. Fields(b) /\ b.failed = a.failed
    BY <2>2 DEF Fields
  <2>4. InPlace(a, t, p) = InitView(b, t)
    BY <2>1, <2>2 DEF InPlace
  <2> QED BY <1>1, <2>3, <2>4
<1>3. Fields(Alloc(a, t)) /\ Alloc(a, t).failed \in {a.failed, TRUE}
  BY AllocSticky
<1>4. c = a \/ c = InitView(a, t) \/ c = Alloc(a, t) \/ \E p : c = InPlace(a, t, p)
  BY DEF AllocateNode
<1> QED BY <1>1, <1>2, <1>3, <1>4

-----------------------------------------------------------------------------
(* All sources of a node are released, one after the other.                *)

\* Releasing another source does not unguard p.
LEMMA GuardKept ==
  ASSUME GraphInv, NEW a, Typed(a), NEW n, NEW lo, NEW hi, Places(a, n, lo, hi),
         NEW p \in Tensors, NEW q \in Tensors, Guarded(a, p),
         a.view_src[q] # Region(a, p), NEW c, c = Release(a, q)
  PROVE  Guarded(c, p)
<1>a. PICK b : b = Dropped(a, q)
  OBVIOUS
<1>b. PICK u : u = Unviewed(a, q)
  OBVIOUS
<1>c. PICK r : r = a.view_src[q]
  OBVIOUS
<1>d. PICK v : v = Region(a, p)
  OBVIOUS
<1>0. v \in Tensors
  <2>1. CASE a.view_src[p] = None
    BY <1>d, <2>1 DEF Region
  <2>2. CASE a.view_src[p] # None
    BY <1>d, <2>2, ViewSrcFacts DEF Region
  <2> QED BY <2>1, <2>2
<1>1. /\ Typed(b) /\ b.view_src = a.view_src /\ b.n_views = a.n_views
  BY <1>a, DroppedFields
<1>2. r # None => /\ Typed(u) /\ u.view_src = a.view_src /\ u.n_views[v] = a.n_views[v]
  <2> SUFFICES ASSUME r # None
               PROVE  Typed(u) /\ u.view_src = a.view_src /\ u.n_views[v] = a.n_views[v]
    OBVIOUS
  <2>1. r \in Tensors /\ r # v
    BY <1>c, <1>d, ViewSrcFacts
  <2> QED BY <1>0, <1>b, <1>c, <2>1, UnviewedFields
<1>3. \/ c = b \/ c = FreeTensor(b, q)
      \/ r # None /\ c = FreeTensor(u, r)
      \/ r # None /\ c = u
  BY <1>a, <1>b, <1>c, ReleaseCases
<1>4. \A e, w : Typed(e) => /\ FreeTensor(e, w).view_src = e.view_src
                            /\ FreeTensor(e, w).n_views = e.n_views
  <2> SUFFICES ASSUME NEW e, Typed(e), NEW w, NEW f, f = FreeTensor(e, w)
               PROVE  f.view_src = e.view_src /\ f.n_views = e.n_views
    OBVIOUS
  <2>1. Fields(e)
    BY DEF Typed
  <2> QED BY <2>1, FreeSticky
<1>5. c.view_src = a.view_src /\ c.n_views[v] = a.n_views[v]
  BY <1>1, <1>2, <1>3, <1>4
<1> QED BY <1>5, <1>d DEF Guarded, Region

\* One read less, and what the reads S need is kept.
OneLess(a, c, n, R, S, e, lo, hi) ==
    /\ \E V \in SUBSET Tensors : Held(c, n, R \ {e}, V, lo, hi) /\ Covers(c, S \ {e}, V)
    /\ c.data = a.data /\ c.view_src = a.view_src
    /\ Releasable(a, Source(e), lo, hi)

\* One source is released: the counts follow, and what the other reads need is kept.
LEMMA ReleaseOne ==
  ASSUME GraphInv, NEW a, NEW n, NEW R, R \subseteq Reads, NEW W, W \subseteq Tensors,
         NEW lo \in Nat, NEW hi \in Nat, Held(a, n, R, W, lo, hi),
         NEW S, S \subseteq R, Covers(a, S, W), NEW e \in R, NEW p, p = Source(e),
         e \in S \/ Guarded(a, p), NEW c, c = Release(a, p), c.failed = FALSE
  PROVE  OneLess(a, c, n, R, S, e, lo, hi)
<1>1. c.data = a.data /\ c.view_src = a.view_src
  <2>1. Fields(a)
    BY DEF Held, Typed
  <2> QED BY <2>1, ReleaseSticky
<1>2. Origin(p) \in W \/ ~IsOwn(a, Origin(p)) \/ Guarded(a, p)
  <2>1. CASE e \in S
    <3>1. Origin(p) \in Need(S)
      BY <2>1 DEF Need
    <3> QED BY <3>1 DEF Covers
  <2> QED BY <2>1
<1>3. StillHeld(c, n, R \ {e}, W, lo, hi)
  BY <1>2, ReleaseHeld
<1>7. Releasable(a, p, lo, hi)
  BY <1>2, ReleaseFits
<1>4. PICK V \in SUBSET W : Held(c, n, R \ {e}, V, lo, hi) /\ \A o \in W : o \notin V => o \notin Need(R \ {e})
  BY <1>3 DEF StillHeld
<1>5. Covers(c, S \ {e}, V)
  <2> SUFFICES ASSUME NEW o \in Need(S \ {e}), IsOwn(c, o) PROVE o \in V
    BY DEF Covers
  <2>1. o \in Need(S) /\ o \in Need(R \ {e})
    BY DEF Need
  <2>2. IsOwn(a, o)
    BY <1>1 DEF IsOwn
  <2>3. o \in W
    BY <2>1, <2>2 DEF Covers
  <2> QED BY <1>4, <2>1, <2>3
<1>6. V \in SUBSET Tensors
  OBVIOUS
<1> QED BY <1>1, <1>4, <1>5, <1>6, <1>7 DEF OneLess

\* After the update of the sources of t.
RoundDone(b, c, h, t, lo, hi) ==
    /\ \E V \in SUBSET Tensors : /\ Held(c, t + 1, ReadsFrom(t + 1), V, lo, hi)
                                 /\ Covers(c, ReadsFrom(t + 1), V)
    /\ c.data = b.data /\ c.view_src = b.view_src
    /\ \A i \in 1..Len(graph[t].src) : Releasable(h[i - 1], graph[t].src[i], lo, hi)

\* The sources are released one after the other.
LEMMA ReleaseSources ==
  ASSUME GraphInv, NEW b, NEW t \in Tensors, NEW R, R = ReadsFrom(t), NEW V, V \subseteq Tensors,
         NEW lo \in Nat, NEW hi \in Nat, Held(b, t + 1, R, V, lo, hi),
         NEW src, src = graph[t].src,
         Ready(b, t, R, V),
         NEW h, Passes(h, 1, b, src), NEW c, c = h[Len(src)], c.failed = FALSE
  PROVE  RoundDone(b, c, h, t, lo, hi)
<1>0. /\ R \subseteq Reads /\ ReadsFrom(t + 1) = {r \in R : r[1] # t}
      /\ \A r \in R : r[1] = t <=> \E j \in DOMAIN src : r = <<t, j>>
      /\ \A j \in DOMAIN src : <<t, j>> \in R /\ Source(<<t, j>>) = src[j] /\ src[j] \in Tensors
  BY ReadsSplit, ReadFacts, SourceFacts
<1>1. Len(src) \in {0, 1, 2} /\ DOMAIN src = 1..Len(src)
  BY SourceFacts
<1>2. PICK S : /\ S \subseteq R /\ Covers(b, S, V)
               /\ \/ S = R
                  \/ \E j \in DOMAIN src :
                       /\ S = R \ {<<t, j>>}
                       /\ Guarded(b, src[j])
                       /\ \A i \in DOMAIN src : i # j => b.view_src[src[i]] # Region(b, src[j])
  <2>0. \/ Covers(b, R, V)
        \/ \E j \in DOMAIN src :
              /\ Covers(b, R \ {<<t, j>>}, V)
              /\ Guarded(b, src[j])
              /\ \A i \in DOMAIN src : i # j => b.view_src[src[i]] # Region(b, src[j])
    BY DEF Ready
  <2>1. CASE Covers(b, R, V)
    BY <2>1
  <2>2. ASSUME NEW j \in DOMAIN src, Covers(b, R \ {<<t, j>>}, V), Guarded(b, src[j]),
               \A i \in DOMAIN src : i # j => b.view_src[src[i]] # Region(b, src[j])
        PROVE  \E S : /\ S \subseteq R /\ Covers(b, S, V)
                      /\ \E k \in DOMAIN src :
                       /\ S = R \ {<<t, k>>}
                       /\ Guarded(b, src[k])
                       /\ \A i \in DOMAIN src : i # k => b.view_src[src[i]] # Region(b, src[k])
    <3>1. R \ {<<t, j>>} \subseteq R
      OBVIOUS
    <3> QED BY <2>2, <3>1
  <2> QED BY <2>0, <2>1, <2>2
<1>3. \A i \in DOMAIN src : <<t, i>> \in S \/ Guarded(b, src[i])
  BY <1>0, <1>2
<1>4. /\ h[0] = b
      /\ \A i \in 1..Len(src) : h[i] = Release(h[i - 1], src[i])
  BY DEF Passes, Step
<1>5. CASE Len(src) = 0
  <2>1. DOMAIN src = {} /\ c = b
    BY <1>1, <1>4, <1>5
  <2>2. S = R /\ ReadsFrom(t + 1) = R
    BY <1>0, <1>2, <2>1
  <2>3. \A i \in 1..Len(src) : Releasable(h[i - 1], src[i], lo, hi)
    BY <1>5
  <2> QED BY <1>2, <2>1, <2>2, <2>3 DEF RoundDone
<1>6. CASE Len(src) = 1
  <2>a. PICK p : p = src[1]
    OBVIOUS
  <2>1. DOMAIN src = {1} /\ c = h[1] /\ c = Release(b, p)
    <3>1. 1..1 = {1} /\ 1 - 1 = 0
      OBVIOUS
    <3> QED BY <1>1, <1>4, <1>6, <2>a, <3>1
  <2>2. PICK e : e = <<t, 1>>
    OBVIOUS
  <2>3. e \in R /\ Source(e) = p /\ (e \in S \/ Guarded(b, p))
    BY <1>0, <1>3, <2>1, <2>2, <2>a
  <2>4. OneLess(b, c, t + 1, R, S, e, lo, hi)
    BY <1>0, <1>2, <2>1, <2>3, ReleaseOne
  <2>5. ReadsFrom(t + 1) = R \ {e}
    BY <1>0, <2>1, <2>2
  <2>6. S \ {e} = R \ {e}
    BY <1>2, <2>1, <2>2
  <2>7. \A i \in 1..Len(src) : Releasable(h[i - 1], src[i], lo, hi)
    <3>1. Releasable(b, p, lo, hi)
      BY <2>3, <2>4 DEF OneLess
    <3>2. 1..Len(src) = {1} /\ 1 - 1 = 0
      BY <1>6
    <3> QED BY <1>4, <2>a, <3>1, <3>2
  <2> QED BY <2>4, <2>5, <2>6, <2>7 DEF RoundDone, OneLess
<1>7. CASE Len(src) = 2
  <2>0. DOMAIN src = {1, 2} /\ 1 \in 1..Len(src) /\ 2 \in 1..Len(src) /\ 1 - 1 = 0 /\ 2 - 1 = 1
    BY <1>1, <1>7
  <2>a. PICK d : d = h[1]
    OBVIOUS
  <2>b. PICK p : p = src[1]
    OBVIOUS
  <2>c. PICK q : q = src[2]
    OBVIOUS
  <2>1. d = Release(b, p) /\ c = Release(d, q)
    BY <1>4, <1>7, <2>0, <2>a, <2>b, <2>c
  <2>2. PICK e : e = <<t, 1>>
    OBVIOUS
  <2>3. PICK f : f = <<t, 2>>
    OBVIOUS
  <2>4. e \in R /\ Source(e) = p /\ (e \in S \/ Guarded(b, p)) /\ p \in Tensors
    BY <1>0, <1>3, <2>0, <2>2, <2>b
  <2>5. /\ f \in R /\ Source(f) = q /\ (f \in S \/ Guarded(b, q)) /\ f # e
        /\ q \in Tensors
    BY <1>0, <1>3, <2>0, <2>2, <2>3, <2>c
  <2>6. d.failed = FALSE
    <3>1. Fields(b)
      BY DEF Held, Typed
    <3>2. Fields(d)
      BY <2>1, <3>1, ReleaseSticky
    <3>3. c.failed \in {d.failed, TRUE}
      BY <2>1, <3>2, ReleaseSticky
    <3> QED BY <3>3
  <2>7. OneLess(b, d, t + 1, R, S, e, lo, hi)
    BY <1>0, <1>2, <2>1, <2>4, <2>6, ReleaseOne
  <2>8. PICK U \in SUBSET Tensors : Held(d, t + 1, R \ {e}, U, lo, hi) /\ Covers(d, S \ {e}, U)
    BY <2>7 DEF OneLess
  <2>9. f \in S \ {e} \/ Guarded(d, q)
    <3>1. CASE f \in S
      BY <2>5, <3>1
    <3>2. CASE f \notin S
      <4>1. Guarded(b, q) /\ b.view_src[p] # Region(b, q)
        <5>1. PICK j \in DOMAIN src :
                       /\ S = R \ {<<t, j>>}
                       /\ Guarded(b, src[j])
                       /\ \A i \in DOMAIN src : i # j => b.view_src[src[i]] # Region(b, src[j])
          BY <1>2, <2>5, <3>2
        <5>2. f = <<t, j>>
          BY <2>5, <3>2, <5>1
        <5>3. j = 2
          BY <2>3, <5>2
        <5> QED BY <2>0, <2>b, <2>c, <5>1, <5>3
      <4>2. Typed(b) /\ Places(b, t + 1, lo, hi)
        BY DEF Held
      <4> QED BY <2>1, <2>4, <2>5, <4>1, <4>2, GuardKept
    <3> QED BY <3>1, <3>2
  <2>10. f \in R \ {e} /\ R \ {e} \subseteq Reads /\ S \ {e} \subseteq R \ {e}
    BY <1>0, <1>2, <2>5
  <2>11. OneLess(d, c, t + 1, R \ {e}, S \ {e}, f, lo, hi)
    BY <2>1, <2>5, <2>8, <2>9, <2>10, ReleaseOne
  <2>12. ReadsFrom(t + 1) = (R \ {e}) \ {f}
    BY <1>0, <2>0, <2>2, <2>3
  <2>13. (S \ {e}) \ {f} = (R \ {e}) \ {f}
    BY <1>2, <2>0, <2>2, <2>3
  <2>14. \A i \in 1..Len(src) : Releasable(h[i - 1], src[i], lo, hi)
    <3>1. Releasable(b, p, lo, hi) /\ Releasable(d, q, lo, hi)
      BY <2>4, <2>5, <2>7, <2>11 DEF OneLess
    <3>2. 1..Len(src) = {1, 2}
      BY <1>7
    <3> QED BY <1>4, <2>0, <2>a, <2>b, <2>c, <3>1, <3>2
  <2> QED BY <2>7, <2>11, <2>12, <2>13, <2>14 DEF RoundDone, OneLess
<1> QED BY <1>1, <1>5, <1>6, <1>7

-----------------------------------------------------------------------------
(* One round of ggml_tallocr_alloc_graph_impl: the node, then its sources. *)

\* A failure stays through the folds over the sources.
LEMMA FoldSticky ==
  ASSUME NEW k \in {1, 2}, NEW a, Fields(a), NEW s, Len(s) \in Nat, NEW h, Passes(h, k, a, s)
  PROVE  Fields(h[Len(s)]) /\ h[Len(s)].failed \in {a.failed, TRUE}
<1> DEFINE Good == {i \in 0..Len(s) : Fields(h[i]) /\ h[i].failed \in {a.failed, TRUE}}
<1>1. 0 \in Good
  <2>1. 0 \in 0..Len(s)
    OBVIOUS
  <2> QED BY <2>1 DEF Passes
<1>2. ASSUME NEW i \in 0..(Len(s) - 1), i \in Good PROVE i + 1 \in Good
  <2>1. PICK e : e = h[i]
    OBVIOUS
  <2>2. PICK c : c = h[i + 1]
    OBVIOUS
  <2>3. i + 1 \in 1..Len(s) /\ i + 1 \in 0..Len(s) /\ (i + 1) - 1 = i
    OBVIOUS
  <2>4. PICK x : x = s[i + 1]
    OBVIOUS
  <2>5. c = Release(e, x) \/ c = AllocateNode(e, x)
    BY <2>1, <2>2, <2>3, <2>4 DEF Passes, Step
  <2>6. Fields(e) /\ e.failed \in {a.failed, TRUE}
    BY <1>2, <2>1
  <2>7. Fields(c) /\ c.failed \in {e.failed, TRUE}
    <3>1. CASE c = Release(e, x)
      BY <2>6, <3>1, ReleaseSticky
    <3>2. CASE c = AllocateNode(e, x)
      BY <2>6, <3>2, AllocateNodeSticky
    <3> QED BY <2>5, <3>1, <3>2
  <2> QED BY <2>2, <2>3, <2>6, <2>7
<1>3. Len(s) \in Good
  <2> HIDE DEF Good
  <2>1. Len(s) \in 0..Len(s)
    OBVIOUS
  <2> QED BY <1>1, <1>2, <2>1, Induction
<1> QED BY <1>3

\* The sources of a tensor are a sequence.
LEMMA SourceLength ==
  ASSUME GraphInv, NEW t \in Tensors
  PROVE  Len(graph[t].src) \in Nat /\ DOMAIN graph[t].src = 1..Len(graph[t].src)
<1>1. Len(graph[t].src) \in {0, 1, 2} /\ DOMAIN graph[t].src = 1..Len(graph[t].src)
  BY SourceFacts
<1> QED BY <1>1

\* A failure stays through a round.
LEMMA PlaceNodeSticky ==
  ASSUME GraphInv, NEW a, Fields(a), NEW t \in Tensors, NEW c, c = PlaceNode(a, t)
  PROVE  Fields(c) /\ c.failed \in {a.failed, TRUE}
<1>s. PICK s : s = graph[t].src
  OBVIOUS
<1>1. Len(s) \in Nat /\ DOMAIN s = 1..Len(s)
  BY <1>s, SourceLength
<1>2. PICK d : d = FoldOf(2, a, s)
  OBVIOUS
<1>3. Fields(d) /\ d.failed \in {a.failed, TRUE}
  <2>1. PICK h : Passes(h, 2, a, s) /\ h[Len(s)] = d
    BY <1>1, <1>2, FoldPasses
  <2> QED BY <1>1, <2>1, FoldSticky
<1>4. PICK b : b = AllocateNode(d, t)
  OBVIOUS
<1>5. Fields(b) /\ b.failed \in {a.failed, TRUE}
  BY <1>3, <1>4, AllocateNodeSticky
<1>6. PICK e : e = FoldOf(1, b, s)
  OBVIOUS
<1>7. Fields(e) /\ e.failed \in {b.failed, TRUE}
  <2>1. PICK h : Passes(h, 1, b, s) /\ h[Len(s)] = e
    BY <1>1, <1>6, FoldPasses
  <2> QED BY <1>1, <1>5, <2>1, FoldSticky
<1>8. c = b \/ c = e
  BY <1>2, <1>4, <1>6, <1>s, FoldAllocateNode, FoldRelease DEF PlaceNode
<1> QED BY <1>5, <1>7, <1>8

\* The sources of the next node have their places already.
LEMMA SourcesPlaced ==
  ASSUME GraphInv, NEW a, NEW t \in Tensors, NEW lo, NEW hi, Places(a, t, lo, hi)
  PROVE  FoldLeft(AllocateNode, a, graph[t].src) = a
<1>s. PICK s : s = graph[t].src
  OBVIOUS
<1>1. Len(s) \in Nat /\ DOMAIN s = 1..Len(s)
  BY <1>s, SourceLength
<1>2. \A i \in 1..Len(s) : AllocateNode(a, s[i]) = a
  <2> SUFFICES ASSUME NEW i \in 1..Len(s) PROVE AllocateNode(a, s[i]) = a
    OBVIOUS
  <2>1. s[i] \in Tensors /\ s[i] < t
    BY <1>1, <1>s, SourceFacts
  <2>2. a.data[s[i]] # NULL
    BY <2>1 DEF Places, PlaceOf
  <2> QED BY <2>2 DEF AllocateNode
<1>3. PICK h : Passes(h, 2, a, s) /\ h[Len(s)] = FoldOf(2, a, s)
  BY <1>1, FoldPasses
<1> DEFINE Good == {i \in 0..Len(s) : h[i] = a}
<1>4. 0 \in Good
  BY <1>1, <1>3 DEF Passes
<1>5. ASSUME NEW i \in 0..(Len(s) - 1), i \in Good PROVE i + 1 \in Good
  <2>1. i + 1 \in 1..Len(s) /\ i + 1 \in 0..Len(s) /\ (i + 1) - 1 = i
    BY <1>1
  <2>2. h[i + 1] = AllocateNode(h[i], s[i + 1])
    BY <1>3, <2>1 DEF Passes, Step
  <2> QED BY <1>2, <1>5, <2>1, <2>2
<1>6. Len(s) \in Good
  <2> HIDE DEF Good
  <2>1. Len(s) \in 0..Len(s)
    BY <1>1
  <2> QED BY <1>1, <1>4, <1>5, <2>1, Induction
<1> QED BY <1>3, <1>6, <1>s, FoldAllocateNode

\* Who is apart stays apart when only a later tensor gets its place.
LEMMA ApartKept ==
  ASSUME GraphInv, NEW a, NEW c, NEW t \in Tensors, OnlyAt(a, c, t), Apart(a, t)
  PROVE  Apart(c, t)
<1> SUFFICES ASSUME NEW u \in FirstNode..(t - 1), graph[u].kind = "op" PROVE NodeApart(c, u)
  BY DEF Apart
<1>1. u \in Tensors /\ u < t /\ t \in Nat /\ u \in Nat
  BY GraphFacts
<1>2. NodeApart(a, u)
  BY DEF Apart
<1>3. c.data[u] = a.data[u]
  BY <1>1 DEF OnlyAt
<1>4. \A v \in Tensors : v < u => c.data[v] = a.data[v]
  <2> SUFFICES ASSUME NEW v \in Tensors, v < u PROVE v # t
    BY DEF OnlyAt
  <2>1. v \in Nat
    BY GraphFacts
  <2> QED BY <1>1, <2>1
<1>5. ASSUME NEW o \in Need(ReadsFrom(u + 1)), o < u, IsOwn(c, o) PROVE Away(c, u, o)
  <2>1. o \in Tensors
    <3>1. ReadsFrom(u + 1) \subseteq Reads
      BY DEF ReadsFrom
    <3> QED BY <3>1, NeedFacts
  <2>2. c.data[o] = a.data[o]
    BY <1>4, <1>5, <2>1
  <2>3. Away(a, u, o)
    BY <1>2, <1>5, <2>2 DEF NodeApart, IsOwn
  <2> QED BY <1>3, <2>2, <2>3 DEF Away
<1>6. ASSUME NEW j \in DOMAIN graph[u].src, NEW p, p = graph[u].src[j], IsOwn(c, p)
      PROVE  \/ Away(c, u, p)
             \/ graph[u].inplace /\ c.data[u] = c.data[p] /\ graph[u].size = graph[p].size
  <2>1. p \in Tensors /\ p < u
    BY <1>1, <1>6, SourceFacts
  <2>2. c.data[p] = a.data[p]
    BY <1>4, <2>1
  <2>3. \/ Away(a, u, p)
        \/ graph[u].inplace /\ a.data[u] = a.data[p] /\ graph[u].size = graph[p].size
    BY <1>2, <1>6, <2>2 DEF NodeApart, IsOwn
  <2> QED BY <1>3, <2>2, <2>3 DEF Away
<1>7. IsOwn(c, u)
  BY <1>2, <1>3 DEF NodeApart, IsOwn
<1> QED BY <1>5, <1>6, <1>7 DEF NodeApart

\* One round of the graph allocator.
Round(a, c, t, lo, hi) ==
    /\ RoundInv(c, t + 1, lo, hi) /\ OnlyAt(a, c, t)
    /\ Apart(a, t) => Apart(c, t + 1)
    /\ AllocateNode(a, t).failed = FALSE
    /\ \E W \in SUBSET Tensors : Held(AllocateNode(a, t), t + 1, ReadsFrom(t), W, lo, hi)
    /\ \E h : /\ Passes(h, 1, AllocateNode(a, t), graph[t].src) /\ c = h[Len(graph[t].src)]
             /\ \A i \in 1..Len(graph[t].src) : Releasable(h[i - 1], graph[t].src[i], lo, hi)

\* A round that does not fail keeps the invariant, and the node it placed is apart.
LEMMA PlaceNodeRound ==
  ASSUME GraphInv, NEW a, NEW t \in Tensors, t >= FirstNode, NEW lo \in Nat, NEW hi \in Nat,
         RoundInv(a, t, lo, hi), NEW c, c = PlaceNode(a, t), c.failed = FALSE
  PROVE  Round(a, c, t, lo, hi)
<1>r. PICK R : R = ReadsFrom(t)
  OBVIOUS
<1>s. PICK s : s = graph[t].src
  OBVIOUS
<1>1. PICK W \in SUBSET Tensors : Held(a, t, R, W, lo, hi) /\ Covers(a, R, W)
  BY <1>r DEF RoundInv
<1>0. Typed(a) /\ a.failed = FALSE /\ Places(a, t, lo, hi) /\ Fields(a)
  BY <1>1 DEF Held, Typed
<1>b. PICK b : b = AllocateNode(a, t)
  OBVIOUS
<1>2. Len(s) \in Nat /\ DOMAIN s = 1..Len(s)
  BY <1>s, SourceLength
<1>3. c = IF a.failed \/ b.failed THEN b ELSE FoldOf(1, b, s)
  <2>1. FoldLeft(AllocateNode, a, s) = a
    BY <1>0, <1>s, SourcesPlaced
  <2> QED BY <1>b, <1>s, <2>1, FoldRelease DEF PlaceNode
<1>4. b.failed \in {FALSE, TRUE}
  BY <1>0, <1>b, AllocateNodeSticky
<1>5. b.failed = FALSE /\ c = FoldOf(1, b, s)
  BY <1>0, <1>3, <1>4
<1>6. PICK h : Passes(h, 1, b, s) /\ c = h[Len(s)]
  BY <1>2, <1>5, FoldPasses
<1>7. PICK V \in SUBSET Tensors : NodePlaced(a, b, t, R, V, lo, hi)
  BY <1>1, <1>5, <1>b, <1>r, AllocateNodePlaced
<1>8. /\ Held(b, t + 1, R, V, lo, hi) /\ OnlyAt(a, b, t)
      /\ graph[t].kind = "op" => NodeApart(b, t)
      /\ Ready(b, t, R, V)
  BY <1>7, <1>s DEF NodePlaced
<1>9. RoundDone(b, c, h, t, lo, hi)
  BY <1>6, <1>8, <1>r, <1>s, ReleaseSources
<1>10. RoundInv(c, t + 1, lo, hi) /\ c.data = b.data /\ c.view_src = b.view_src
  BY <1>9 DEF RoundDone, RoundInv
<1>11. OnlyAt(a, c, t)
  BY <1>8, <1>10 DEF OnlyAt
<1>12. graph[t].kind = "op" => NodeApart(c, t)
  BY <1>8, <1>10 DEF NodeApart, IsOwn, Away
<1>13. ASSUME Apart(a, t) PROVE Apart(c, t + 1)
  <2>1. Apart(c, t)
    BY <1>11, <1>13, ApartKept
  <2>2. t \in Nat /\ FirstNode \in Nat
    BY GraphFacts
  <2>3. \A u \in FirstNode..((t + 1) - 1) : u \in FirstNode..(t - 1) \/ u = t
    BY <2>2
  <2> QED BY <1>12, <2>1, <2>3 DEF Apart
<1>14. \A i \in 1..Len(s) : Releasable(h[i - 1], s[i], lo, hi)
  BY <1>9, <1>s DEF RoundDone
<1> QED BY <1>5, <1>6, <1>8, <1>10, <1>11, <1>13, <1>14, <1>b, <1>r, <1>s DEF Round

-----------------------------------------------------------------------------
(* The allocator at the start, and the inputs.                             *)

\* The state Fresh makes.
IsFresh(a, base, size) ==
    /\ Typed(a) /\ a.failed = FALSE /\ a.max_size = 0
    /\ a.blocks = <<[addr |-> RoundUp(base), size |-> size - (RoundUp(base) - base)]>>
    /\ Ordered(a.blocks, base, base + size)
    /\ \A t \in Tensors :
         /\ a.data[t] = IF graph[Origin(t)].kind = "weight" THEN External ELSE NULL
         /\ a.view_src[t] = graph[t].of
         /\ a.n_children[t] = Cardinality(ReadBy(Reads, t))
         /\ a.n_views[t] = Cardinality({k \in Tensors : graph[k].of = t})

\* The allocator of a graph that was just built holds nothing.
LEMMA FreshTyped ==
  ASSUME GraphInv, NEW base \in Nat, NEW size \in Nat, RoundUp(base) - base < size,
         NEW a, a = Fresh(base, size)
  PROVE  IsFresh(a, base, size)
<1>a. PICK first : first = RoundUp(base)
  OBVIOUS
<1>1. first \in Nat /\ base <= first
  BY <1>a, RoundUpFacts
<1>b. PICK room \in Nat : room = size - (first - base) /\ room > 0 /\ first + room = base + size
  BY <1>1, <1>a
<1>2. /\ DOMAIN a = {"blocks", "max_size", "failed", "data", "view_src", "n_children", "n_views"}
      /\ a.failed = FALSE /\ a.max_size = 0
      /\ a.blocks = <<[addr |-> first, size |-> room]>>
      /\ a.data = [t \in Tensors |-> IF graph[Origin(t)].kind = "weight" THEN External ELSE NULL]
      /\ a.view_src = [t \in Tensors |-> graph[t].of]
      /\ a.n_children = [t \in Tensors |-> Cardinality({r \in Reads : Source(r) = t})]
      /\ a.n_views = [t \in Tensors |-> Cardinality({k \in Tensors : graph[k].of = t})]
  BY <1>a, <1>b DEF Fresh
<1>3. \A t \in Tensors :
              /\ a.data[t] = IF graph[Origin(t)].kind = "weight" THEN External ELSE NULL
              /\ a.view_src[t] = graph[t].of
              /\ a.n_children[t] = Cardinality(ReadBy(Reads, t))
              /\ a.n_views[t] = Cardinality({k \in Tensors : graph[k].of = t})
  BY <1>2 DEF ReadBy
<1>4. a.blocks \in Seq(Block) /\ Ordered(a.blocks, base, base + size)
  <2>1. PICK b \in Block : b = [addr |-> first, size |-> room]
    BY <1>1 DEF Block
  <2>2. a.blocks = <<b>> /\ Len(<<b>>) = 1 /\ <<b>>[1] = b /\ <<b>> \in Seq(Block)
    BY <1>2, <2>1
  <2>3. \A k \in 1..1 : k = 1
    OBVIOUS
  <2>4. b.size > 0 /\ base <= b.addr /\ End(b) <= base + size
    BY <1>1, <1>b, <2>1 DEF End
  <2>5. \A j, k \in 1..1 : ~(j < k)
    OBVIOUS
  <2>6. \A k \in 1..Len(a.blocks) : a.blocks[k] = b
    BY <2>2, <2>3
  <2> QED BY <2>2, <2>4, <2>5, <2>6 DEF Ordered
<1>5. a.data \in [Tensors -> Int]
  BY <1>2 DEF External, NULL
<1>6. a.view_src \in [Tensors -> Nat]
  <2>1. \A t \in Tensors : graph[t].of \in Nat
    BY DEF GraphInv, IsTensor
  <2> QED BY <1>2, <2>1
<1>7. a.n_children \in [Tensors -> Int]
  <2>1. \A t \in Tensors : Cardinality({r \in Reads : Source(r) = t}) \in Nat
    <3> SUFFICES ASSUME NEW t \in Tensors PROVE Cardinality({r \in Reads : Source(r) = t}) \in Nat
      OBVIOUS
    <3>1. IsFiniteSet({r \in Reads : Source(r) = t})
      BY ReadFacts, FS_Subset
    <3> QED BY <3>1, FS_CardinalityType
  <2> QED BY <1>2, <2>1
<1>8. a.n_views \in [Tensors -> Int]
  <2>1. \A t \in Tensors : Cardinality({k \in Tensors : graph[k].of = t}) \in Nat
    <3> SUFFICES ASSUME NEW t \in Tensors
                 PROVE  Cardinality({k \in Tensors : graph[k].of = t}) \in Nat
      OBVIOUS
    <3>1. IsFiniteSet({k \in Tensors : graph[k].of = t})
      BY GraphFacts, FS_Subset
    <3> QED BY <3>1, FS_CardinalityType
  <2> QED BY <1>2, <2>1
<1>9. Typed(a)
  <2>1. Fields(a) /\ a.failed \in BOOLEAN /\ a.max_size \in Nat
    <3>1. Fields(a)
      BY <1>2 DEF Fields
    <3>2. a.failed \in BOOLEAN
      BY <1>2
    <3>3. a.max_size \in Nat
      BY <1>2
    <3> QED BY <3>1, <3>2, <3>3
  <2> QED BY <1>4, <1>5, <1>6, <1>7, <1>8, <2>1, Zenon DEF Typed
<1> QED BY <1>2, <1>3, <1>4, <1>9, <1>a, <1>b DEF IsFresh

\* The fresh allocator of a buffer that is larger than its padding.
LEMMA FreshHeld ==
  ASSUME GraphInv, NEW base \in Nat, NEW size \in Nat, RoundUp(base) - base < size,
         NEW a, a = Fresh(base, size)
  PROVE  Held(a, 1, Reads, {}, base, base + size) /\ \A t \in Tensors : ~IsOwn(a, t)
<1>0. /\ Typed(a) /\ a.failed = FALSE
      /\ Ordered(a.blocks, base, base + size)
      /\ \A t \in Tensors :
              /\ a.data[t] = IF graph[Origin(t)].kind = "weight" THEN External ELSE NULL
              /\ a.view_src[t] = graph[t].of
              /\ a.n_children[t] = Cardinality(ReadBy(Reads, t))
              /\ a.n_views[t] = Cardinality({k \in Tensors : graph[k].of = t})
  <2>1. IsFresh(a, base, size)
    BY FreshTyped
  <2> QED BY <2>1 DEF IsFresh
<1>1. \A t \in Tensors : ~IsOwn(a, t) /\ a.data[t] >= External
  <2> SUFFICES ASSUME NEW t \in Tensors PROVE ~IsOwn(a, t) /\ a.data[t] >= External
    OBVIOUS
  <2>1. a.data[t] = -1 \/ a.data[t] = -2
    BY <1>0 DEF External, NULL
  <2> QED BY <2>1 DEF IsOwn, External
<1>2. ASSUME NEW t \in Tensors PROVE PlaceOf(a, t, 1, base, base + size)
  <2>1. ~(t < 1)
    BY GraphFacts
  <2>2. graph[t].kind # "view" => Origin(t) = t /\ graph[t].of = 0
    BY GraphFacts
  <2>3. graph[t].kind = "view" => /\ Origin(t) = graph[t].of /\ graph[t].of \in Tensors
                                  /\ Origin(graph[t].of) = graph[t].of
    BY GraphFacts
  <2>4. NULL # External
    BY DEF NULL, External
  <2>5. /\ graph[t].kind = "weight" => a.data[t] = External
        /\ graph[t].kind \in {"op", "input"} => a.data[t] # External
    BY <1>0, <2>2, <2>4
  <2>6. graph[t].kind = "view" => a.view_src[t] = graph[t].of
                                  /\ (a.data[t] = External <=> a.data[graph[t].of] = External)
    BY <1>0, <2>3, <2>4, ZenonT(30)
  <2>7. graph[t].kind # "view" => a.view_src[t] = None
    BY <1>0, <2>2 DEF None
  <2> QED BY <1>1, <2>1, <2>5, <2>6, <2>7 DEF PlaceOf
<1>3. Counts(a, Reads)
  BY <1>0 DEF Counts
<1>4. Views(a)
  <2> SUFFICES ASSUME NEW r \in Tensors
               PROVE  a.n_views[r] \in Nat /\ Cardinality(ViewsOf(a, r)) <= a.n_views[r]
    BY DEF Views
  <2> DEFINE S == {k \in Tensors : graph[k].of = r}
  <2>1. IsFiniteSet(S) /\ ViewsOf(a, r) \subseteq S
    BY <1>0, GraphFacts, FS_Subset DEF ViewsOf
  <2>2. a.n_views[r] = Cardinality(S)
    BY <1>0
  <2> HIDE DEF S
  <2> QED BY <2>1, <2>2, FS_Subset, FS_CardinalityType
<1>5. Kept(a, {})
  BY DEF Kept
<1> QED BY <1>0, <1>1, <1>2, <1>3, <1>4, <1>5 DEF Held, Places

\* While the inputs get their places, everything that has one is kept.
BuildInv(a, n, lo, hi) ==
    \E W \in SUBSET Tensors : /\ Held(a, n, Reads, W, lo, hi)
                              /\ \A o \in Tensors : IsOwn(a, o) => o \in W

\* A failure stays through the turn of a leaf.
LEMMA AllocInputSticky ==
  ASSUME NEW a, Fields(a), NEW t, NEW c, c = AllocInput(a, t)
  PROVE  Fields(c) /\ c.failed \in {a.failed, TRUE}
BY AllocSticky DEF AllocInput

\* The turn of a leaf keeps the invariant of the build.
LEMMA BuildStep ==
  ASSUME GraphInv, NEW a, NEW t \in Tensors, t < FirstNode, NEW lo \in Nat, NEW hi \in Nat,
         BuildInv(a, t, lo, hi), NEW c, c = AllocInput(a, t), c.failed = FALSE
  PROVE  BuildInv(c, t + 1, lo, hi)
<1>1. PICK W \in SUBSET Tensors : /\ Held(a, t, Reads, W, lo, hi)
                                  /\ \A o \in Tensors : IsOwn(a, o) => o \in W
  BY DEF BuildInv
<1>0. /\ Typed(a) /\ a.failed = FALSE /\ Ordered(a.blocks, lo, hi) /\ Places(a, t, lo, hi)
      /\ Counts(a, Reads) /\ Views(a) /\ Kept(a, W)
  BY <1>1 DEF Held
<1>2. graph[t].kind \in {"input", "weight"} /\ t \in Nat /\ graph[t].kind # "view"
  BY GraphFacts
<1>3. PlaceOf(a, t, t, lo, hi) /\ ~IsOwn(a, t)
  BY <1>0, <1>2 DEF Places, PlaceOf
<1>4. CASE graph[t].kind = "input"
  <2>1. c = Alloc(a, t)
    BY <1>4 DEF AllocInput
  <2>2. a.view_src[t] = None
    BY <1>2, <1>3 DEF PlaceOf
  <2>3. /\ Held(c, t + 1, Reads, W \cup {t}, lo, hi)
        /\ OnlyAt(a, c, t)
    BY <1>1, <1>3, <1>4, <2>1, <2>2, AllocHeld
  <2>4. \A o \in Tensors : IsOwn(c, o) => o \in W \cup {t}
    BY <1>1, <2>3 DEF OnlyAt, IsOwn
  <2>5. W \cup {t} \in SUBSET Tensors
    OBVIOUS
  <2> QED BY <2>3, <2>4, <2>5 DEF BuildInv
<1>5. CASE graph[t].kind = "weight"
  <2>1. c = a
    BY <1>5 DEF AllocInput
  <2>2. OnlyAt(a, a, t)
    BY DEF OnlyAt
  <2>3. PlaceOf(a, t, t + 1, lo, hi)
    <3>1. a.data[t] = External /\ External # NULL
      BY <1>3, <1>5 DEF PlaceOf, External, NULL
    <3>2. ~(t >= t + 1)
      BY <1>2
    <3> QED BY <1>3, <3>1, <3>2, Zenon DEF PlaceOf
  <2>4. Places(a, t + 1, lo, hi)
    BY <1>0, <1>3, <2>2, <2>3, PlacesChange
  <2>5. Held(a, t + 1, Reads, W, lo, hi)
    BY <1>0, <2>4 DEF Held
  <2> QED BY <1>1, <2>1, <2>5 DEF BuildInv
<1> QED BY <1>2, <1>4, <1>5

\* The leafs are the first tensors.
LEMMA LeafsDomain ==
  ASSUME GraphInv
  PROVE  /\ DOMAIN start.leafs = 1..(FirstNode - 1) /\ FirstNode - 1 \in Nat
         /\ \A t \in 1..(FirstNode - 1) : t \in Tensors
<1>1. start.leafs \in Seq({Leaf(kind, size) : kind \in {"input", "weight"}, size \in Sizes})
  BY AllocAssumptionHolds DEF AllocAssumption, GraphInv
<1>2. Len(start.leafs) \in Nat /\ DOMAIN start.leafs = 1..Len(start.leafs)
  BY <1>1, LenProperties
<1>3. FirstNode - 1 = Len(start.leafs)
  BY <1>2 DEF FirstNode
<1>4. Len(graph) >= FirstNode - 1
  BY DEF GraphInv
<1>5. Tensors = 1..Len(graph) /\ Len(graph) \in Nat
  BY GraphFacts
<1> QED BY <1>2, <1>3, <1>4, <1>5

\* The states of building the graph, with the inputs placed one after the other.
BuildPasses(h, base, size) ==
    /\ h[0] = Fresh(base, size)
    /\ \A i \in 1..(FirstNode - 1) : h[i] = AllocInput(h[i - 1], i)
    /\ h[FirstNode - 1] = BuildGraph(base, size)

\* BuildGraph goes through the turns of the leafs.
LEMMA BuildGraphPasses ==
  ASSUME GraphInv, NEW base, NEW size
  PROVE  \E h : BuildPasses(h, base, size)
<1> DEFINE s == [i \in DOMAIN start.leafs |-> i]
<1>1. DOMAIN start.leafs = 1..(FirstNode - 1) /\ FirstNode - 1 \in Nat
  BY LeafsDomain
<1>2. Len(s) = FirstNode - 1 /\ DOMAIN s = 1..(FirstNode - 1) /\ \A i \in 1..(FirstNode - 1) : s[i] = i
  BY <1>1
<1>3. BuildGraph(base, size) = FoldOf(3, Fresh(base, size), s)
  BY FoldAllocInput DEF BuildGraph, FoldLeftDomain
<1> HIDE DEF s
<1>4. PICK h : Passes(h, 3, Fresh(base, size), s) /\ h[Len(s)] = FoldOf(3, Fresh(base, size), s)
  BY <1>1, <1>2, FoldPasses
<1>5. \A i \in 1..(FirstNode - 1) : h[i] = AllocInput(h[i - 1], i)
  BY <1>2, <1>4 DEF Passes, Step
<1>6. h[0] = Fresh(base, size)
  BY <1>4 DEF Passes
<1>7. BuildPasses(h, base, size)
  BY <1>2, <1>3, <1>4, <1>5, <1>6 DEF BuildPasses
<1> QED BY <1>7

\* Downwards: who has not failed at the end has not failed before.
LEMMA BuildUnfailed ==
  ASSUME GraphInv, NEW base \in Nat, NEW size \in Nat, RoundUp(base) - base < size,
         NEW h, BuildPasses(h, base, size)
  PROVE  \A i \in 0..(FirstNode - 1) :
           Fields(h[i]) /\ (i > 0 => h[i].failed \in {h[i - 1].failed, TRUE})
<1>0. FirstNode - 1 \in Nat
  BY LeafsDomain
<1> DEFINE Good == {i \in 0..(FirstNode - 1) :
                      Fields(h[i]) /\ (i > 0 => h[i].failed \in {h[i - 1].failed, TRUE})}
<1>1. 0 \in Good
  <2>1. Held(h[0], 1, Reads, {}, base, base + size)
    BY FreshHeld DEF BuildPasses
  <2>2. Fields(h[0])
    BY <2>1 DEF Held, Typed
  <2>3. 0 \in 0..(FirstNode - 1) /\ ~(0 > 0)
    BY <1>0
  <2> QED BY <2>2, <2>3
<1>2. ASSUME NEW i \in 0..((FirstNode - 1) - 1), i \in Good PROVE i + 1 \in Good
  <2>1. i + 1 \in 1..(FirstNode - 1) /\ i + 1 \in 0..(FirstNode - 1) /\ (i + 1) - 1 = i
    BY <1>0
  <2>2. PICK e : e = h[i]
    OBVIOUS
  <2>3. PICK c : c = h[i + 1]
    OBVIOUS
  <2>t. PICK t : t = i + 1
    OBVIOUS
  <2>4. c = AllocInput(e, t) /\ Fields(e)
    BY <1>2, <2>1, <2>2, <2>3, <2>t DEF BuildPasses
  <2>5. Fields(c) /\ c.failed \in {e.failed, TRUE}
    BY <2>4, AllocInputSticky
  <2> QED BY <2>1, <2>2, <2>3, <2>5
<1>3. \A i \in 0..(FirstNode - 1) : i \in Good
  <2> HIDE DEF Good
  <2> QED BY <1>0, <1>1, <1>2, Induction
<1> QED BY <1>3

\* A state of the build that has not failed is sound.
LEMMA BuildSound ==
  ASSUME GraphInv, NEW base \in Nat, NEW size \in Nat, RoundUp(base) - base < size,
         NEW h, BuildPasses(h, base, size)
  PROVE  \A i \in 0..(FirstNode - 1) :
           h[i].failed = FALSE => BuildInv(h[i], i + 1, base, base + size)
<1>0. FirstNode - 1 \in Nat /\ \A t \in 1..(FirstNode - 1) : t \in Tensors /\ t < FirstNode
  <2>1. FirstNode \in Nat /\ \A t \in 1..(FirstNode - 1) : t < FirstNode
    BY GraphFacts
  <2> QED BY <2>1, LeafsDomain
<1> DEFINE Good == {i \in 0..(FirstNode - 1) :
                      h[i].failed = FALSE => BuildInv(h[i], i + 1, base, base + size)}
<1>1. 0 \in Good
  <2>1. /\ Held(h[0], 1, Reads, {}, base, base + size)
        /\ \A t \in Tensors : ~IsOwn(h[0], t)
    BY FreshHeld DEF BuildPasses
  <2>2. {} \in SUBSET Tensors /\ 0 + 1 = 1
    OBVIOUS
  <2>3. BuildInv(h[0], 1, base, base + size)
    BY <2>1, <2>2 DEF BuildInv
  <2>4. 0 \in 0..(FirstNode - 1)
    BY <1>0
  <2> QED BY <2>2, <2>3, <2>4
<1>2. ASSUME NEW i \in 0..((FirstNode - 1) - 1), i \in Good PROVE i + 1 \in Good
  <2>1. /\ i + 1 \in 1..(FirstNode - 1) /\ i + 1 \in 0..(FirstNode - 1) /\ (i + 1) - 1 = i
        /\ i \in 0..(FirstNode - 1)
    BY <1>0
  <2> SUFFICES ASSUME h[i + 1].failed = FALSE
               PROVE  BuildInv(h[i + 1], (i + 1) + 1, base, base + size)
    BY <2>1
  <2>2. PICK e : e = h[i]
    OBVIOUS
  <2>3. PICK c : c = h[i + 1]
    OBVIOUS
  <2>t. PICK t : t = i + 1
    OBVIOUS
  <2>4. c = AllocInput(e, t)
    BY <2>1, <2>2, <2>3, <2>t DEF BuildPasses
  <2>5. Fields(e)
    BY <2>1, <2>2, BuildUnfailed
  <2>6. c.failed \in {e.failed, TRUE}
    BY <2>4, <2>5, AllocInputSticky
  <2>7. e.failed = FALSE /\ c.failed = FALSE
    BY <2>3, <2>6
  <2>8. BuildInv(e, t, base, base + size)
    BY <1>2, <2>2, <2>7, <2>t
  <2>9. t \in Tensors /\ t < FirstNode
    BY <1>0, <2>1, <2>t
  <2>10. BuildInv(c, t + 1, base, base + size)
    <3>1. base + size \in Nat
      OBVIOUS
    <3> QED BY <2>4, <2>7, <2>8, <2>9, <3>1, BuildStep
  <2> QED BY <2>3, <2>10, <2>t
<1>3. \A i \in 0..(FirstNode - 1) : i \in Good
  <2> HIDE DEF Good
  <2> QED BY <1>0, <1>1, <1>2, Induction
<1> QED BY <1>3

\* Nobody but the nodes reads.
LEMMA NodesRead ==
  ASSUME GraphInv
  PROVE  ReadsFrom(FirstNode) = Reads
<1> SUFFICES ASSUME NEW r \in Reads PROVE r[1] >= FirstNode
  BY DEF ReadsFrom
<1>1. r[1] \in Tensors /\ r[2] \in DOMAIN graph[r[1]].src
  BY ReadFacts
<1>2. IsTensor(r[1]) /\ r[1] \in Nat /\ FirstNode \in Nat
  BY <1>1, GraphFacts DEF GraphInv
<1>3. CASE r[1] < FirstNode
  <2>1. graph[r[1]].src = <<>>
    BY <1>2, <1>3 DEF IsTensor
  <2> QED BY <1>1, <2>1
<1> QED BY <1>2, <1>3

\* A build that has not failed is ready for the nodes.
LEMMA BuildGraphInv ==
  ASSUME GraphInv, NEW base \in Nat, NEW size \in Nat, RoundUp(base) - base < size,
         NEW a, a = BuildGraph(base, size)
  PROVE  /\ Fields(a)
         /\ a.failed = FALSE => /\ BuildInv(a, FirstNode, base, base + size)
                                /\ RoundInv(a, FirstNode, base, base + size)
<1>1. PICK h : BuildPasses(h, base, size)
  BY BuildGraphPasses
<1>2. a = h[FirstNode - 1] /\ FirstNode - 1 \in 0..(FirstNode - 1) /\ (FirstNode - 1) + 1 = FirstNode
  BY <1>1, LeafsDomain, GraphFacts DEF BuildPasses
<1>3. Fields(a)
  <2>1. \A i \in 0..(FirstNode - 1) :
           Fields(h[i]) /\ (i > 0 => h[i].failed \in {h[i - 1].failed, TRUE})
    BY <1>1, BuildUnfailed
  <2> QED BY <1>2, <2>1
<1>4. ASSUME a.failed = FALSE PROVE BuildInv(a, FirstNode, base, base + size)
  <2>1. \A i \in 0..(FirstNode - 1) :
           h[i].failed = FALSE => BuildInv(h[i], i + 1, base, base + size)
    BY <1>1, BuildSound
  <2> QED BY <1>2, <1>4, <2>1
<1>5. ASSUME BuildInv(a, FirstNode, base, base + size)
      PROVE  RoundInv(a, FirstNode, base, base + size)
  <2>1. PICK W \in SUBSET Tensors : /\ Held(a, FirstNode, Reads, W, base, base + size)
                                    /\ \A o \in Tensors : IsOwn(a, o) => o \in W
    BY <1>5 DEF BuildInv
  <2>2. Covers(a, Reads, W)
    BY <2>1, NeedFacts DEF Covers
  <2> QED BY <2>1, <2>2, NodesRead DEF RoundInv
<1> QED BY <1>3, <1>4, <1>5

-----------------------------------------------------------------------------
(* The graph grows as llm_build_graph adds its nodes.                      *)

\* What may be added to the graph.
NewTensor(T) ==
    /\ T.size \in Nat \ {0} /\ T.size \in Sizes
    /\ T.of \in Nat /\ T.offs \in Nat
    /\ T.src \in Seq(Nat) /\ Len(T.src) <= 2
    /\ \A j \in 1..Len(T.src) : T.src[j] \in Tensors
    /\ T.kind \in {"op", "view"}
    /\ T.kind = "op" => T.of = 0 /\ T.offs = 0
    /\ T.kind = "view" => /\ Len(T.src) = 1 /\ T.of = Origin(T.src[1])
                          /\ T.offs + T.size <= graph[T.of].size

\* Sizes are positive.
LEMMA SizesFacts == \A size \in Sizes : size \in Nat \ {0}
BY AllocAssumptionHolds DEF AllocAssumption

\* The graph keeps its shape when a well-formed tensor is added.
LEMMA AddTensorInv ==
  ASSUME GraphInv, NEW T, NewTensor(T), graph' = Append(graph, T), start' = start
  PROVE  GraphInv'
<1>a. PICK n \in Nat : n = Len(graph)
  BY DEF GraphInv
<1>b. PICK g : g = graph'
  OBVIOUS
<1>0. Tensors = 1..n /\ FirstNode \in Nat /\ FirstNode >= 1 /\ n >= FirstNode - 1
  BY <1>a, GraphFacts DEF GraphInv
<1>s. graph \in Seq({graph[t] : t \in Tensors} \cup {T}) /\ T \in {graph[t] : t \in Tensors} \cup {T}
  <2>1. graph = [t \in 1..n |-> graph[t]]
    BY <1>a DEF GraphInv
  <2> QED BY <1>0, <2>1
<1>1. /\ Len(g) = n + 1 /\ DOMAIN g = 1..(n + 1)
      /\ \A t \in 1..n : g[t] = graph[t]
      /\ g[n + 1] = T
  BY <1>a, <1>b, <1>s, AppendProperties
<1>2. FirstNode' = FirstNode
  BY DEF FirstNode
<1>3. \A t \in 1..n : (IF g[t].kind = "view" THEN g[t].of ELSE t) = Origin(t)
  BY <1>1 DEF Origin
<1>4. ASSUME NEW t \in 1..n PROVE IsTensor(t)'
  <2>1. IsTensor(t) /\ g[t] = graph[t] /\ t \in Nat
    BY <1>0, <1>1 DEF GraphInv
  <2>2. \A j \in 1..Len(graph[t].src) : graph[t].src[j] \in 1..n
    <3>1. \A j \in 1..Len(graph[t].src) : graph[t].src[j] \in 1..(t - 1)
      BY <2>1 DEF IsTensor
    <3>2. \A x \in 1..(t - 1) : x \in 1..n
      OBVIOUS
    <3> QED BY <3>1, <3>2
  <2>s. PICK s : s = graph[t].src[1]
    OBVIOUS
  <2>3. graph[t].kind = "view" => /\ (IF g[s].kind = "view" THEN g[s].of ELSE s) = Origin(s)
                                  /\ g[graph[t].of] = graph[graph[t].of]
    <3> SUFFICES ASSUME graph[t].kind = "view"
                 PROVE  /\ (IF g[s].kind = "view" THEN g[s].of ELSE s) = Origin(s)
                        /\ g[graph[t].of] = graph[graph[t].of]
      OBVIOUS
    <3>1. Len(graph[t].src) = 1 /\ graph[t].of \in 1..(t - 1)
      BY <2>1 DEF IsTensor
    <3>2. s \in 1..n /\ graph[t].of \in 1..n
      BY <2>1, <2>2, <2>s, <3>1
    <3> QED BY <1>1, <1>3, <3>2
  <2>4. graph' = g
    BY <1>b
  <2> QED BY <1>2, <2>1, <2>3, <2>4, <2>s DEF IsTensor, Origin
<1>5. IsTensor(n + 1)'
  <2>1. \A j \in 1..Len(T.src) : T.src[j] \in 1..((n + 1) - 1)
    BY <1>0 DEF NewTensor
  <2>2. n + 1 >= FirstNode /\ ~(n + 1 < FirstNode)
    BY <1>0
  <2>s. PICK s : s = T.src[1]
    OBVIOUS
  <2>3. T.kind = "view" => /\ T.of = (IF g[s].kind = "view" THEN g[s].of ELSE s)
                           /\ T.of \in 1..n
                           /\ g[T.of].kind # "view"
                           /\ T.offs + T.size <= g[T.of].size
    <3> SUFFICES ASSUME T.kind = "view"
                 PROVE  /\ T.of = (IF g[s].kind = "view" THEN g[s].of ELSE s)
                        /\ T.of \in 1..n
                        /\ g[T.of].kind # "view"
                        /\ T.offs + T.size <= g[T.of].size
      OBVIOUS
    <3>1. s \in 1..n /\ T.of = Origin(s) /\ T.offs + T.size <= graph[T.of].size
      BY <1>0, <2>s DEF NewTensor
    <3>2. T.of \in 1..n /\ graph[T.of].kind # "view"
      BY <1>0, <3>1, GraphFacts
    <3> QED BY <1>1, <1>3, <3>1, <3>2
  <2>4. graph'[n + 1] = T /\ graph' = g
    BY <1>1, <1>b
  <2>5. (n + 1) - 1 = n
    BY <1>a
  <2> QED BY <1>2, <2>1, <2>2, <2>3, <2>4, <2>5, <2>s DEF NewTensor, IsTensor, Origin
<1>6. \A t \in 1..(n + 1) : t \in 1..n \/ t = n + 1
  OBVIOUS
<1>7. Tensors' = 1..(n + 1)
  BY <1>1, <1>b DEF Tensors
<1>8. \A t \in Tensors' : IsTensor(t)'
  BY <1>4, <1>5, <1>6, <1>7
<1>9. start' \in Starts /\ Len(graph)' \in Nat /\ (DOMAIN graph = 1..Len(graph))'
      /\ (Len(graph) >= FirstNode - 1)'
      /\ (graph = [t \in 1..Len(graph) |-> graph[t]])'
  <2>2. g \in Seq({graph[t] : t \in Tensors} \cup {T})
    BY <1>b, <1>s, AppendProperties
  <2>3. g = [t \in 1..Len(g) |-> g[t]]
    BY <2>2
  <2>4. start' \in Starts
    BY DEF GraphInv
  <2>5. Len(g) \in Nat /\ DOMAIN g = 1..Len(g) /\ Len(g) >= FirstNode' - 1
    BY <1>0, <1>1, <1>2
  <2> QED BY <1>b, <2>3, <2>4, <2>5
<1> QED BY <1>8, <1>9 DEF GraphInv

\* The nodes that llm_build_graph adds.
LEMMA AddOpInv ==
  ASSUME GraphInv, AddOp
  PROVE  GraphInv'
<1>1. PICK src \in Sources, size \in Sizes, inplace \in BOOLEAN :
         AddTensor(Tensor("op", src, size, inplace, None, 0))
  BY DEF AddOp
<1>2. PICK T : T = Tensor("op", src, size, inplace, None, 0)
  OBVIOUS
<1>3. T.kind = "op" /\ T.src = src /\ T.size = size /\ T.of = 0 /\ T.offs = 0
  BY <1>2 DEF Tensor, None
<1>4. /\ src \in Seq(Nat) /\ Len(src) <= 2
      /\ \A j \in 1..Len(src) : src[j] \in Tensors
  <2>0. \A t \in Tensors : t \in Nat
    BY GraphFacts
  <2>1. CASE src \in {<<p>> : p \in Tensors}
    <3>1. PICK p \in Tensors : src = <<p>>
      BY <2>1
    <3>2. p \in Nat /\ \A j \in 1..1 : j = 1
      BY <2>0
    <3>3. Len(src) = 1 /\ src[1] = p /\ src \in Seq(Nat)
      BY <3>1, <3>2
    <3> QED BY <3>2, <3>3
  <2>2. CASE src \in {s \in Tensors \X Tensors : s[1] <= s[2]}
    <3>1. PICK p \in Tensors, q \in Tensors : src = <<p, q>>
      BY <2>2
    <3>2. p \in Nat /\ q \in Nat /\ \A j \in 1..2 : j = 1 \/ j = 2
      BY <2>0
    <3>3. Len(src) = 2 /\ src[1] = p /\ src[2] = q /\ src \in Seq(Nat)
      BY <3>1, <3>2
    <3> QED BY <3>2, <3>3
  <2> QED BY <2>1, <2>2 DEF Sources
<1>5. NewTensor(T)
  BY <1>3, <1>4, SizesFacts DEF NewTensor
<1>6. graph' = Append(graph, T) /\ start' = start
  BY <1>1, <1>2 DEF AddTensor
<1> QED BY <1>5, <1>6, AddTensorInv

\* The views that llm_build_graph adds.
LEMMA AddViewInv ==
  ASSUME GraphInv, AddView
  PROVE  GraphInv'
<1>1. PICK p \in Tensors, size \in Sizes, offs \in {0, Alignment} :
    /\ offs + size <= graph[p].size
    /\ AddTensor(Tensor("view", <<p>>, size, FALSE, Origin(p), graph[p].offs + offs))
  BY DEF AddView
<1>2. PICK T : T = Tensor("view", <<p>>, size, FALSE, Origin(p), graph[p].offs + offs)
  OBVIOUS
<1>3. /\ T.kind = "view" /\ T.src = <<p>> /\ T.size = size /\ T.of = Origin(p)
      /\ T.offs = graph[p].offs + offs
  BY <1>2 DEF Tensor
<1>4. offs \in Nat /\ size \in Nat \ {0}
  BY SizesFacts, AllocAssumptionHolds DEF AllocAssumption
<1>5. /\ p \in Nat /\ graph[p].offs \in Nat /\ graph[p].size \in Nat
      /\ Origin(p) \in Tensors /\ Origin(p) \in Nat /\ graph[Origin(p)].size \in Nat
      /\ graph[p].offs + graph[p].size <= graph[Origin(p)].size
  BY GraphFacts
<1>6. T.src \in Seq(Nat) /\ Len(T.src) = 1 /\ T.src[1] = p
  BY <1>3, <1>5
<1>7. \A j \in 1..Len(T.src) : T.src[j] \in Tensors
  <2>1. \A j \in 1..1 : j = 1
    OBVIOUS
  <2> QED BY <1>6, <2>1
<1>8. T.offs \in Nat /\ T.offs + T.size <= graph[T.of].size
  BY <1>1, <1>3, <1>4, <1>5
<1>9. NewTensor(T)
  BY <1>3, <1>4, <1>5, <1>6, <1>7, <1>8 DEF NewTensor
<1>10. graph' = Append(graph, T) /\ start' = start
  BY <1>1, <1>2 DEF AddTensor
<1> QED BY <1>9, <1>10, AddTensorInv

\* The graph of the leafs.
LEMMA InitGraph ==
  ASSUME Init
  PROVE  GraphInv
<1>1. start \in Starts /\ graph = start.leafs
  BY DEF Init
<1> DEFINE L == {Leaf(kind, size) : kind \in {"input", "weight"}, size \in Sizes}
<1>2. graph \in Seq(L)
  BY <1>1, AllocAssumptionHolds DEF AllocAssumption
<1>3. Len(graph) \in Nat /\ DOMAIN graph = 1..Len(graph) /\ \A t \in 1..Len(graph) : graph[t] \in L
  BY <1>2, LenProperties, ElementOfSeq
<1>4. FirstNode = Len(graph) + 1
  BY <1>1 DEF FirstNode
<1>5. ASSUME NEW t \in Tensors PROVE IsTensor(t)
  <2>1. graph[t] \in L /\ t \in Nat /\ t < FirstNode
    BY <1>3, <1>4 DEF Tensors
  <2>2. PICK kind \in {"input", "weight"}, size \in Sizes : graph[t] = Leaf(kind, size)
    BY <2>1
  <2>3. /\ graph[t].kind = kind /\ graph[t].src = <<>> /\ graph[t].size = size
        /\ graph[t].of = 0 /\ graph[t].offs = 0
    BY <2>2 DEF Leaf, Tensor, None
  <2>4. size \in Nat \ {0} /\ FirstNode \in Nat
    BY <1>3, <1>4, SizesFacts
  <2>5. graph[t].src \in Seq(Nat) /\ Len(graph[t].src) = 0 /\ 1..0 = {}
    BY <2>3
  <2>6. ~(t >= FirstNode)
    BY <2>1, <2>4
  <2> QED BY <2>1, <2>3, <2>4, <2>5, <2>6 DEF IsTensor
<1>6. graph = [t \in 1..Len(graph) |-> graph[t]]
  <2> HIDE DEF L
  <2> QED BY <1>2
<1> QED BY <1>1, <1>3, <1>4, <1>5, <1>6 DEF GraphInv

-----------------------------------------------------------------------------
(* The measuring pass and the real pass make the same choices,             *)
(* RoundUp(base) apart.                                                    *)

\* Both free lists stay alike when size bytes of the same block are taken.
LEMMA ShiftedTaken ==
  ASSUME NEW B \in Seq(Block), NEW C \in Seq(Block), NEW d \in Nat, NEW E \in Nat,
         Shifted(B, C, d, E), NEW k \in 1..Len(B), NEW size \in Nat \ {0},
         size <= B[k].size, k = Len(B) => Top(B) + size < Unlimited /\ Top(B) + size + d < E
  PROVE  /\ size <= C[k].size
         /\ Shifted(Taken(B, k, size), Taken(C, k, size), d, E)
         /\ Top(Taken(B, k, size)) = IF k = Len(B) THEN Top(B) + size ELSE Top(B)
<1>n. PICK n : n = Len(B)
  OBVIOUS
<1>g. PICK G : G = Taken(B, k, size)
  OBVIOUS
<1>h. PICK H : H = Taken(C, k, size)
  OBVIOUS
<1>0. /\ n \in Nat /\ n >= 1 /\ Len(C) = n
      /\ \A j \in 1..n : /\ B[j].addr \in Nat /\ B[j].size \in Nat
                         /\ C[j].addr \in Nat /\ C[j].size \in Nat
      /\ \A j \in 1..n : C[j].addr = B[j].addr + d
      /\ \A j \in 1..(n - 1) : C[j].size = B[j].size
      /\ B[n].addr + B[n].size = Unlimited /\ C[n].addr + C[n].size = E
      /\ Top(B) = B[n].addr
  BY <1>n, BlockFacts DEF Shifted, End, Top
<1>1. k = n => size < B[k].size /\ size < C[k].size
  <2> SUFFICES ASSUME k = n PROVE size < B[n].size /\ size < C[n].size
    OBVIOUS
  <2>1. B[n].addr + size < B[n].addr + B[n].size /\ B[n].addr + size + d < C[n].addr + C[n].size
    BY <1>0, <1>n
  <2>2. /\ B[n].addr \in Nat /\ B[n].size \in Nat /\ C[n].addr = B[n].addr + d /\ C[n].size \in Nat
    BY <1>0
  <2>3. PICK u \in Nat : u = B[n].addr
    BY <2>2
  <2>4. PICK v \in Nat : v = B[n].size
    BY <2>2
  <2>5. PICK w \in Nat : w = C[n].size
    BY <2>2
  <2>6. u + size < u + v /\ u + size + d < u + d + w
    BY <2>1, <2>2, <2>3, <2>4, <2>5
  <2>7. size < v /\ size < w
    BY <2>6
  <2> QED BY <2>4, <2>5, <2>7
<1>2. ASSUME k # n PROVE C[k].size = B[k].size
  <2>1. k \in 1..(n - 1)
    BY <1>0, <1>2, <1>n
  <2> QED BY <1>0, <2>1
<1>3. size <= C[k].size
  BY <1>0, <1>1, <1>2, <1>n
<1>4. B[k].size = size <=> C[k].size = size
  BY <1>0, <1>1, <1>2, <1>n
<1>5. CASE B[k].size = size
  <2>1. /\ Len(G) = n - 1 /\ Len(H) = n - 1
        /\ \A j \in 1..(n - 1) : G[j] = IF j < k THEN B[j] ELSE B[j + 1]
        /\ \A j \in 1..(n - 1) : H[j] = IF j < k THEN C[j] ELSE C[j + 1]
    <3>1. k \in 1..Len(C) /\ size \in Nat /\ C[k].addr \in Nat
      BY <1>0, <1>n
    <3>2. /\ Len(G) = n - 1
          /\ \A j \in 1..(n - 1) : G[j] = IF j < k THEN B[j] ELSE B[j + 1]
      BY <1>5, <1>g, <1>n, TakenForm
    <3>3. /\ Len(H) = n - 1
          /\ \A j \in 1..(n - 1) : H[j] = IF j < k THEN C[j] ELSE C[j + 1]
      <4>1. C[k].size = size /\ Len(C) = n
        BY <1>0, <1>4, <1>5
      <4>2. /\ Len(Taken(C, k, size)) = Len(C) - 1
            /\ \A j \in 1..(Len(C) - 1) : Taken(C, k, size)[j] = IF j < k THEN C[j] ELSE C[j + 1]
        BY <1>3, <3>1, <4>1, TakenForm, SMTT(60)
      <4> QED BY <1>h, <4>1, <4>2
    <3> QED BY <3>2, <3>3
  <2>2. k < n /\ n - 1 \in 1..(n - 1) /\ ~(n - 1 < k) /\ (n - 1) + 1 = n /\ k \in Nat
    BY <1>0, <1>1, <1>5, <1>n
  <2>3. G[n - 1] = B[n] /\ H[n - 1] = C[n]
    BY <2>1, <2>2
  <2>4. \A j \in 1..(n - 1) : H[j].addr = G[j].addr + d
    <3> SUFFICES ASSUME NEW j \in 1..(n - 1) PROVE H[j].addr = G[j].addr + d
      OBVIOUS
    <3>1. j \in 1..n /\ j + 1 \in 1..n
      BY <1>0
    <3>2. C[j].addr = B[j].addr + d /\ C[j + 1].addr = B[j + 1].addr + d
      BY <1>0, <3>1
    <3>3. \/ H[j] = C[j] /\ G[j] = B[j]
          \/ H[j] = C[j + 1] /\ G[j] = B[j + 1]
      BY <2>1
    <3> QED BY <3>2, <3>3
  <2>5. \A j \in 1..((n - 1) - 1) : H[j].size = G[j].size
    <3> SUFFICES ASSUME NEW j \in 1..((n - 1) - 1) PROVE H[j].size = G[j].size
      OBVIOUS
    <3>1. j \in 1..(n - 1) /\ j + 1 \in 1..(n - 1)
      BY <1>0
    <3> QED BY <1>0, <2>1, <3>1
  <2>6. Shifted(G, H, d, E)
    BY <1>0, <2>1, <2>2, <2>3, <2>4, <2>5 DEF Shifted, End
  <2>7. Top(G) = Top(B)
    BY <1>0, <2>1, <2>3 DEF Top
  <2> QED BY <1>3, <1>g, <1>h, <1>n, <2>2, <2>6, <2>7
<1>6. CASE B[k].size # size
  <2>1. /\ Len(G) = n /\ Len(H) = n
        /\ \A j \in 1..n : j # k => G[j] = B[j] /\ H[j] = C[j]
        /\ G[k].addr = B[k].addr + size /\ G[k].size = B[k].size - size
        /\ H[k].addr = C[k].addr + size /\ H[k].size = C[k].size - size
    <3>1. k \in 1..Len(C) /\ size \in Nat /\ C[k].addr \in Nat
      BY <1>0, <1>n
    <3>2. /\ Len(G) = n
          /\ \A j \in 1..n : j # k => G[j] = B[j]
          /\ G[k].addr = B[k].addr + size /\ G[k].size = B[k].size - size
      BY <1>6, <1>g, <1>n, TakenForm
    <3>3. /\ Len(H) = n
          /\ \A j \in 1..n : j # k => H[j] = C[j]
          /\ H[k].addr = C[k].addr + size /\ H[k].size = C[k].size - size
      <4>1. C[k].size # size /\ Len(C) = n
        BY <1>0, <1>4, <1>6
      <4> QED BY <1>3, <1>h, <3>1, <4>1, TakenForm
    <3> QED BY <3>2, <3>3
  <2>2. \A j \in 1..n : H[j].addr = G[j].addr + d
    <3> SUFFICES ASSUME NEW j \in 1..n PROVE H[j].addr = G[j].addr + d
      OBVIOUS
    <3>1. CASE j = k
      <4>1. B[k].addr \in Nat /\ C[k].addr = B[k].addr + d
        BY <1>0, <1>n
      <4> QED BY <2>1, <3>1, <4>1
    <3>2. CASE j # k
      BY <1>0, <2>1, <3>2
    <3> QED BY <3>1, <3>2
  <2>3. \A j \in 1..(n - 1) : H[j].size = G[j].size
    <3> SUFFICES ASSUME NEW j \in 1..(n - 1) PROVE H[j].size = G[j].size
      OBVIOUS
    <3>1. j \in 1..n /\ C[j].size = B[j].size
      BY <1>0, SMTT(30)
    <3> QED BY <2>1, <3>1
  <2>4. End(G[n]) = Unlimited /\ End(H[n]) = E /\ Top(G) = IF k = n THEN Top(B) + size ELSE Top(B)
    <3>1. CASE k = n
      <4>1. /\ B[n].addr \in Nat /\ B[n].size \in Nat /\ C[n].addr \in Nat /\ C[n].size \in Nat
        BY <1>0
      <4>2. /\ G[n].addr = B[n].addr + size /\ G[n].size = B[n].size - size
            /\ H[n].addr = C[n].addr + size /\ H[n].size = C[n].size - size
        BY <2>1, <3>1
      <4>3. PICK u \in Nat : u = B[n].addr
        BY <4>1
      <4>4. PICK v \in Nat : v = B[n].size
        BY <4>1
      <4>5. PICK x \in Nat : x = C[n].addr
        BY <4>1
      <4>6. PICK y \in Nat : y = C[n].size
        BY <4>1
      <4>7. u + v = Unlimited /\ x + y = E /\ Top(B) = u
        BY <1>0, <4>3, <4>4, <4>5, <4>6
      <4>8. (u + size) + (v - size) = Unlimited /\ (x + size) + (y - size) = E
        BY <4>7
      <4>9. End(G[n]) = (u + size) + (v - size) /\ End(H[n]) = (x + size) + (y - size)
        BY <4>2, <4>3, <4>4, <4>5, <4>6 DEF End
      <4>10. Top(G) = G[n].addr
        BY <2>1 DEF Top
      <4> QED BY <3>1, <4>2, <4>3, <4>7, <4>8, <4>9, <4>10
    <3>2. CASE k # n
      <4>1. G[n] = B[n] /\ H[n] = C[n]
        BY <1>0, <2>1, <3>2, SMTT(30)
      <4> QED BY <1>0, <2>1, <3>2, <4>1 DEF End, Top
    <3> QED BY <3>1, <3>2
  <2>5. Shifted(G, H, d, E)
    BY <1>0, <2>1, <2>2, <2>3, <2>4 DEF Shifted
  <2> QED BY <1>3, <1>g, <1>h, <1>n, <2>4, <2>5
<1> QED BY <1>5, <1>6

\* What is in order and clear of the blocks of one allocator is so in the other.
LEMMA ShiftedOrder ==
  ASSUME NEW B \in Seq(Block), NEW C \in Seq(Block), NEW d \in Nat, NEW E \in Nat,
         Shifted(B, C, d, E), Ordered(B, 0, Unlimited), Top(B) + d < E
  PROVE  /\ Ordered(C, 0, E)
         /\ \A x, y \in Nat : x < y /\ y <= Unlimited /\ Clear(B, x, y) =>
              y <= Top(B) /\ Clear(C, x + d, y + d)
<1>n. PICK n : n = Len(B)
  OBVIOUS
<1>0. /\ n \in Nat /\ n >= 1 /\ Len(C) = n
      /\ \A j \in 1..n : /\ B[j].addr \in Nat /\ B[j].size \in Nat
                         /\ C[j].addr \in Nat /\ C[j].size \in Nat
                         /\ End(B[j]) = B[j].addr + B[j].size
                         /\ End(C[j]) = C[j].addr + C[j].size
      /\ \A j \in 1..n : C[j].addr = B[j].addr + d
      /\ \A j \in 1..(n - 1) : C[j].size = B[j].size
      /\ End(B[n]) = Unlimited /\ End(C[n]) = E
      /\ Top(B) = B[n].addr
  BY <1>n, BlockFacts DEF Shifted, End, Top
<1>1. \A j \in 1..(n - 1) : End(C[j]) = End(B[j]) + d /\ C[j].size > 0
  <2> SUFFICES ASSUME NEW j \in 1..(n - 1) PROVE End(C[j]) = End(B[j]) + d /\ C[j].size > 0
    OBVIOUS
  <2>1. j \in 1..n
    BY <1>0
  <2>2. B[j].size > 0
    BY <1>n, <2>1 DEF Ordered
  <2>3. /\ C[j].size = B[j].size /\ C[j].addr = B[j].addr + d
        /\ B[j].addr \in Nat /\ B[j].size \in Nat
        /\ End(B[j]) = B[j].addr + B[j].size /\ End(C[j]) = C[j].addr + C[j].size
    BY <1>0, <2>1
  <2> QED BY <2>2, <2>3
<1>2. C[n].size > 0
  <2>1. B[n].addr \in Nat /\ C[n].addr = B[n].addr + d /\ C[n].size \in Nat
    BY <1>0
  <2> QED BY <1>0, <2>1
<1>3. \A j \in 1..n : \A k \in 1..n : j < k => End(B[j]) < B[k].addr
  BY <1>n DEF Ordered
<1>4. \A j \in 1..n : \A k \in 1..n : j < k => End(C[j]) < C[k].addr
  <2> SUFFICES ASSUME NEW j \in 1..n, NEW k \in 1..n, j < k PROVE End(C[j]) < C[k].addr
    OBVIOUS
  <2>1. j \in 1..(n - 1)
    BY <1>0
  <2>2. End(B[j]) < B[k].addr
    BY <1>3
  <2>3. End(C[j]) = End(B[j]) + d /\ C[k].addr = B[k].addr + d
    BY <1>0, <1>1, <2>1
  <2>4. End(B[j]) \in Nat /\ B[k].addr \in Nat
    <3>1. B[j].addr \in Nat /\ B[j].size \in Nat
      BY <1>0
    <3>2. End(B[j]) \in Nat
      BY <3>1, SMTT(30) DEF End
    <3> QED BY <1>0, <3>2
  <2> QED BY <2>2, <2>3, <2>4
<1>5. \A j \in 1..n : C[j].size > 0 /\ 0 <= C[j].addr /\ End(C[j]) <= E
  <2> SUFFICES ASSUME NEW j \in 1..n PROVE C[j].size > 0 /\ 0 <= C[j].addr /\ End(C[j]) <= E
    OBVIOUS
  <2>1. CASE j = n
    BY <1>0, <1>2, <2>1
  <2>2. CASE j # n
    <3>1. j \in 1..(n - 1) /\ n \in 1..n /\ j < n
      BY <1>0, <2>2
    <3>2. End(C[j]) < C[n].addr /\ C[n].addr \in Nat /\ C[n].addr <= E
      BY <1>0, <1>4, <3>1
    <3> QED BY <1>0, <1>1, <3>1, <3>2
  <2> QED BY <2>1, <2>2
<1>6. Ordered(C, 0, E)
  BY <1>0, <1>4, <1>5 DEF Ordered
<1>7. ASSUME NEW x \in Nat, NEW y \in Nat, x < y, y <= Unlimited, Clear(B, x, y)
      PROVE  y <= Top(B) /\ Clear(C, x + d, y + d)
  <2>1. \A k \in 1..n : End(B[k]) <= x \/ y <= B[k].addr
    BY <1>7, <1>n DEF Clear
  <2>2. y <= B[n].addr
    <3>1. ~(Unlimited <= x)
      BY <1>7, AllocAssumptionHolds DEF AllocAssumption
    <3> QED BY <1>0, <2>1, <3>1
  <2>3. \A k \in 1..n : End(C[k]) <= x + d \/ y + d <= C[k].addr
    <3> SUFFICES ASSUME NEW k \in 1..n PROVE End(C[k]) <= x + d \/ y + d <= C[k].addr
      OBVIOUS
    <3>1. CASE k = n
      BY <1>0, <2>2, <3>1
    <3>2. CASE k # n
      <4>1. k \in 1..(n - 1)
        BY <1>0, <3>2
      <4>2. /\ End(C[k]) = End(B[k]) + d /\ C[k].addr = B[k].addr + d
            /\ B[k].addr \in Nat /\ B[k].size \in Nat /\ End(B[k]) = B[k].addr + B[k].size
        BY <1>0, <1>1, <4>1
      <4>3. End(B[k]) <= x \/ y <= B[k].addr
        BY <2>1
      <4> QED BY <4>2, <4>3, SMTT(30)
    <3> QED BY <3>1, <3>2
  <2> QED BY <1>0, <2>2, <2>3 DEF Clear
<1> QED BY <1>6, <1>7

\* The blocks a place touches are the same in both allocators.
SameJoin(B, p, q, e, i, j, f, d, E) ==
    /\ i = p /\ j = q /\ p <= Len(B)
    /\ f.addr = e.addr + d /\ e.addr <= Top(B)
    /\ q < Len(B) => f.size = e.size
    /\ q = Len(B) => End(e) = Unlimited /\ End(f) = E

\* The same place, d bytes higher, touches the same blocks.
LEMMA ShiftedJoins ==
  ASSUME NEW B \in Seq(Block), NEW C \in Seq(Block), NEW d \in Nat, NEW E \in Nat,
         Shifted(B, C, d, E), Ordered(B, 0, Unlimited), Top(B) + d < E,
         NEW ptr \in Nat, NEW size \in Nat \ {0}, ptr + size <= Top(B),
         NEW p, NEW q, NEW e, Joins(B, ptr, size, p, q, e),
         NEW i, NEW j, NEW f, Joins(C, ptr + d, size, i, j, f)
  PROVE  SameJoin(B, p, q, e, i, j, f, d, E)
<1>n. PICK n : n = Len(B)
  OBVIOUS
<1>0. /\ n \in Nat /\ n >= 1 /\ n \in 1..n /\ Len(C) = n
      /\ \A k \in 1..n : /\ B[k].addr \in Nat /\ B[k].size \in Nat
                         /\ C[k].addr \in Nat /\ C[k].size \in Nat
      /\ \A k \in 1..n : C[k].addr = B[k].addr + d
      /\ \A k \in 1..(n - 1) : C[k].size = B[k].size
      /\ End(B[n]) = Unlimited /\ End(C[n]) = E
      /\ Top(B) = B[n].addr
  BY <1>n, BlockFacts DEF Shifted, Top
<1>1. \A k \in 1..n : End(B[k]) \in Nat /\ End(C[k]) \in Nat
                      /\ B[k].addr <= End(B[k]) /\ C[k].addr <= End(C[k])
  <2> SUFFICES ASSUME NEW k \in 1..n
               PROVE  /\ End(B[k]) \in Nat /\ End(C[k]) \in Nat
                      /\ B[k].addr <= End(B[k]) /\ C[k].addr <= End(C[k])
    OBVIOUS
  <2>1. /\ B[k].addr \in Nat /\ B[k].size \in Nat
        /\ C[k].addr \in Nat /\ C[k].size \in Nat
    BY <1>0
  <2>2. PICK u \in Nat : u = B[k].addr
    BY <2>1
  <2>3. PICK v \in Nat : v = B[k].size
    BY <2>1
  <2>4. PICK w \in Nat : w = C[k].addr
    BY <2>1
  <2>5. PICK x \in Nat : x = C[k].size
    BY <2>1
  <2>6. End(B[k]) = u + v /\ End(C[k]) = w + x
    BY <2>2, <2>3, <2>4, <2>5 DEF End
  <2>7. u + v \in Nat /\ w + x \in Nat /\ u <= u + v /\ w <= w + x
    OBVIOUS
  <2> QED BY <2>2, <2>4, <2>6, <2>7
<1>2. \A k \in 1..(n - 1) : End(C[k]) = End(B[k]) + d
  <2> SUFFICES ASSUME NEW k \in 1..(n - 1) PROVE End(C[k]) = End(B[k]) + d
    OBVIOUS
  <2>1. k \in 1..n
    BY <1>0
  <2>2. /\ C[k].size = B[k].size /\ C[k].addr = B[k].addr + d
        /\ B[k].addr \in Nat /\ B[k].size \in Nat
    BY <1>0, <2>1
  <2> QED BY <2>2, SMTT(30) DEF End
<1>3. /\ p \in 1..(n + 1) /\ q \in (p - 1)..n
      /\ \A k \in 1..n : IF k < p THEN End(B[k]) < ptr ELSE End(B[k]) >= ptr
      /\ \A k \in 1..n : IF k > q THEN B[k].addr > ptr + size ELSE B[k].addr <= ptr + size
      /\ e.addr = IF p <= q /\ B[p].addr < ptr THEN B[p].addr ELSE ptr
      /\ End(e) = IF p <= q /\ End(B[q]) > ptr + size THEN End(B[q]) ELSE ptr + size
      /\ e.addr \in Nat /\ e.size \in Nat
  BY <1>n DEF Joins, Block
<1>4. /\ i \in 1..(n + 1) /\ j \in (i - 1)..n
      /\ \A k \in 1..n : IF k < i THEN End(C[k]) < ptr + d ELSE End(C[k]) >= ptr + d
      /\ \A k \in 1..n : IF k > j THEN C[k].addr > (ptr + d) + size
                                  ELSE C[k].addr <= (ptr + d) + size
      /\ f.addr = IF i <= j /\ C[i].addr < ptr + d THEN C[i].addr ELSE ptr + d
      /\ End(f) = IF i <= j /\ End(C[j]) > (ptr + d) + size THEN End(C[j]) ELSE (ptr + d) + size
      /\ f.addr \in Nat /\ f.size \in Nat
  BY <1>0 DEF Joins, Block
<1>5. ptr + size <= B[n].addr /\ (ptr + d) + size <= C[n].addr
  <2>1. B[n].addr \in Nat /\ C[n].addr = B[n].addr + d /\ ptr + size <= B[n].addr
    BY <1>0
  <2> QED BY <2>1
<1>6. End(B[n]) > ptr /\ End(C[n]) > ptr + d
  <2>1. B[n].addr <= End(B[n]) /\ C[n].addr <= End(C[n]) /\ End(B[n]) \in Nat /\ End(C[n]) \in Nat
        /\ B[n].addr \in Nat /\ C[n].addr \in Nat
    BY <1>0, <1>1
  <2> QED BY <1>5, <2>1, SMTT(30)
<1>7. p <= n /\ i <= n
  <2>1. ~(n < p)
    <3>1. ~(End(B[n]) < ptr)
      <4>1. End(B[n]) \in Nat
        BY <1>0, <1>1
      <4> QED BY <1>6, <4>1
    <3> QED BY <1>0, <1>3, <3>1
  <2>2. ~(n < i)
    <3>1. ~(End(C[n]) < ptr + d)
      <4>1. End(C[n]) \in Nat
        BY <1>0, <1>1
      <4> QED BY <1>6, <4>1
    <3> QED BY <1>0, <1>4, <3>1
  <2> QED BY <1>0, <1>3, <1>4, <2>1, <2>2
<1>8. \A k \in 1..n : End(B[k]) < ptr <=> End(C[k]) < ptr + d
  <2> SUFFICES ASSUME NEW k \in 1..n PROVE End(B[k]) < ptr <=> End(C[k]) < ptr + d
    OBVIOUS
  <2>1. End(B[k]) \in Nat /\ End(C[k]) \in Nat
    BY <1>1
  <2>2. CASE k = n
    BY <1>6, <2>1, <2>2
  <2>3. CASE k # n
    <3>1. k \in 1..(n - 1)
      BY <1>0, <2>3
    <3>2. End(C[k]) = End(B[k]) + d
      BY <1>2, <3>1
    <3> QED BY <2>1, <3>2
  <2> QED BY <2>2, <2>3
<1>9. i = p
  <2>0. p \in 1..n /\ i \in 1..n
    BY <1>0, <1>3, <1>4, <1>7
  <2>1. ~(p < i)
    <3>1. ~(End(B[p]) < ptr)
      <4>1. End(B[p]) \in Nat /\ End(B[p]) >= ptr
        BY <1>1, <1>3, <2>0
      <4> QED BY <4>1
    <3> QED BY <1>4, <1>8, <2>0, <3>1
  <2>2. ~(i < p)
    <3>1. ~(End(C[i]) < ptr + d)
      <4>1. End(C[i]) \in Nat /\ End(C[i]) >= ptr + d
        BY <1>1, <1>4, <2>0
      <4> QED BY <4>1
    <3> QED BY <1>3, <1>8, <2>0, <3>1
  <2> QED BY <2>0, <2>1, <2>2
<1>10. \A k \in 1..n : B[k].addr > ptr + size <=> C[k].addr > (ptr + d) + size
  <2> SUFFICES ASSUME NEW k \in 1..n
               PROVE  B[k].addr > ptr + size <=> C[k].addr > (ptr + d) + size
    OBVIOUS
  <2>1. B[k].addr \in Nat /\ C[k].addr = B[k].addr + d
    BY <1>0
  <2> QED BY <2>1
<1>11. j = q
  <2>0. q \in 0..n /\ j \in 0..n
    BY <1>0, <1>3, <1>4
  <2>1. ~(q < j)
    <3>1. ASSUME q < j PROVE FALSE
      <4>1. j \in 1..n
        BY <1>0, <2>0, <3>1
      <4>2. B[j].addr > ptr + size
        BY <1>3, <3>1, <4>1
      <4>3. C[j].addr <= (ptr + d) + size /\ C[j].addr \in Nat
        BY <1>0, <1>4, <2>0, <4>1
      <4>4. C[j].addr > (ptr + d) + size
        BY <1>10, <4>1, <4>2
      <4> QED BY <4>3, <4>4
    <3> QED BY <3>1
  <2>2. ~(j < q)
    <3>1. ASSUME j < q PROVE FALSE
      <4>1. q \in 1..n
        BY <1>0, <2>0, <3>1
      <4>2. C[q].addr > (ptr + d) + size
        BY <1>4, <3>1, <4>1
      <4>3. B[q].addr <= ptr + size /\ B[q].addr \in Nat
        BY <1>0, <1>3, <2>0, <4>1
      <4>4. B[q].addr > ptr + size
        BY <1>10, <4>1, <4>2
      <4> QED BY <4>3, <4>4
    <3> QED BY <3>1
  <2> QED BY <2>0, <2>1, <2>2
<1>12. p \in 1..n /\ B[p].addr \in Nat /\ C[p].addr = B[p].addr + d /\ q \in Int
  BY <1>0, <1>3, <1>7
<1>13. f.addr = e.addr + d
  BY <1>3, <1>4, <1>9, <1>11, <1>12, SMTT(30)
<1>14. e.addr <= Top(B)
  <2>1. B[n].addr \in Nat /\ Top(B) = B[n].addr
    BY <1>0
  <2>2. B[p].addr <= B[n].addr
    <3>1. CASE p = n
      BY <2>1, <3>1
    <3>2. CASE p # n
      <4>1. p < n
        BY <1>0, <1>7, <1>12, <3>2
      <4>2. End(B[p]) < B[n].addr
        BY <1>0, <1>12, <1>n, <4>1 DEF Ordered
      <4>3. B[p].addr <= End(B[p]) /\ End(B[p]) \in Nat
        BY <1>1, <1>12
      <4> QED BY <1>12, <2>1, <4>2, <4>3
    <3> QED BY <3>1, <3>2
  <2>3. ptr <= B[n].addr
    BY <1>5, <2>1
  <2> QED BY <1>3, <2>1, <2>2, <2>3
<1>15. ASSUME q < n PROVE f.size = e.size
  <2>1. e.addr + e.size = End(e) /\ f.addr + f.size = End(f)
    BY DEF End
  <2>a. PICK x : x = End(e)
    OBVIOUS
  <2>2. End(f) = End(e) + d
    <3>1. CASE p <= q
      <4>1. q \in 1..(n - 1) /\ q \in 1..n
        BY <1>0, <1>12, <1>15, <3>1, SMTT(30)
      <4>2. End(C[q]) = End(B[q]) + d /\ End(B[q]) \in Nat
        BY <1>1, <1>2, <4>1
      <4> QED BY <1>3, <1>4, <1>9, <1>11, <4>2
    <3>2. CASE ~(p <= q)
      BY <1>3, <1>4, <1>9, <1>11, <3>2
    <3> QED BY <3>1, <3>2
  <2>3. e.addr \in Nat /\ f.addr \in Nat /\ e.size \in Nat /\ f.size \in Nat
    BY <1>3, <1>4
  <2>4. PICK u \in Nat : u = e.addr
    BY <2>3
  <2>5. PICK v \in Nat : v = e.size
    BY <2>3
  <2>6. PICK w \in Nat : w = f.size
    BY <2>3
  <2>7. x = u + v /\ (u + d) + w = x + d
    BY <1>13, <2>a, <2>1, <2>2, <2>4, <2>5, <2>6
  <2>8. v = w
    BY <2>7
  <2> QED BY <2>5, <2>6, <2>8
<1>16. ASSUME q = n PROVE End(e) = Unlimited /\ End(f) = E
  <2>1. p <= q /\ i <= j /\ j = n
    BY <1>7, <1>9, <1>11, <1>16
  <2>2. /\ End(B[n]) \in Nat /\ End(C[n]) \in Nat /\ B[n].addr \in Nat /\ C[n].addr \in Nat
        /\ B[n].addr <= End(B[n]) /\ C[n].addr <= End(C[n])
    BY <1>0, <1>1
  <2>3. ptr + size <= End(B[n]) /\ (ptr + d) + size <= End(C[n])
    BY <1>5, <2>2, SMTT(30)
  <2>4. End(e) = End(B[n])
    <3>1. End(e) = IF End(B[n]) > ptr + size THEN End(B[n]) ELSE ptr + size
      BY <1>3, <1>16, <2>1
    <3>2. PICK x \in Nat : x = End(B[n])
      BY <2>2
    <3>3. PICK y \in Nat : y = ptr + size
      OBVIOUS
    <3>4. y <= x /\ End(e) = IF x > y THEN x ELSE y
      BY <2>3, <3>1, <3>2, <3>3
    <3>5. End(e) = x
      BY <3>4
    <3> QED BY <3>2, <3>5
  <2>5. End(f) = End(C[n])
    <3>1. End(f) = IF End(C[n]) > (ptr + d) + size THEN End(C[n]) ELSE (ptr + d) + size
      BY <1>4, <2>1
    <3>2. PICK x \in Nat : x = End(C[n])
      BY <2>2
    <3>3. PICK y \in Nat : y = (ptr + d) + size
      OBVIOUS
    <3>4. y <= x /\ End(f) = IF x > y THEN x ELSE y
      BY <2>3, <3>1, <3>2, <3>3
    <3>5. End(f) = x
      BY <3>4
    <3> QED BY <3>2, <3>5
  <2> QED BY <1>0, <2>4, <2>5
<1> QED BY <1>7, <1>9, <1>11, <1>13, <1>14, <1>15, <1>16, <1>n DEF SameJoin

\* The free lists stay alike when both join.
LEMMA ShiftedSpliced ==
  ASSUME NEW B \in Seq(Block), NEW C \in Seq(Block), NEW d \in Nat, NEW E \in Nat,
         Shifted(B, C, d, E),
         NEW p \in 1..Len(B), NEW q \in (p - 1)..Len(B), NEW e \in Block, NEW f \in Block,
         SameJoin(B, p, q, e, p, q, f, d, E)
  PROVE  /\ Shifted(Spliced(B, p, e, q), Spliced(C, p, f, q), d, E)
         /\ Top(Spliced(B, p, e, q)) <= Top(B)
<1>n. PICK n : n = Len(B)
  OBVIOUS
<1>g. PICK G : G = Spliced(B, p, e, q)
  OBVIOUS
<1>h. PICK H : H = Spliced(C, p, f, q)
  OBVIOUS
<1>m. PICK m : m = n - (q - p)
  OBVIOUS
<1>0. /\ n \in Nat /\ n >= 1 /\ n \in 1..n /\ Len(C) = n
      /\ \A k \in 1..n : /\ B[k].addr \in Nat /\ B[k].size \in Nat
                         /\ C[k].addr \in Nat /\ C[k].size \in Nat
      /\ \A k \in 1..n : C[k].addr = B[k].addr + d
      /\ \A k \in 1..(n - 1) : C[k].size = B[k].size
      /\ End(B[n]) = Unlimited /\ End(C[n]) = E
      /\ Top(B) = B[n].addr
  BY <1>n, BlockFacts DEF Shifted, Top
<1>1. /\ f.addr = e.addr + d /\ e.addr <= Top(B)
      /\ q < n => f.size = e.size
      /\ q = n => End(e) = Unlimited /\ End(f) = E
  BY <1>n DEF SameJoin
<1>2. p \in Int /\ q \in Int /\ 1 <= p /\ p <= n /\ p - 1 <= q /\ q <= n
  BY <1>0, <1>n
<1>3. m \in Nat /\ m >= 1 /\ m <= n + 1 /\ p <= m /\ (q = n <=> m = p)
  BY <1>0, <1>2, <1>m
<1>4. Len(G) = m /\ \A k \in 1..m : G[k] = IF k < p THEN B[k] ELSE IF k = p THEN e ELSE B[k + (q - p)]
  <2>1. p \in 1..(Len(B) + 1) /\ q \in (p - 1)..Len(B)
    BY <1>0, <1>n, <1>2
  <2>2. LET S == Spliced(B, p, e, q) IN
        /\ Len(S) = Len(B) - (q - p)
        /\ \A k \in 1..Len(S) : S[k] = IF k < p THEN B[k] ELSE IF k = p THEN e
                                       ELSE B[k + (q - p)]
    BY <2>1, SpliceFacts
  <2> QED BY <1>g, <1>m, <1>n, <2>2
<1>5. Len(H) = m /\ \A k \in 1..m : H[k] = IF k < p THEN C[k] ELSE IF k = p THEN f ELSE C[k + (q - p)]
  <2>1. p \in 1..(Len(C) + 1) /\ q \in (p - 1)..Len(C)
    BY <1>0, <1>2
  <2>2. LET S == Spliced(C, p, f, q) IN
        /\ Len(S) = Len(C) - (q - p)
        /\ \A k \in 1..Len(S) : S[k] = IF k < p THEN C[k] ELSE IF k = p THEN f
                                       ELSE C[k + (q - p)]
    BY <2>1, SpliceFacts, SMTT(60)
  <2>3. Len(C) = n
    BY <1>0
  <2> QED BY <1>h, <1>m, <2>2, <2>3
<1>6. \A k \in 1..m : H[k].addr = G[k].addr + d
  <2> SUFFICES ASSUME NEW k \in 1..m PROVE H[k].addr = G[k].addr + d
    OBVIOUS
  <2>1. CASE k < p
    <3>1. k \in 1..n
      BY <1>0, <1>2, <1>3, <2>1
    <3> QED BY <1>0, <1>4, <1>5, <2>1, <3>1
  <2>2. CASE k = p
    <3>1. G[k] = e /\ H[k] = f
      BY <1>2, <1>4, <1>5, <2>2
    <3> QED BY <1>1, <3>1
  <2>3. CASE k > p
    <3>1. k + (q - p) \in 1..n /\ ~(k < p) /\ k # p
      BY <1>0, <1>2, <1>3, <1>m, <2>3
    <3>2. G[k] = B[k + (q - p)] /\ H[k] = C[k + (q - p)]
      BY <1>4, <1>5, <3>1
    <3>3. \A x \in 1..n : C[x].addr = B[x].addr + d
      BY <1>0
    <3> QED BY <3>1, <3>2, <3>3
  <2> QED BY <1>2, <1>3, <2>1, <2>2, <2>3
<1>7. \A k \in 1..(m - 1) : H[k].size = G[k].size
  <2> SUFFICES ASSUME NEW k \in 1..(m - 1) PROVE H[k].size = G[k].size
    OBVIOUS
  <2>0. k \in 1..m /\ k < m
    BY <1>3
  <2>1. CASE k < p
    <3>1. k \in 1..(n - 1)
      BY <1>0, <1>2, <1>3, <2>1
    <3> QED BY <1>0, <1>4, <1>5, <2>0, <2>1, <3>1
  <2>2. CASE k = p
    <3>1. G[k] = e /\ H[k] = f
      BY <1>2, <1>4, <1>5, <2>0, <2>2
    <3>2. q < n
      BY <1>0, <1>2, <1>3, <1>m, <2>0, <2>2
    <3> QED BY <1>1, <3>1, <3>2
  <2>3. CASE k > p
    <3>1. k + (q - p) \in 1..(n - 1) /\ ~(k < p) /\ k # p
      BY <1>0, <1>2, <1>3, <1>m, <2>0, <2>3
    <3>2. G[k] = B[k + (q - p)] /\ H[k] = C[k + (q - p)]
      BY <1>4, <1>5, <2>0, <3>1
    <3>3. \A x \in 1..(n - 1) : C[x].size = B[x].size
      BY <1>0
    <3> QED BY <3>1, <3>2, <3>3
  <2> QED BY <1>2, <1>3, <2>1, <2>2, <2>3
<1>8. End(G[m]) = Unlimited /\ End(H[m]) = E /\ G[m].addr <= Top(B)
  <2>1. CASE q = n
    <3>1. m = p /\ m \in 1..m
      BY <1>3, <2>1
    <3>2. G[m] = e /\ H[m] = f
      BY <1>2, <1>4, <1>5, <3>1
    <3> QED BY <1>1, <2>1, <3>2
  <2>2. CASE q # n
    <3>1. m > p /\ m \in 1..m /\ m + (q - p) = n
      BY <1>2, <1>3, <1>m, <1>0, <2>2
    <3>2. G[m] = B[n] /\ H[m] = C[n]
      <4>1. ~(m < p) /\ m # p
        BY <1>2, <1>3, <3>1
      <4>2. G[m] = B[m + (q - p)] /\ H[m] = C[m + (q - p)]
        BY <1>4, <1>5, <3>1, <4>1
      <4> QED BY <3>1, <4>2
    <3>3. B[n].addr <= Top(B)
      <4>1. B[n].addr \in Nat
        BY <1>0
      <4> QED BY <1>0, <4>1
    <3> QED BY <1>0, <3>2, <3>3
  <2> QED BY <2>1, <2>2
<1>9. Shifted(G, H, d, E)
  BY <1>3, <1>4, <1>5, <1>6, <1>7, <1>8 DEF Shifted
<1>10. Top(G) <= Top(B)
  BY <1>4, <1>8 DEF Top
<1> QED BY <1>9, <1>10, <1>g, <1>h

\* Both allocators took the same step; the measuring one needed so much more.
SimStep(m, c, x, d, E, more) ==
    /\ Sim(c, x, d, E)
    /\ m.max_size <= c.max_size
    /\ Top(c.blocks) <= Top(m.blocks) + more

\* Both allocators give a tensor the same place.
LEMMA SimAlloc ==
  ASSUME GraphInv, NEW m, NEW r, NEW d \in Nat, NEW E \in Nat, Sim(m, r, d, E),
         Ordered(m.blocks, 0, Unlimited), NEW t \in Tensors,
         NEW c, c = Alloc(m, t), c.failed = FALSE, NEW x, x = Alloc(r, t),
         Top(m.blocks) + AllocSize(t) < Unlimited, c.max_size + d < E
  PROVE  SimStep(m, c, x, d, E, AllocSize(t))
<1>a. PICK size : size = AllocSize(t)
  OBVIOUS
<1>b. PICK B : B = m.blocks
  OBVIOUS
<1>c. PICK C : C = r.blocks
  OBVIOUS
<1>k. PICK k : k = BestFit(m, size)
  OBVIOUS
<1>n. PICK n : n = Len(B)
  OBVIOUS
<1>0. /\ Typed(m) /\ Typed(r) /\ m.failed = FALSE /\ r.failed = FALSE
      /\ Shifted(B, C, d, E) /\ Top(B) <= m.max_size
      /\ r.view_src = m.view_src /\ r.n_children = m.n_children /\ r.n_views = m.n_views
      /\ \A u \in Tensors : r.data[u] = IF IsOwn(m, u) THEN m.data[u] + d ELSE m.data[u]
  BY <1>b, <1>c DEF Sim
<1>1. /\ Fields(m) /\ B \in Seq(Block) /\ m.data \in [Tensors -> Int] /\ m.max_size \in Nat
      /\ Fields(r) /\ C \in Seq(Block) /\ r.data \in [Tensors -> Int] /\ r.max_size \in Nat
  BY <1>0, <1>b, <1>c DEF Typed
<1>2. size \in Nat \ {0}
  BY <1>a, GraphFacts
<1>3. /\ n \in Nat /\ n >= 1 /\ Len(C) = n
      /\ \A j \in 1..n : /\ B[j].addr \in Nat /\ B[j].size \in Nat /\ C[j].addr = B[j].addr + d
      /\ \A j \in 1..(n - 1) : C[j].size = B[j].size
      /\ Top(B) = B[n].addr
  BY <1>0, <1>1, <1>n, BlockFacts DEF Shifted, Top
<1>4. k = BestFit(r, size)
  <2>1. Len(m.blocks) = Len(r.blocks) /\ \A j \in 1..(Len(m.blocks) - 1) : m.blocks[j].size = r.blocks[j].size
    BY <1>3, <1>b, <1>c, <1>n
  <2> QED BY <1>k, <2>1, BestFitSame
<1>5. AllocEffect(m, t, size, k, c) /\ AllocEffect(r, t, size, k, x)
  BY <1>a, <1>k, <1>1, <1>4, AllocForm
<1>6. ~NoRoom(m, size)
  BY <1>5 DEF AllocEffect
<1>7. k \in 1..n /\ size <= B[k].size
  <2>1. Len(m.blocks) > 0 => k \in 1..Len(m.blocks)
    BY <1>1, <1>2, <1>b, <1>k, BestFitIn
  <2>2. k \in 1..n
    BY <1>3, <1>b, <1>n, <2>1
  <2>3. ~(B[k].size < size)
    BY <1>6, <1>b, <1>k DEF NoRoom
  <2> QED BY <1>2, <1>3, <2>2, <2>3
<1>8. /\ c.blocks = Taken(B, k, size)
      /\ c.data = [m.data EXCEPT ![t] = B[k].addr]
      /\ c.max_size = Max({m.max_size, B[k].addr + size})
      /\ c.view_src = m.view_src /\ c.n_children = m.n_children /\ c.n_views = m.n_views
  BY <1>5, <1>6, <1>b DEF AllocEffect
<1>9. m.max_size <= c.max_size /\ B[k].addr + size <= c.max_size /\ c.max_size \in Nat
  <2>1. B[k].addr \in Nat
    BY <1>3, <1>7
  <2>2. PICK y \in Nat : y = B[k].addr + size
    BY <1>2, <2>1
  <2>3. Max({m.max_size, y}) = IF m.max_size >= y THEN m.max_size ELSE y
    BY <1>1, MaxMinOfTwo
  <2>4. c.max_size = IF m.max_size >= y THEN m.max_size ELSE y
    BY <1>8, <2>2, <2>3
  <2> QED BY <1>1, <2>2, <2>4
<1>10. /\ size <= C[k].size
       /\ Shifted(Taken(B, k, size), Taken(C, k, size), d, E)
       /\ Top(Taken(B, k, size)) = IF k = Len(B) THEN Top(B) + size ELSE Top(B)
  <2>1. k = Len(B) => Top(B) + size < Unlimited /\ Top(B) + size + d < E
    <3> SUFFICES ASSUME k = n PROVE Top(B) + size < Unlimited /\ Top(B) + size + d < E
      BY <1>n
    <3>1. PICK y \in Nat : y = B[n].addr
      BY <1>3, <1>7
    <3>2. y + size <= c.max_size /\ c.max_size + d < E
      BY <1>9, <3>1
    <3>3. y + size + d < E
      BY <1>2, <1>9, <3>2
    <3> QED BY <1>3, <1>a, <1>b, <3>1, <3>3
  <2> QED BY <1>0, <1>1, <1>2, <1>7, <1>n, <2>1, ShiftedTaken
<1>11. ~NoRoom(r, size)
  <2>0. k \in 1..Len(C)
    BY <1>3, <1>7
  <2>1. C[k].size \in Nat /\ k # 0
    BY <1>1, <2>0, BlockFacts
  <2> QED BY <1>2, <1>4, <1>10, <1>c, <2>1 DEF NoRoom
<1>12. /\ x.failed = FALSE
       /\ x.blocks = Taken(C, k, size)
       /\ x.data = [r.data EXCEPT ![t] = C[k].addr]
       /\ x.view_src = r.view_src /\ x.n_children = r.n_children /\ x.n_views = r.n_views
  BY <1>0, <1>5, <1>11, <1>c DEF AllocEffect
<1>13. Typed(c)
  <2>1. Found(m, c, t, 0, Unlimited)
    <3>1. Unlimited \in Nat /\ 0 \in Nat
      BY AllocAssumptionHolds DEF AllocAssumption
    <3> QED BY <1>0, <3>1, AllocPlace
  <2> QED BY <2>1 DEF Found
<1>14. Typed(x)
  <2>1. Ordered(r.blocks, 0, E)
    <3>1. Top(B) + d < E
      <4>1. Top(B) \in Nat
        BY <1>3
      <4> QED BY <1>0, <1>1, <1>9, <4>1
    <3> QED BY <1>0, <1>1, <1>b, <1>c, <3>1, ShiftedOrder
  <2>2. Found(r, x, t, 0, E)
    <3>1. 0 \in Nat
      OBVIOUS
    <3> QED BY <1>0, <1>12, <2>1, <3>1, AllocPlace
  <2> QED BY <2>2 DEF Found
<1>15. \A u \in Tensors : x.data[u] = IF IsOwn(c, u) THEN c.data[u] + d ELSE c.data[u]
  <2> SUFFICES ASSUME NEW u \in Tensors
               PROVE  x.data[u] = IF IsOwn(c, u) THEN c.data[u] + d ELSE c.data[u]
    OBVIOUS
  <2>1. CASE u = t
    <3>1. c.data[u] = B[k].addr /\ x.data[u] = C[k].addr
      BY <1>1, <1>8, <1>12, <2>1
    <3>2. B[k].addr \in Nat /\ C[k].addr = B[k].addr + d
      BY <1>3, <1>7
    <3> QED BY <3>1, <3>2 DEF IsOwn
  <2>2. CASE u # t
    <3>1. c.data[u] = m.data[u] /\ x.data[u] = r.data[u]
      BY <1>1, <1>8, <1>12, <2>2
    <3> QED BY <1>0, <3>1 DEF IsOwn
  <2> QED BY <2>1, <2>2
<1>16. Top(c.blocks) <= Top(m.blocks) + AllocSize(t) /\ Top(c.blocks) <= c.max_size
  <2>1. Top(B) \in Nat
    BY <1>3, <1>7
  <2>2. Top(c.blocks) = IF k = n THEN Top(B) + size ELSE Top(B)
    BY <1>8, <1>10, <1>n
  <2>3. k = n => B[k].addr = Top(B)
    BY <1>3
  <2> QED BY <1>0, <1>1, <1>2, <1>9, <1>a, <1>b, <2>1, <2>2, <2>3, SMTT(30)
<1>17. Sim(c, x, d, E)
  <2>1. Shifted(c.blocks, x.blocks, d, E)
    BY <1>8, <1>10, <1>12
  <2>2. x.view_src = c.view_src /\ x.n_children = c.n_children /\ x.n_views = c.n_views
    BY <1>0, <1>8, <1>12
  <2> QED BY <1>12, <1>13, <1>14, <1>15, <1>16, <2>1, <2>2, Zenon DEF Sim
<1> QED BY <1>9, <1>16, <1>17, Zenon DEF SimStep

\* Memory given back in both.
LEMMA SimFree ==
  ASSUME GraphInv, NEW m, NEW r, NEW d \in Nat, NEW E \in Nat, Sim(m, r, d, E),
         Ordered(m.blocks, 0, Unlimited), NEW f \in Tensors, Fits(m, f, Unlimited),
         NEW c, c = FreeTensor(m, f), c.failed = FALSE, NEW x, x = FreeTensor(r, f),
         m.max_size + d < E
  PROVE  SimStep(m, c, x, d, E, 0)
<1>b. PICK B : B = m.blocks
  OBVIOUS
<1>c. PICK C : C = r.blocks
  OBVIOUS
<1>0. /\ Typed(m) /\ Typed(r) /\ m.failed = FALSE /\ r.failed = FALSE
      /\ Shifted(B, C, d, E) /\ Top(B) <= m.max_size
      /\ r.view_src = m.view_src /\ r.n_children = m.n_children /\ r.n_views = m.n_views
      /\ \A u \in Tensors : r.data[u] = IF IsOwn(m, u) THEN m.data[u] + d ELSE m.data[u]
  BY <1>b, <1>c DEF Sim
<1>1. /\ Fields(m) /\ B \in Seq(Block) /\ m.data \in [Tensors -> Int] /\ m.max_size \in Nat
      /\ Fields(r) /\ C \in Seq(Block) /\ r.data \in [Tensors -> Int] /\ r.max_size \in Nat
  BY <1>0, <1>b, <1>c DEF Typed
<1>2. Len(B) \in Nat /\ Len(B) >= 1 /\ Len(C) = Len(B) /\ Top(B) \in Nat
  <2>1. Len(B) \in Nat /\ Len(B) >= 1 /\ Len(C) = Len(B)
    BY <1>0, <1>1, BlockFacts DEF Shifted
  <2>2. Len(B) \in 1..Len(B)
    BY <2>1
  <2> QED BY <1>1, <2>1, <2>2, BlockFacts DEF Top
<1>3. Top(B) + d < E
  BY <1>0, <1>1, <1>2
<1>4. CASE ~IsOwn(m, f)
  <2>1. ~IsOwn(r, f)
    BY <1>0, <1>4 DEF IsOwn
  <2>2. c = m /\ x = r
    BY <1>4, <2>1 DEF FreeTensor
  <2>3. m.max_size <= m.max_size /\ Top(m.blocks) <= Top(m.blocks) + 0
    BY <1>1, <1>2, <1>b
  <2> QED BY <2>2, <2>3 DEF SimStep
<1>5. CASE IsOwn(m, f)
  <2>a. PICK ptr \in Nat : ptr = m.data[f]
    BY <1>0, <1>5, OwnFacts
  <2>b. PICK size \in Nat \ {0} : size = AllocSize(f)
    BY GraphFacts
  <2>1. Clear(B, ptr, ptr + size) /\ ptr + size <= Unlimited
    BY <1>5, <1>b, <2>a, <2>b DEF Fits, AEnd
  <2>2. /\ Ordered(C, 0, E) /\ Ordered(B, 0, Unlimited)
        /\ \A u, v \in Nat : u < v /\ v <= Unlimited /\ Clear(B, u, v) =>
              v <= Top(B) /\ Clear(C, u + d, v + d)
    BY <1>0, <1>1, <1>3, <1>b, ShiftedOrder
  <2>3. ptr + size <= Top(B) /\ Clear(C, ptr + d, (ptr + d) + size)
    <3>1. ptr + size \in Nat /\ ptr < ptr + size /\ (ptr + size) + d = (ptr + d) + size
      OBVIOUS
    <3> QED BY <2>1, <2>2, <3>1
  <2>4. r.data[f] = ptr + d /\ IsOwn(r, f)
    BY <1>0, <1>5, <2>a DEF IsOwn
  <2>5. FreeEffect(m, ptr, size, c)
    <3>1. m.data[f] \in Nat /\ AllocSize(f) \in Nat \ {0} /\ 0 \in Nat /\ Unlimited \in Nat
      BY <2>a, <2>b, AllocAssumptionHolds DEF AllocAssumption
    <3>2. Ordered(m.blocks, 0, Unlimited) /\ Clear(m.blocks, m.data[f], m.data[f] + AllocSize(f))
          /\ m.blocks \in Seq(Block)
      BY <1>1, <1>b, <2>1, <2>a, <2>b
    <3> QED BY <1>1, <1>5, <2>a, <2>b, <3>1, <3>2, FreeForm
  <2>6. FreeEffect(r, ptr + d, size, x)
    <3>1. r.data[f] \in Nat /\ AllocSize(f) \in Nat \ {0} /\ 0 \in Nat
      BY <2>4, <2>b
    <3>2. Ordered(r.blocks, 0, E) /\ Clear(r.blocks, r.data[f], r.data[f] + AllocSize(f))
          /\ r.blocks \in Seq(Block)
      BY <1>1, <1>c, <2>2, <2>3, <2>4, <2>b
    <3> QED BY <1>1, <2>4, <2>b, <3>1, <3>2, FreeForm
  <2>7. PICK p, q, e :
           /\ Joins(B, ptr, size, p, q, e)
           /\ q < p /\ Len(B) >= MaxBlocks => c.failed = TRUE /\ c.blocks = B
           /\ ~(q < p /\ Len(B) >= MaxBlocks) =>
                c.failed = m.failed /\ c.blocks = Spliced(B, p, e, q)
    BY <2>5, <1>b DEF FreeEffect
  <2>8. PICK i, j, g :
           /\ Joins(C, ptr + d, size, i, j, g)
           /\ j < i /\ Len(C) >= MaxBlocks => x.failed = TRUE /\ x.blocks = C
           /\ ~(j < i /\ Len(C) >= MaxBlocks) =>
                x.failed = r.failed /\ x.blocks = Spliced(C, i, g, j)
    BY <2>6, <1>c DEF FreeEffect
  <2>9. SameJoin(B, p, q, e, i, j, g, d, E)
    BY <1>0, <1>1, <1>3, <2>2, <2>3, <2>7, <2>8, ShiftedJoins
  <2>10. i = p /\ j = q /\ p <= Len(B)
    BY <2>9 DEF SameJoin
  <2>11. c.failed = FALSE /\ c.blocks = Spliced(B, p, e, q)
    BY <2>7
  <2>12. x.failed = FALSE /\ x.blocks = Spliced(C, p, g, q)
    BY <1>0, <1>2, <2>7, <2>8, <2>10
  <2>13. /\ c.view_src = m.view_src /\ c.n_children = m.n_children /\ c.n_views = m.n_views
         /\ c.data = m.data /\ c.max_size = m.max_size /\ Fields(c)
         /\ x.view_src = r.view_src /\ x.n_children = r.n_children /\ x.n_views = r.n_views
         /\ x.data = r.data /\ x.max_size = r.max_size /\ Fields(x)
    BY <2>5, <2>6 DEF FreeEffect
  <2>14. p \in 1..Len(B) /\ q \in (p - 1)..Len(B) /\ e \in Block /\ g \in Block
    BY <1>2, <2>7, <2>8, <2>10 DEF Joins
  <2>15. /\ Shifted(Spliced(B, p, e, q), Spliced(C, p, g, q), d, E)
         /\ Top(Spliced(B, p, e, q)) <= Top(B)
    BY <1>0, <1>1, <2>9, <2>10, <2>14, ShiftedSpliced
  <2>16. c.blocks \in Seq(Block) /\ x.blocks \in Seq(Block)
    <3>1. p \in 1..(Len(B) + 1)
      BY <1>2, <2>14
    <3>2. Spliced(B, p, e, q) \in Seq(Block)
      BY <1>1, <2>14, <3>1, SpliceFacts
    <3>3. p \in 1..(Len(C) + 1) /\ q \in (p - 1)..Len(C)
      BY <1>2, <2>14, <3>1
    <3>4. Spliced(C, p, g, q) \in Seq(Block)
      BY <1>1, <2>14, <3>3, SpliceFacts
    <3> QED BY <2>11, <2>12, <3>2, <3>4
  <2>17. Typed(c)
    <3>1. /\ c.view_src \in [Tensors -> Nat] /\ c.n_children \in [Tensors -> Int]
          /\ c.n_views \in [Tensors -> Int] /\ c.data \in [Tensors -> Int]
          /\ c.failed \in BOOLEAN /\ c.max_size \in Nat
      BY <1>0, <2>11, <2>13 DEF Typed
    <3> QED BY <2>13, <2>16, <3>1, Zenon DEF Typed
  <2>18. Typed(x)
    <3>1. /\ x.view_src \in [Tensors -> Nat] /\ x.n_children \in [Tensors -> Int]
          /\ x.n_views \in [Tensors -> Int] /\ x.data \in [Tensors -> Int]
          /\ x.failed \in BOOLEAN /\ x.max_size \in Nat
      BY <1>0, <2>12, <2>13 DEF Typed
    <3> QED BY <2>13, <2>16, <3>1, Zenon DEF Typed
  <2>19. Top(c.blocks) <= Top(m.blocks) + 0 /\ Top(c.blocks) <= c.max_size /\ m.max_size <= c.max_size
    <3>1. Top(c.blocks) <= Top(B)
      BY <2>11, <2>15
    <3>2. Top(c.blocks) \in Int
      <4>1. Len(c.blocks) \in Nat /\ Len(c.blocks) >= 1
        BY <2>11, <2>15, <2>16, BlockFacts DEF Shifted
      <4>2. Len(c.blocks) \in 1..Len(c.blocks)
        BY <4>1
      <4> QED BY <2>16, <4>2, BlockFacts DEF Top
    <3> QED BY <1>0, <1>1, <1>2, <1>b, <2>13, <3>1, <3>2
  <2>20. \A u \in Tensors : x.data[u] = IF IsOwn(c, u) THEN c.data[u] + d ELSE c.data[u]
    BY <1>0, <2>13 DEF IsOwn
  <2>21. Sim(c, x, d, E)
    <3>1. Shifted(c.blocks, x.blocks, d, E)
      BY <2>11, <2>12, <2>15
    <3>2. x.view_src = c.view_src /\ x.n_children = c.n_children /\ x.n_views = c.n_views
      BY <1>0, <2>13
    <3> QED BY <2>11, <2>12, <2>17, <2>18, <2>19, <2>20, <3>1, <3>2, Zenon DEF Sim
  <2> QED BY <2>19, <2>21, Zenon DEF SimStep
<1> QED BY <1>4, <1>5

\* They stay alike when the same counts change.
LEMMA SimCounts ==
  ASSUME NEW m, NEW r, NEW d, NEW E, Sim(m, r, d, E), NEW c, NEW x, Typed(c), Typed(x),
         c.failed = m.failed, c.blocks = m.blocks, c.data = m.data, c.max_size = m.max_size,
         x.failed = r.failed, x.blocks = r.blocks, x.data = r.data, x.view_src = c.view_src,
         x.n_children = c.n_children, x.n_views = c.n_views
  PROVE  Sim(c, x, d, E)
<1>1. /\ m.failed = FALSE /\ r.failed = FALSE
      /\ Shifted(m.blocks, r.blocks, d, E) /\ Top(m.blocks) <= m.max_size
      /\ \A u \in Tensors : r.data[u] = IF IsOwn(m, u) THEN m.data[u] + d ELSE m.data[u]
  BY DEF Sim
<1>2. \A u \in Tensors : x.data[u] = IF IsOwn(c, u) THEN c.data[u] + d ELSE c.data[u]
  BY <1>1 DEF IsOwn
<1>3. /\ c.failed = FALSE /\ x.failed = FALSE /\ Shifted(c.blocks, x.blocks, d, E)
      /\ Top(c.blocks) <= c.max_size
  BY <1>1
<1> QED BY <1>2, <1>3, Zenon DEF Sim

\* What Release does, in the cases of the code.
LEMMA ReleaseForm ==
  ASSUME NEW a, NEW p, NEW b, b = Dropped(a, p), NEW u, u = Unviewed(a, p),
         NEW v, v = a.view_src[p]
  PROVE  /\ b.n_children[p] # 0 \/ b.n_views[p] # 0 => Release(a, p) = b
         /\ b.n_children[p] = 0 /\ b.n_views[p] = 0 /\ v = None => Release(a, p) = FreeTensor(b, p)
         /\ b.n_children[p] = 0 /\ b.n_views[p] = 0 /\ v # None =>
              /\ u.n_views[v] = 0 /\ u.n_children[v] = 0 => Release(a, p) = FreeTensor(u, v)
              /\ ~(u.n_views[v] = 0 /\ u.n_children[v] = 0) => Release(a, p) = u
BY DEF Release, Dropped, Unviewed

\* Both release a source alike.
LEMMA SimRelease ==
  ASSUME GraphInv, NEW m, NEW r, NEW d \in Nat, NEW E \in Nat, Sim(m, r, d, E),
         NEW p, Releasable(m, p, 0, Unlimited), m.max_size + d < E,
         NEW c, c = Release(m, p), c.failed = FALSE, NEW x, x = Release(r, p)
  PROVE  SimStep(m, c, x, d, E, 0)
<1>a. PICK b : b = Dropped(m, p)
  OBVIOUS
<1>b. PICK f : f = Dropped(r, p)
  OBVIOUS
<1>c. PICK u : u = Unviewed(m, p)
  OBVIOUS
<1>d. PICK g : g = Unviewed(r, p)
  OBVIOUS
<1>e. PICK v : v = m.view_src[p]
  OBVIOUS
<1>0. /\ Typed(m) /\ Typed(r) /\ m.failed = FALSE /\ r.failed = FALSE
      /\ Shifted(m.blocks, r.blocks, d, E)
      /\ r.view_src = m.view_src /\ r.n_children = m.n_children /\ r.n_views = m.n_views
  BY DEF Sim
<1>1. /\ p \in Tensors /\ Region(m, p) \in Tensors /\ Ordered(m.blocks, 0, Unlimited)
      /\ ~Guarded(m, p) => Fits(m, Region(m, p), Unlimited)
  BY DEF Releasable
<1>2. v = r.view_src[p]
  BY <1>0, <1>e
<1>3. /\ Typed(b) /\ b.failed = m.failed /\ b.blocks = m.blocks /\ b.data = m.data
      /\ b.view_src = m.view_src /\ b.n_views = m.n_views /\ b.max_size = m.max_size
  BY <1>0, <1>1, <1>a, DroppedFields
<1>4. /\ Typed(f) /\ f.failed = r.failed /\ f.blocks = r.blocks /\ f.data = r.data
      /\ f.view_src = r.view_src /\ f.n_views = r.n_views /\ f.max_size = r.max_size
  BY <1>0, <1>1, <1>b, DroppedFields
<1>5. f.n_children = b.n_children /\ f.n_views = b.n_views
  <2>1. f.n_children = [r.n_children EXCEPT ![p] = @ - 1]
    BY <1>0, <1>b DEF Dropped, Typed, Fields
  <2>2. b.n_children = [m.n_children EXCEPT ![p] = @ - 1]
    BY <1>0, <1>a DEF Dropped, Typed, Fields
  <2> QED BY <1>0, <1>3, <1>4, <2>1, <2>2
<1>6. Sim(b, f, d, E)
  BY <1>0, <1>3, <1>4, <1>5, SimCounts
<1>7. ASSUME v # None
      PROVE  /\ v \in Tensors /\ v = Region(m, p)
             /\ Typed(u) /\ u.failed = m.failed /\ u.blocks = m.blocks /\ u.data = m.data
             /\ u.view_src = m.view_src /\ u.max_size = m.max_size
             /\ u.n_views[v] = m.n_views[v] - 1
             /\ g.n_children = u.n_children /\ g.n_views = u.n_views
             /\ Sim(u, g, d, E)
  <2>1. v \in Tensors /\ v = Region(m, p)
    BY <1>1, <1>7, <1>e DEF Region
  <2>2. /\ Typed(u) /\ u.failed = m.failed /\ u.blocks = m.blocks /\ u.data = m.data
        /\ u.view_src = m.view_src /\ u.n_children = Dropped(m, p).n_children
        /\ u.max_size = m.max_size
        /\ u.n_views[m.view_src[p]] = m.n_views[m.view_src[p]] - 1
    <3>1. m.view_src[p] \in Tensors
      BY <2>1, <1>e
    <3> QED BY <1>0, <1>1, <1>c, <3>1, UnviewedFields
  <2>3. /\ Typed(g) /\ g.failed = r.failed /\ g.blocks = r.blocks /\ g.data = r.data
        /\ g.view_src = r.view_src /\ g.n_children = Dropped(r, p).n_children
        /\ g.max_size = r.max_size
    <3>1. r.view_src[p] \in Tensors
      BY <1>2, <2>1
    <3> QED BY <1>0, <1>1, <1>d, <3>1, UnviewedFields
  <2>4. g.n_views = u.n_views
    <3>1. u.n_views = [b.n_views EXCEPT ![m.view_src[p]] = @ - 1]
      BY <1>3, <1>a, <1>c DEF Unviewed, Typed, Fields
    <3>2. g.n_views = [f.n_views EXCEPT ![r.view_src[p]] = @ - 1]
      BY <1>4, <1>b, <1>d DEF Unviewed, Typed, Fields
    <3> QED BY <1>0, <1>3, <1>4, <3>1, <3>2
  <2>5. g.n_children = u.n_children
    BY <1>5, <1>a, <1>b, <2>2, <2>3
  <2>6. Sim(u, g, d, E)
    BY <1>0, <2>2, <2>3, <2>4, <2>5, SimCounts
  <2> QED BY <1>e, <2>1, <2>2, <2>4, <2>5, <2>6
<1>8. m.max_size <= m.max_size /\ Top(m.blocks) <= Top(m.blocks) + 0
  <2>1. m.max_size \in Nat /\ m.blocks \in Seq(Block)
    BY <1>0 DEF Typed
  <2>2. Len(m.blocks) \in Nat /\ Len(m.blocks) >= 1
    BY <1>0, <2>1, BlockFacts DEF Shifted
  <2>3. Len(m.blocks) \in 1..Len(m.blocks)
    BY <2>2
  <2>4. Top(m.blocks) \in Nat
    BY <2>1, <2>3, BlockFacts DEF Top
  <2> QED BY <2>1, <2>4
<1>9. CASE b.n_children[p] # 0 \/ b.n_views[p] # 0
  <2>1. c = b
    BY <1>9, <1>a, <1>c, <1>e, ReleaseForm
  <2>2. x = f
    BY <1>2, <1>5, <1>9, <1>b, <1>d, ReleaseForm
  <2> QED BY <1>3, <1>6, <1>8, <2>1, <2>2 DEF SimStep
<1>10. CASE b.n_children[p] = 0 /\ b.n_views[p] = 0 /\ v = None
  <2>1. c = FreeTensor(b, p)
    BY <1>10, <1>a, <1>c, <1>e, ReleaseForm
  <2>2. x = FreeTensor(f, p)
    <3>1. f.n_children[p] = 0 /\ f.n_views[p] = 0
      BY <1>5, <1>10
    <3>2. /\ f.n_children[p] = 0 /\ f.n_views[p] = 0 /\ v = None
             => Release(r, p) = FreeTensor(f, p)
      BY <1>2, <1>b, <1>d, ReleaseForm
    <3> QED BY <1>10, <3>1, <3>2
  <2>3. Fits(m, p, Unlimited)
    <3>1. ~Guarded(m, p) /\ p = Region(m, p)
      BY <1>3, <1>10, <1>e DEF Guarded, Region
    <3> QED BY <1>1, <3>1
  <2>4. Fits(b, p, Unlimited)
    BY <1>3, <2>3 DEF Fits, IsOwn, AEnd
  <2>5. SimStep(b, c, x, d, E, 0)
    BY <1>1, <1>3, <1>6, <2>1, <2>2, <2>4, SimFree
  <2> QED BY <1>3, <2>5 DEF SimStep
<1>11. CASE b.n_children[p] = 0 /\ b.n_views[p] = 0 /\ v # None /\ u.n_views[v] = 0 /\ u.n_children[v] = 0
  <2>1. c = FreeTensor(u, v)
    BY <1>11, <1>a, <1>c, <1>e, ReleaseForm
  <2>2. x = FreeTensor(g, v)
    <3>1. g.n_views[v] = 0 /\ g.n_children[v] = 0 /\ f.n_children[p] = 0 /\ f.n_views[p] = 0
      BY <1>5, <1>7, <1>11
    <3> QED BY <1>2, <1>11, <3>1, <1>b, <1>d, ReleaseForm
  <2>3. Fits(m, v, Unlimited)
    <3>1. m.n_views[v] \in Int /\ m.n_views[v] - 1 = 0
      BY <1>0, <1>7, <1>11, TypedFacts
    <3>2. ~(m.n_views[v] > 1)
      BY <3>1
    <3>3. ~Guarded(m, p)
      BY <1>11, <1>e, <3>2 DEF Guarded
    <3> QED BY <1>1, <1>7, <1>11, <3>3
  <2>4. Fits(u, v, Unlimited)
    BY <1>7, <1>11, <2>3 DEF Fits, IsOwn, AEnd
  <2>5. SimStep(u, c, x, d, E, 0)
    BY <1>1, <1>7, <1>11, <2>1, <2>2, <2>4, SimFree
  <2> QED BY <1>7, <1>11, <2>5 DEF SimStep
<1>12. CASE /\ b.n_children[p] = 0 /\ b.n_views[p] = 0 /\ v # None
            /\ ~(u.n_views[v] = 0 /\ u.n_children[v] = 0)
  <2>1. c = u
    BY <1>12, <1>a, <1>c, <1>e, ReleaseForm
  <2>2. x = g
    <3>1. ~(g.n_views[v] = 0 /\ g.n_children[v] = 0) /\ f.n_children[p] = 0 /\ f.n_views[p] = 0
      BY <1>5, <1>7, <1>12
    <3> QED BY <1>2, <1>12, <3>1, <1>b, <1>d, ReleaseForm
  <2> QED BY <1>7, <1>8, <1>12, <2>1, <2>2 DEF SimStep
<1> QED BY <1>9, <1>10, <1>11, <1>12

\* What alike allocators have in common.
LEMMA SimFacts ==
  ASSUME GraphInv, NEW m, NEW r, NEW d \in Nat, NEW E \in Nat, Sim(m, r, d, E)
  PROVE  /\ Typed(m) /\ Typed(r) /\ m.failed = FALSE /\ r.failed = FALSE
         /\ m.max_size \in Nat /\ Top(m.blocks) \in Nat /\ Top(m.blocks) <= m.max_size
         /\ r.view_src = m.view_src /\ r.n_children = m.n_children /\ r.n_views = m.n_views
         /\ \A t \in Tensors : r.data[t] = IF IsOwn(m, t) THEN m.data[t] + d ELSE m.data[t]
         /\ \A t \in Tensors : /\ m.data[t] \in Int /\ r.data[t] \in Int
                               /\ IsOwn(r, t) <=> IsOwn(m, t)
                               /\ ~IsOwn(m, t) => r.data[t] = m.data[t]
                               /\ IsOwn(m, t) => r.data[t] = m.data[t] + d
<1>1. /\ Typed(m) /\ Typed(r) /\ m.failed = FALSE /\ r.failed = FALSE
      /\ Shifted(m.blocks, r.blocks, d, E) /\ Top(m.blocks) <= m.max_size
      /\ r.view_src = m.view_src /\ r.n_children = m.n_children /\ r.n_views = m.n_views
      /\ \A t \in Tensors : r.data[t] = IF IsOwn(m, t) THEN m.data[t] + d ELSE m.data[t]
  BY DEF Sim
<1>2. m.max_size \in Nat /\ m.blocks \in Seq(Block)
  BY <1>1 DEF Typed
<1>3. Top(m.blocks) \in Nat
  <2>1. Len(m.blocks) \in Nat /\ Len(m.blocks) >= 1
    BY <1>1, <1>2, BlockFacts DEF Shifted
  <2>2. Len(m.blocks) \in 1..Len(m.blocks)
    BY <2>1
  <2> QED BY <1>2, <2>2, BlockFacts DEF Top
<1>4. ASSUME NEW t \in Tensors
      PROVE  /\ m.data[t] \in Int /\ r.data[t] \in Int
             /\ IsOwn(r, t) <=> IsOwn(m, t)
             /\ ~IsOwn(m, t) => r.data[t] = m.data[t]
             /\ IsOwn(m, t) => r.data[t] = m.data[t] + d
  <2>1. m.data[t] \in Int /\ r.data[t] \in Int
    BY <1>1, TypedFacts
  <2>2. r.data[t] = IF IsOwn(m, t) THEN m.data[t] + d ELSE m.data[t]
    BY <1>1
  <2> QED BY <2>1, <2>2 DEF IsOwn
<1> QED BY <1>1, <1>2, <1>3, <1>4

\* Giving memory back does not change how much was needed.
LEMMA ReleasesMax ==
  ASSUME NEW b, Fields(b), NEW s, NEW n \in Nat, n = Len(s), NEW h, Passes(h, 1, b, s)
  PROVE  \A i \in 0..n : Fields(h[i]) /\ h[i].max_size = b.max_size
<1>0. /\ h[0] = b
      /\ \A i \in 1..n : h[i] = Release(h[i - 1], s[i])
  BY DEF Passes, Step
<1> DEFINE S == {i \in 0..n : Fields(h[i]) /\ h[i].max_size = b.max_size}
<1>1. 0 \in S
  BY <1>0
<1>2. ASSUME NEW i \in 0..(n - 1), i \in S PROVE i + 1 \in S
  <2>a. PICK j : j = i + 1
    OBVIOUS
  <2>1. j \in 1..n /\ j - 1 = i /\ j \in 0..n
    BY <1>0, <2>a
  <2>p. PICK p : p = s[j]
    OBVIOUS
  <2>b. PICK m : m = h[i]
    OBVIOUS
  <2>c. PICK c : c = h[j]
    OBVIOUS
  <2>2. c = Release(m, p)
    BY <1>0, <2>1, <2>p, <2>b, <2>c
  <2>3. Fields(m) /\ m.max_size = b.max_size
    BY <1>2, <2>b
  <2>4. Fields(c) /\ c.max_size = m.max_size
    BY <2>2, <2>3, ReleaseSticky
  <2> QED BY <2>1, <2>3, <2>4, <2>a, <2>c
<1>3. \A i \in 0..n : i \in S
  <2> HIDE DEF S
  <2> QED BY <1>1, <1>2, Induction
<1> QED BY <1>3

\* The update of the sources of a node, in both.
LEMMA SimSources ==
  ASSUME GraphInv, NEW b, NEW f, NEW d \in Nat, NEW E \in Nat, Sim(b, f, d, E),
         NEW s, Len(s) \in Nat, NEW h, Passes(h, 1, b, s), NEW g, Passes(g, 1, f, s),
         \A i \in 1..Len(s) : Releasable(h[i - 1], s[i], 0, Unlimited),
         h[Len(s)].failed = FALSE, h[Len(s)].max_size + d < E
  PROVE  SimStep(b, h[Len(s)], g[Len(s)], d, E, 0)
<1>n. PICK n \in Nat : n = Len(s)
  OBVIOUS
<1>0. /\ h[0] = b /\ g[0] = f
      /\ \A i \in 1..n : h[i] = Release(h[i - 1], s[i]) /\ g[i] = Release(g[i - 1], s[i])
  BY <1>n DEF Passes, Step
<1>1. Typed(b) /\ b.max_size \in Nat /\ Top(b.blocks) \in Nat
  BY SimFacts
<1>2. \A i \in 0..n : Fields(h[i]) /\ h[i].max_size = b.max_size
  <2>1. Fields(b)
    BY <1>1 DEF Typed
  <2>2. n = Len(s) /\ Passes(h, 1, b, s)
    BY <1>n
  <2> QED BY <2>1, <2>2, ReleasesMax
<1>3. b.max_size + d < E
  <2>1. n \in 0..n
    OBVIOUS
  <2> QED BY <1>2, <1>n, <2>1
<1>4. \A i \in 0..n : SimStep(b, h[i], g[i], d, E, 0)
  <2> DEFINE S == {i \in 0..n : SimStep(b, h[i], g[i], d, E, 0)}
  <2>1. 0 \in S
    <3>1. SimStep(b, b, f, d, E, 0)
      <4>1. b.max_size <= b.max_size /\ Top(b.blocks) <= Top(b.blocks) + 0
        BY <1>1
      <4> QED BY <4>1 DEF SimStep
    <3> QED BY <1>0, <3>1
  <2>2. ASSUME NEW i \in 0..(n - 1), i \in S PROVE i + 1 \in S
    <3>a. PICK j : j = i + 1
      OBVIOUS
    <3>1. j \in 1..n /\ j - 1 = i /\ j \in 0..n /\ i \in 0..n
      BY <1>n, <3>a
    <3>p. PICK p : p = s[j]
      OBVIOUS
    <3>b. PICK m : m = h[i]
      OBVIOUS
    <3>c. PICK r : r = g[i]
      OBVIOUS
    <3>d. PICK c : c = h[j]
      OBVIOUS
    <3>e. PICK x : x = g[j]
      OBVIOUS
    <3>2. c = Release(m, p) /\ x = Release(r, p)
      BY <1>0, <3>1, <3>p, <3>b, <3>c, <3>d, <3>e
    <3>3. SimStep(b, m, r, d, E, 0) /\ m.max_size = b.max_size /\ c.max_size = b.max_size
      BY <1>2, <2>2, <3>1, <3>b, <3>c, <3>d
    <3>4. Sim(m, r, d, E) /\ Top(m.blocks) <= Top(b.blocks) + 0
      BY <3>3 DEF SimStep
    <3>5. Releasable(m, p, 0, Unlimited)
      BY <1>n, <3>1, <3>b, <3>p
    <3>6. c.failed = FALSE
      <4>1. CASE j = n
        BY <1>n, <3>d, <4>1
      <4>2. CASE j # n
        <5>1. j + 1 \in 1..n /\ (j + 1) - 1 = j
          BY <3>1, <4>2
        <5>2. Releasable(h[j], s[j + 1], 0, Unlimited)
          BY <1>n, <5>1
        <5> QED BY <3>d, <5>2 DEF Releasable
      <4> QED BY <4>1, <4>2
    <3>7. SimStep(m, c, x, d, E, 0)
      BY <1>3, <3>2, <3>3, <3>4, <3>5, <3>6, SimRelease
    <3>8. Sim(c, x, d, E) /\ Top(c.blocks) <= Top(m.blocks) + 0
      BY <3>7 DEF SimStep
    <3>9. Top(c.blocks) \in Nat /\ Top(m.blocks) \in Nat
      BY <3>4, <3>8, SimFacts
    <3>10. Top(c.blocks) <= Top(b.blocks) + 0 /\ b.max_size <= c.max_size
      BY <1>1, <3>3, <3>4, <3>8, <3>9
    <3>11. SimStep(b, c, x, d, E, 0)
      BY <3>8, <3>10 DEF SimStep
    <3> QED BY <3>1, <3>11, <3>a, <3>d, <3>e
  <2>3. \A i \in 0..n : i \in S
    <3> HIDE DEF S
    <3> QED BY <2>1, <2>2, Induction
  <2> QED BY <2>3
<1>5. n \in 0..n
  OBVIOUS
<1> QED BY <1>4, <1>5, <1>n

\* Both find the same source reusable ...
LEMMA SimReusable ==
  ASSUME GraphInv, NEW m, NEW r, NEW d \in Nat, NEW E \in Nat, Sim(m, r, d, E),
         NEW n, NEW lo, NEW hi, Places(m, n, lo, hi), NEW t, NEW p \in Tensors
  PROVE  Reusable(m, t, p) <=> Reusable(r, t, p)
<1>1. /\ r.view_src = m.view_src /\ r.n_children = m.n_children /\ r.n_views = m.n_views
      /\ Typed(m)
      /\ \A u \in Tensors : /\ m.data[u] \in Int /\ r.data[u] \in Int
                            /\ IsOwn(r, u) <=> IsOwn(m, u)
                            /\ ~IsOwn(m, u) => r.data[u] = m.data[u]
                            /\ IsOwn(m, u) => r.data[u] = m.data[u] + d
  BY SimFacts
<1>v. PICK v : v = m.view_src[p]
  OBVIOUS
<1>2. v # None => v \in Tensors
  BY <1>1, <1>v, ViewSrcFacts
<1>3. v # None /\ IsOwn(m, p) => (m.data[v] = m.data[p] <=> r.data[v] = r.data[p])
  <2> SUFFICES ASSUME v # None, IsOwn(m, p) PROVE m.data[v] = m.data[p] <=> r.data[v] = r.data[p]
    OBVIOUS
  <2>1. /\ m.data[p] \in Int /\ m.data[p] >= 0 /\ r.data[p] = m.data[p] + d
    BY <1>1 DEF IsOwn
  <2>2. /\ m.data[v] \in Int
        /\ m.data[v] >= 0 => r.data[v] = m.data[v] + d
        /\ ~(m.data[v] >= 0) => r.data[v] = m.data[v]
    BY <1>1, <1>2 DEF IsOwn
  <2> QED BY <2>1, <2>2
<1>4. IsOwn(m, p) <=> IsOwn(r, p)
  BY <1>1
<1>5. v = r.view_src[p]
  BY <1>1, <1>v
<1>6. Reusable(m, t, p) <=>
        /\ IsOwn(m, p) /\ m.n_children[p] = 1 /\ m.n_views[p] = 0
        /\ graph[p].size = graph[t].size
        /\ v # None => /\ m.n_views[v] = 1 /\ m.n_children[v] = 0 /\ m.data[v] = m.data[p]
  BY <1>v DEF Reusable
<1>7. Reusable(r, t, p) <=>
        /\ IsOwn(r, p) /\ r.n_children[p] = 1 /\ r.n_views[p] = 0
        /\ graph[p].size = graph[t].size
        /\ v # None => /\ r.n_views[v] = 1 /\ r.n_children[v] = 0 /\ r.data[v] = r.data[p]
  BY <1>5 DEF Reusable
<1> QED BY <1>1, <1>3, <1>4, <1>6, <1>7

\* A tensor gets a place in the memory of another, in both.
LEMMA SimMoved ==
  ASSUME GraphInv, NEW m, NEW r, NEW d \in Nat, NEW E \in Nat, Sim(m, r, d, E),
         NEW t \in Tensors, NEW v \in Tensors, NEW offs \in Nat,
         NEW c, c = [m EXCEPT !.data[t] = IF IsOwn(m, v) THEN m.data[v] + offs ELSE m.data[v]],
         NEW x, x = [r EXCEPT !.data[t] = IF IsOwn(r, v) THEN r.data[v] + offs ELSE r.data[v]]
  PROVE  SimStep(m, c, x, d, E, 0)
<1>1. /\ Typed(m) /\ Typed(r) /\ m.failed = FALSE /\ r.failed = FALSE
      /\ m.max_size \in Nat /\ Top(m.blocks) \in Nat /\ Top(m.blocks) <= m.max_size
      /\ r.view_src = m.view_src /\ r.n_children = m.n_children /\ r.n_views = m.n_views
      /\ \A u \in Tensors : r.data[u] = IF IsOwn(m, u) THEN m.data[u] + d ELSE m.data[u]
      /\ m.data[v] \in Int /\ r.data[v] \in Int
      /\ IsOwn(r, v) <=> IsOwn(m, v)
      /\ ~IsOwn(m, v) => r.data[v] = m.data[v]
      /\ IsOwn(m, v) => r.data[v] = m.data[v] + d
  BY SimFacts
<1>2. PICK y \in Int : y = IF IsOwn(m, v) THEN m.data[v] + offs ELSE m.data[v]
  BY <1>1
<1>3. PICK z \in Int : z = IF IsOwn(r, v) THEN r.data[v] + offs ELSE r.data[v]
  BY <1>1
<1>4. z = IF y >= 0 THEN y + d ELSE y
  BY <1>1, <1>2, <1>3 DEF IsOwn
<1>5. Moved(m, c, t, y) /\ Moved(r, x, t, z)
  BY <1>1, <1>2, <1>3, MovedForm
<1>6. /\ Typed(c) /\ c.failed = m.failed /\ c.blocks = m.blocks /\ c.max_size = m.max_size
      /\ c.view_src = m.view_src /\ c.n_children = m.n_children /\ c.n_views = m.n_views
      /\ c.data[t] = y
      /\ \A u \in Tensors : u # t => c.data[u] = m.data[u]
  BY <1>5 DEF Moved
<1>7. /\ Typed(x) /\ x.failed = r.failed /\ x.blocks = r.blocks
      /\ x.view_src = r.view_src /\ x.n_children = r.n_children /\ x.n_views = r.n_views
      /\ x.data[t] = z
      /\ \A u \in Tensors : u # t => x.data[u] = r.data[u]
  BY <1>5 DEF Moved
<1>8. \A u \in Tensors : x.data[u] = IF IsOwn(c, u) THEN c.data[u] + d ELSE c.data[u]
  <2> SUFFICES ASSUME NEW u \in Tensors
               PROVE  x.data[u] = IF IsOwn(c, u) THEN c.data[u] + d ELSE c.data[u]
    OBVIOUS
  <2>1. CASE u = t
    BY <1>4, <1>6, <1>7, <2>1 DEF IsOwn
  <2>2. CASE u # t
    BY <1>1, <1>6, <1>7, <2>2 DEF IsOwn
  <2> QED BY <2>1, <2>2
<1>9. Sim(c, x, d, E)
  <2>1. Shifted(c.blocks, x.blocks, d, E)
    BY <1>6, <1>7 DEF Sim
  <2>2. /\ c.failed = FALSE /\ x.failed = FALSE /\ Top(c.blocks) <= c.max_size
        /\ x.view_src = c.view_src /\ x.n_children = c.n_children /\ x.n_views = c.n_views
    BY <1>1, <1>6, <1>7
  <2> QED BY <1>6, <1>7, <1>8, <2>1, <2>2, Zenon DEF Sim
<1>10. m.max_size <= c.max_size /\ Top(c.blocks) <= Top(m.blocks) + 0
  BY <1>1, <1>6
<1> QED BY <1>9, <1>10 DEF SimStep

\* ... and take its memory over.
LEMMA SimInPlace ==
  ASSUME GraphInv, NEW m, NEW r, NEW d \in Nat, NEW E \in Nat, Sim(m, r, d, E),
         NEW t \in Tensors, graph[t].offs = 0, NEW p \in Tensors,
         NEW q, q = Region(m, p), q \in Tensors, IsOwn(m, q), q # t,
         NEW c, c = InPlace(m, t, p), NEW x, x = InPlace(r, t, p)
  PROVE  SimStep(m, c, x, d, E, 0)
<1>1. /\ Typed(m) /\ Typed(r) /\ m.failed = FALSE /\ r.failed = FALSE
      /\ m.max_size \in Nat /\ Top(m.blocks) \in Nat /\ Top(m.blocks) <= m.max_size
      /\ r.view_src = m.view_src /\ r.n_children = m.n_children /\ r.n_views = m.n_views
      /\ \A u \in Tensors : r.data[u] = IF IsOwn(m, u) THEN m.data[u] + d ELSE m.data[u]
      /\ IsOwn(r, q) /\ r.data[q] = m.data[q] + d /\ m.data[q] \in Int
  <2>1. \A u \in Tensors : /\ m.data[u] \in Int /\ r.data[u] \in Int
                           /\ IsOwn(r, u) <=> IsOwn(m, u)
                           /\ IsOwn(m, u) => r.data[u] = m.data[u] + d
    BY SimFacts
  <2>2. /\ m.data[q] \in Int /\ r.data[q] \in Int
        /\ IsOwn(r, q) <=> IsOwn(m, q)
        /\ IsOwn(m, q) => r.data[q] = m.data[q] + d
    BY <2>1
  <2> QED BY <2>2, SimFacts
<1>2. q = Region(r, p)
  BY <1>1 DEF Region
<1>3. TakenOver(m, c, t, q)
  BY <1>1, InPlaceForm
<1>4. TakenOver(r, x, t, q)
  BY <1>1, <1>2, InPlaceForm
<1>5. /\ Typed(c) /\ c.failed = m.failed /\ c.blocks = m.blocks /\ c.max_size = m.max_size
      /\ c.n_children = m.n_children
      /\ c.view_src[t] = q /\ c.n_views[q] = m.n_views[q] + 1
      /\ c.data[t] = m.data[q]
      /\ \A u \in Tensors : u # q => c.n_views[u] = m.n_views[u]
      /\ \A u \in Tensors : u # t => c.data[u] = m.data[u] /\ c.view_src[u] = m.view_src[u]
  BY <1>3 DEF TakenOver, OnlyAt
<1>6. /\ Typed(x) /\ x.failed = r.failed /\ x.blocks = r.blocks
      /\ x.n_children = r.n_children
      /\ x.view_src[t] = q /\ x.n_views[q] = r.n_views[q] + 1
      /\ x.data[t] = r.data[q]
      /\ \A u \in Tensors : u # q => x.n_views[u] = r.n_views[u]
      /\ \A u \in Tensors : u # t => x.data[u] = r.data[u] /\ x.view_src[u] = r.view_src[u]
  BY <1>4 DEF TakenOver, OnlyAt
<1>7. x.view_src = c.view_src
  <2>1. x.view_src \in [Tensors -> Nat] /\ c.view_src \in [Tensors -> Nat]
    BY <1>5, <1>6 DEF Typed
  <2>2. \A u \in Tensors : x.view_src[u] = c.view_src[u]
    BY <1>1, <1>5, <1>6
  <2> QED BY <2>1, <2>2
<1>8. x.n_views = c.n_views
  <2>1. x.n_views \in [Tensors -> Int] /\ c.n_views \in [Tensors -> Int]
    BY <1>5, <1>6 DEF Typed
  <2>2. \A u \in Tensors : x.n_views[u] = c.n_views[u]
    BY <1>1, <1>5, <1>6
  <2> QED BY <2>1, <2>2
<1>9. \A u \in Tensors : x.data[u] = IF IsOwn(c, u) THEN c.data[u] + d ELSE c.data[u]
  <2> SUFFICES ASSUME NEW u \in Tensors
               PROVE  x.data[u] = IF IsOwn(c, u) THEN c.data[u] + d ELSE c.data[u]
    OBVIOUS
  <2>1. CASE u = t
    BY <1>1, <1>5, <1>6, <2>1 DEF IsOwn
  <2>2. CASE u # t
    BY <1>1, <1>5, <1>6, <2>2 DEF IsOwn
  <2> QED BY <2>1, <2>2
<1>10. Sim(c, x, d, E)
  <2>1. Shifted(c.blocks, x.blocks, d, E)
    BY <1>5, <1>6 DEF Sim
  <2>2. /\ c.failed = FALSE /\ x.failed = FALSE /\ Top(c.blocks) <= c.max_size
        /\ x.n_children = c.n_children
    BY <1>1, <1>5, <1>6
  <2> QED BY <1>5, <1>6, <1>7, <1>8, <1>9, <2>1, <2>2, Zenon DEF Sim
<1>11. m.max_size <= c.max_size /\ Top(c.blocks) <= Top(m.blocks) + 0
  BY <1>1, <1>5
<1> QED BY <1>10, <1>11 DEF SimStep

\* Both give a node its place.
LEMMA SimAllocateNode ==
  ASSUME GraphInv, NEW m, NEW r, NEW d \in Nat, NEW E \in Nat, Sim(m, r, d, E),
         NEW t \in Tensors, t >= FirstNode,
         Places(m, t, 0, Unlimited), Ordered(m.blocks, 0, Unlimited),
         NEW c, c = AllocateNode(m, t), c.failed = FALSE, NEW x, x = AllocateNode(r, t),
         Top(m.blocks) + AllocSize(t) < Unlimited, c.max_size + d < E
  PROVE  SimStep(m, c, x, d, E, AllocSize(t))
<1>1. /\ Typed(m) /\ Typed(r) /\ m.failed = FALSE /\ r.failed = FALSE
      /\ m.max_size \in Nat /\ Top(m.blocks) \in Nat
      /\ r.view_src = m.view_src
      /\ m.data[t] \in Int /\ r.data[t] \in Int
      /\ IsOwn(r, t) <=> IsOwn(m, t)
      /\ ~IsOwn(m, t) => r.data[t] = m.data[t]
  <2>1. \A u \in Tensors : /\ m.data[u] \in Int /\ r.data[u] \in Int
                           /\ IsOwn(r, u) <=> IsOwn(m, u)
                           /\ ~IsOwn(m, u) => r.data[u] = m.data[u]
    BY SimFacts
  <2>2. /\ m.data[t] \in Int /\ r.data[t] \in Int
        /\ IsOwn(r, t) <=> IsOwn(m, t)
        /\ ~IsOwn(m, t) => r.data[t] = m.data[t]
    BY <2>1
  <2> QED BY <2>2, SimFacts
<1>2. /\ t \in Nat /\ FirstNode \in Nat /\ AllocSize(t) \in Nat /\ graph[t].offs \in Nat
      /\ graph[t].kind # "view" => graph[t].offs = 0
  BY GraphFacts
<1>3. \A y, z : SimStep(m, y, z, d, E, 0) => SimStep(m, y, z, d, E, AllocSize(t))
  <2> SUFFICES ASSUME NEW y, NEW z, SimStep(m, y, z, d, E, 0) PROVE SimStep(m, y, z, d, E, AllocSize(t))
    OBVIOUS
  <2>1. Sim(y, z, d, E) /\ m.max_size <= y.max_size /\ Top(y.blocks) <= Top(m.blocks) + 0
    BY DEF SimStep
  <2>2. Top(y.blocks) \in Nat
    BY <2>1, SimFacts
  <2> QED BY <1>1, <1>2, <2>1, <2>2 DEF SimStep
<1>4. ~IsOwn(m, t) /\ r.data[t] = m.data[t]
  BY <1>1, <1>2 DEF Places, PlaceOf
<1>5. CASE m.data[t] # NULL
  <2>1. c = m /\ x = r
    BY <1>4, <1>5 DEF AllocateNode
  <2>2. SimStep(m, m, r, d, E, 0)
    BY <1>1 DEF SimStep
  <2> QED BY <1>3, <2>1, <2>2
<1>6. CASE m.data[t] = NULL /\ graph[t].kind = "view"
  <2>v. PICK v : v = m.view_src[t]
    OBVIOUS
  <2>1. v # None /\ v \in Tensors
    BY <1>1, <1>6, <2>v, ViewSrcFacts
  <2>2. c = InitView(m, t) /\ x = InitView(r, t)
    BY <1>1, <1>4, <1>6, <2>1, <2>v DEF AllocateNode
  <2>3. /\ c = [m EXCEPT !.data[t] = IF IsOwn(m, v) THEN m.data[v] + graph[t].offs ELSE m.data[v]]
        /\ x = [r EXCEPT !.data[t] = IF IsOwn(r, v) THEN r.data[v] + graph[t].offs ELSE r.data[v]]
    <3>1. v = r.view_src[t]
      BY <1>1, <2>v
    <3>2. c = [m EXCEPT !.data[t] = IF IsOwn(m, v) THEN m.data[v] + graph[t].offs ELSE m.data[v]]
      BY <2>2, <2>v DEF InitView
    <3>3. x = [r EXCEPT !.data[t] = IF IsOwn(r, v) THEN r.data[v] + graph[t].offs ELSE r.data[v]]
      BY <2>2, <3>1 DEF InitView
    <3> QED BY <3>2, <3>3
  <2>4. SimStep(m, c, x, d, E, 0)
    <3>1. PICK offs \in Nat : offs = graph[t].offs
      BY <1>2
    <3>2. /\ c = [m EXCEPT !.data[t] = IF IsOwn(m, v) THEN m.data[v] + offs ELSE m.data[v]]
          /\ x = [r EXCEPT !.data[t] = IF IsOwn(r, v) THEN r.data[v] + offs ELSE r.data[v]]
      BY <2>3, <3>1
    <3>3. SimStep(m, [m EXCEPT !.data[t] = IF IsOwn(m, v) THEN m.data[v] + offs ELSE m.data[v]],
                  [r EXCEPT !.data[t] = IF IsOwn(r, v) THEN r.data[v] + offs ELSE r.data[v]],
                  d, E, 0)
      BY <2>1, SimMoved
    <3> QED BY <3>2, <3>3
  <2> QED BY <1>3, <2>4
<1>7. CASE m.data[t] = NULL /\ graph[t].kind = "op" /\ m.view_src[t] = None
  <2>s. PICK s : s = graph[t].src
    OBVIOUS
  <2>0. /\ \A j \in DOMAIN s : s[j] \in Tensors /\ s[j] < t
        /\ \A u \in Tensors : u \in Nat
    BY <2>s, SourceFacts, GraphFacts
  <2>1. PICK J : J = {j \in DOMAIN s : Reusable(m, t, s[j])}
    OBVIOUS
  <2>2. J = {j \in DOMAIN s : Reusable(r, t, s[j])}
    <3>1. \A j \in DOMAIN s : Reusable(m, t, s[j]) <=> Reusable(r, t, s[j])
      <4> SUFFICES ASSUME NEW j \in DOMAIN s PROVE Reusable(m, t, s[j]) <=> Reusable(r, t, s[j])
        OBVIOUS
      <4>1. PICK p : p = s[j]
        OBVIOUS
      <4>2. p \in Tensors
        BY <2>0, <4>1
      <4>3. Reusable(m, t, p) <=> Reusable(r, t, p)
        BY <4>2, SimReusable
      <4> QED BY <4>1, <4>3
    <3> QED BY <2>1, <3>1
  <2>3. c = IF graph[t].inplace /\ J # {} THEN InPlace(m, t, s[Min(J)]) ELSE Alloc(m, t)
    BY <1>7, <2>1, <2>s DEF AllocateNode
  <2>4. x = IF graph[t].inplace /\ J # {} THEN InPlace(r, t, s[Min(J)]) ELSE Alloc(r, t)
    BY <1>1, <1>4, <1>7, <2>2, <2>s DEF AllocateNode
  <2>5. CASE graph[t].inplace /\ J # {}
    <3>j. PICK j : j = Min(J)
      OBVIOUS
    <3>1. j \in J
      BY <2>1, <2>5, <2>s, <3>j, LeastSource
    <3>p. PICK p : p = s[j]
      OBVIOUS
    <3>2. p \in Tensors /\ p < t /\ Reusable(m, t, p)
      BY <2>0, <2>1, <3>1, <3>p
    <3>3. c = InPlace(m, t, p) /\ x = InPlace(r, t, p)
      BY <2>3, <2>4, <2>5, <3>j, <3>p
    <3>q. PICK q : q = Region(m, p)
      OBVIOUS
    <3>4. TakeOver(m, t, p, q)
      BY <1>1, <3>2, <3>q, TakeOverPlace
    <3>5. q \in Tensors /\ q # t /\ IsOwn(m, q)
      <4>1. q \in Tensors /\ q < t /\ IsOwn(m, q)
        BY <3>4 DEF TakeOver
      <4> QED BY <1>2, <2>0, <4>1
    <3>6. graph[t].offs = 0
      BY <1>2, <1>7
    <3>7. SimStep(m, c, x, d, E, 0)
      BY <3>2, <3>3, <3>5, <3>6, <3>q, SimInPlace
    <3> QED BY <1>3, <3>7
  <2>6. CASE ~(graph[t].inplace /\ J # {})
    <3>1. c = Alloc(m, t) /\ x = Alloc(r, t)
      BY <2>3, <2>4, <2>6
    <3> QED BY <3>1, SimAlloc
  <2> QED BY <2>5, <2>6
<1>8. \/ graph[t].kind = "view"
      \/ graph[t].kind = "op" /\ m.view_src[t] = None /\ m.data[t] = NULL
  BY <1>1, NodeWaits
<1> QED BY <1>5, <1>6, <1>7, <1>8

\* One round of both passes.
LEMMA SimPlaceNode ==
  ASSUME GraphInv, NEW m, NEW r, NEW d \in Nat, NEW E \in Nat, Sim(m, r, d, E),
         NEW t \in Tensors, t >= FirstNode, NEW lo, NEW hi, RoundInv(m, t, 0, Unlimited),
         RoundInv(r, t, lo, hi),
         NEW c, c = PlaceNode(m, t), c.failed = FALSE, NEW x, x = PlaceNode(r, t),
         Top(m.blocks) + AllocSize(t) < Unlimited, c.max_size + d < E
  PROVE  SimStep(m, c, x, d, E, AllocSize(t))
<1>s. PICK s : s = graph[t].src
  OBVIOUS
<1>b. PICK b : b = AllocateNode(m, t)
  OBVIOUS
<1>f. PICK f : f = AllocateNode(r, t)
  OBVIOUS
<1>n. PICK n : n = Len(s)
  OBVIOUS
<1>0. n \in Nat /\ DOMAIN s = 1..n
  BY <1>n, <1>s, SourceLength
<1>1. Round(m, c, t, 0, Unlimited)
  <2>1. 0 \in Nat /\ Unlimited \in Nat
    BY AllocAssumptionHolds DEF AllocAssumption
  <2> QED BY <2>1, PlaceNodeRound
<1>2. b.failed = FALSE /\ \E W \in SUBSET Tensors : Held(b, t + 1, ReadsFrom(t), W, 0, Unlimited)
  BY <1>1, <1>b DEF Round
<1>3. PICK h : /\ Passes(h, 1, b, s) /\ c = h[n]
               /\ \A i \in 1..n : Releasable(h[i - 1], s[i], 0, Unlimited)
  BY <1>1, <1>b, <1>n, <1>s DEF Round
<1>4. Places(m, t, 0, Unlimited) /\ Ordered(m.blocks, 0, Unlimited)
  BY DEF RoundInv, Held
<1>5. Fields(b)
  BY <1>2 DEF Held, Typed
<1>6. c.max_size = b.max_size
  <2>1. n \in 0..n
    BY <1>0
  <2> QED BY <1>0, <1>3, <1>5, <1>n, <2>1, ReleasesMax
<1>7. SimStep(m, b, f, d, E, AllocSize(t))
  BY <1>2, <1>4, <1>6, <1>b, <1>f, SimAllocateNode
<1>8. Sim(b, f, d, E) /\ m.max_size <= b.max_size /\ Top(b.blocks) <= Top(m.blocks) + AllocSize(t)
  BY <1>7 DEF SimStep
<1>9. f.failed = FALSE /\ r.failed = FALSE /\ m.max_size \in Nat /\ b.max_size \in Nat
  BY <1>8, SimFacts
<1>10. x = FoldOf(1, f, s)
  <2>1. Places(r, t, lo, hi)
    BY DEF RoundInv, Held
  <2>2. FoldLeft(AllocateNode, r, s) = r
    BY <1>s, <2>1, SourcesPlaced
  <2> QED BY <1>9, <1>f, <1>s, <2>2, FoldRelease DEF PlaceNode
<1>11. PICK g : Passes(g, 1, f, s) /\ x = g[n]
  BY <1>0, <1>10, <1>n, FoldPasses
<1>12. SimStep(b, c, x, d, E, 0)
  <2>1. SimStep(b, h[Len(s)], g[Len(s)], d, E, 0)
    <3>1. /\ Len(s) \in Nat /\ h[Len(s)].failed = FALSE /\ h[Len(s)].max_size + d < E
          /\ \A i \in 1..Len(s) : Releasable(h[i - 1], s[i], 0, Unlimited)
      BY <1>0, <1>3, <1>n
    <3> QED BY <1>3, <1>8, <1>11, <3>1, SimSources
  <2> QED BY <1>3, <1>11, <1>n, <2>1
<1>13. Sim(c, x, d, E) /\ b.max_size <= c.max_size /\ Top(c.blocks) <= Top(b.blocks) + 0
  BY <1>12 DEF SimStep
<1>14. /\ Top(c.blocks) \in Nat /\ Top(b.blocks) \in Nat /\ Top(m.blocks) \in Nat
       /\ c.max_size \in Nat
  BY <1>8, <1>13, SimFacts
<1>15. AllocSize(t) \in Nat
  BY GraphFacts
<1>16. m.max_size <= c.max_size /\ Top(c.blocks) <= Top(m.blocks) + AllocSize(t)
  BY <1>8, <1>9, <1>13, <1>14, <1>15
<1> QED BY <1>13, <1>16 DEF SimStep

-----------------------------------------------------------------------------
(* A whole pass: inputs and nodes in turn.                                 *)

\* What both passes do for tensor t.
Turn(a, t) == IF t < FirstNode THEN AllocInput(a, t) ELSE PlaceNode(a, t)

\* The invariant of the pass before the turn of tensor n.
Sound(a, n, lo, hi) ==
    /\ n <= FirstNode => BuildInv(a, n, lo, hi)
    /\ n >= FirstNode => RoundInv(a, n, lo, hi)

\* What a sound allocator looks like in both parts of a pass.
LEMMA SoundTyped ==
  ASSUME GraphInv, NEW a, NEW n \in Nat, NEW lo, NEW hi, Sound(a, n, lo, hi)
  PROVE  /\ Typed(a) /\ a.failed = FALSE /\ Fields(a) /\ a.max_size \in Nat
         /\ Ordered(a.blocks, lo, hi) /\ Places(a, n, lo, hi)
<1>1. FirstNode \in Nat
  BY GraphFacts
<1>2. \E R, W : Held(a, n, R, W, lo, hi)
  BY <1>1 DEF Sound, BuildInv, RoundInv
<1>3. Typed(a) /\ a.failed = FALSE /\ Ordered(a.blocks, lo, hi) /\ Places(a, n, lo, hi)
  BY <1>2 DEF Held
<1> QED BY <1>3 DEF Typed

\* A failure stays through a turn.
LEMMA TurnSticky ==
  ASSUME GraphInv, NEW a, Fields(a), NEW t \in Tensors, NEW c, c = Turn(a, t)
  PROVE  Fields(c) /\ c.failed \in {a.failed, TRUE}
<1>1. CASE t < FirstNode
  <2>1. c = AllocInput(a, t)
    BY <1>1 DEF Turn
  <2> QED BY <2>1, AllocInputSticky
<1>2. CASE ~(t < FirstNode)
  <2>1. c = PlaceNode(a, t)
    BY <1>2 DEF Turn
  <2> QED BY <2>1, PlaceNodeSticky
<1> QED BY <1>1, <1>2

\* All that is placed is kept: the nodes come next.
LEMMA BuildDone ==
  ASSUME GraphInv, NEW a, NEW lo, NEW hi, BuildInv(a, FirstNode, lo, hi)
  PROVE  RoundInv(a, FirstNode, lo, hi)
<1>1. PICK W \in SUBSET Tensors : /\ Held(a, FirstNode, Reads, W, lo, hi)
                                  /\ \A o \in Tensors : IsOwn(a, o) => o \in W
  BY DEF BuildInv
<1>2. Covers(a, Reads, W)
  BY <1>1, NeedFacts DEF Covers
<1> QED BY <1>1, <1>2, NodesRead DEF RoundInv

\* A turn that does not fail keeps the invariant.
LEMMA TurnSound ==
  ASSUME GraphInv, NEW a, NEW t \in Tensors, NEW lo \in Nat, NEW hi \in Nat,
         Sound(a, t, lo, hi), NEW c, c = Turn(a, t), c.failed = FALSE
  PROVE  Sound(c, t + 1, lo, hi)
<1>1. t \in Nat /\ FirstNode \in Nat
  BY GraphFacts
<1>2. CASE t < FirstNode
  <2>1. c = AllocInput(a, t) /\ BuildInv(a, t, lo, hi)
    BY <1>1, <1>2 DEF Turn, Sound
  <2>2. BuildInv(c, t + 1, lo, hi)
    BY <1>2, <2>1, BuildStep
  <2>3. t + 1 >= FirstNode => t + 1 = FirstNode
    BY <1>1, <1>2
  <2> QED BY <2>2, <2>3, BuildDone DEF Sound
<1>3. CASE ~(t < FirstNode)
  <2>1. c = PlaceNode(a, t) /\ RoundInv(a, t, lo, hi) /\ t >= FirstNode
    BY <1>1, <1>3 DEF Turn, Sound
  <2>2. Round(a, c, t, lo, hi)
    BY <2>1, PlaceNodeRound
  <2>3. RoundInv(c, t + 1, lo, hi)
    BY <2>2 DEF Round
  <2>4. ~(t + 1 <= FirstNode)
    BY <1>1, <2>1
  <2> QED BY <2>3, <2>4 DEF Sound
<1> QED BY <1>2, <1>3

\* An allocation does not lower what was needed.
LEMMA AllocMax ==
  ASSUME GraphInv, NEW a, Typed(a), NEW t \in Tensors, NEW lo \in Nat, NEW hi \in Nat,
         Ordered(a.blocks, lo, hi), NEW c, c = Alloc(a, t), c.failed = FALSE
  PROVE  a.max_size <= c.max_size /\ Fields(c)
<1>s. PICK size : size = AllocSize(t)
  OBVIOUS
<1>k. PICK k : k = BestFit(a, size)
  OBVIOUS
<1>1. Fields(a) /\ a.blocks \in Seq(Block) /\ a.max_size \in Nat /\ size \in Nat
  BY <1>s, TypedFacts, GraphFacts
<1>2. AllocEffect(a, t, size, k, c)
  BY <1>1, <1>s, <1>k, AllocForm
<1>3. ~NoRoom(a, size) /\ c.max_size = Max({a.max_size, a.blocks[k].addr + size}) /\ Fields(c)
  BY <1>2 DEF AllocEffect
<1>4. a.blocks[k].addr \in Nat
  <2>1. Len(a.blocks) \in Nat
    BY <1>1, BlockFacts
  <2>2. k # 0
    BY <1>3, <1>k DEF NoRoom
  <2>3. k \in 1..Len(a.blocks)
    BY <1>1, <1>k, <2>1, <2>2, BestFitIn
  <2> QED BY <1>1, <2>3, BlockFacts
<1>5. PICK y \in Nat : y = a.blocks[k].addr + size
  BY <1>1, <1>4
<1>6. Max({a.max_size, y}) = IF a.max_size >= y THEN a.max_size ELSE y
  BY <1>1, MaxMinOfTwo
<1>7. c.max_size = IF a.max_size >= y THEN a.max_size ELSE y
  BY <1>3, <1>5, <1>6
<1> QED BY <1>1, <1>3, <1>7

\* Nor does a turn.
LEMMA TurnMax ==
  ASSUME GraphInv, NEW a, NEW t \in Tensors, NEW lo \in Nat, NEW hi \in Nat,
         Sound(a, t, lo, hi), NEW c, c = Turn(a, t), c.failed = FALSE
  PROVE  a.max_size <= c.max_size
<1>1. t \in Nat /\ FirstNode \in Nat
  BY GraphFacts
<1>2. /\ Typed(a) /\ a.failed = FALSE /\ Fields(a) /\ a.max_size \in Nat
      /\ Ordered(a.blocks, lo, hi) /\ Places(a, t, lo, hi)
  BY <1>1, SoundTyped
<1>3. CASE t < FirstNode
  <2>1. c = IF graph[t].kind = "input" THEN Alloc(a, t) ELSE a
    BY <1>3 DEF Turn, AllocInput
  <2>2. CASE graph[t].kind = "input"
    <3>1. c = Alloc(a, t)
      BY <2>1, <2>2
    <3>2. Typed(a) /\ Ordered(a.blocks, lo, hi)
      BY <1>2
    <3> QED BY <3>1, <3>2, AllocMax
  <2>3. CASE graph[t].kind # "input"
    <3>1. c = a
      BY <2>1, <2>3
    <3> QED BY <1>2, <3>1
  <2> QED BY <2>2, <2>3
<1>4. CASE ~(t < FirstNode)
  <2>1. c = PlaceNode(a, t) /\ RoundInv(a, t, lo, hi) /\ t >= FirstNode
    BY <1>1, <1>4 DEF Turn, Sound
  <2>b. PICK b : b = AllocateNode(a, t)
    OBVIOUS
  <2>s. PICK s : s = graph[t].src
    OBVIOUS
  <2>n. PICK n : n = Len(s)
    OBVIOUS
  <2>2. Round(a, c, t, lo, hi)
    BY <2>1, PlaceNodeRound
  <2>3. PICK h : b.failed = FALSE /\ Passes(h, 1, b, s) /\ c = h[n]
    BY <2>2, <2>b, <2>s, <2>n DEF Round
  <2>4. Fields(b)
    BY <1>2, <2>b, AllocateNodeSticky
  <2>5. c.max_size = b.max_size
    <3>1. n \in Nat
      BY <2>s, <2>n, SourceLength
    <3>2. n \in 0..n
      BY <3>1
    <3> QED BY <2>3, <2>4, <2>n, <3>1, <3>2, ReleasesMax
  <2>6. a.max_size <= b.max_size
    <3>1. CASE b = Alloc(a, t)
      BY <1>2, <2>3, <3>1, AllocMax
    <3>2. CASE b # Alloc(a, t)
      <4>1. \A e, u : Fields(e) => InitView(e, u).max_size = e.max_size
        BY DEF InitView, Fields
      <4>2. \A p : InPlace(a, t, p).max_size = a.max_size
        <5> SUFFICES ASSUME NEW p PROVE InPlace(a, t, p).max_size = a.max_size
          OBVIOUS
        <5>r. PICK r : r = IF a.view_src[p] = None THEN p ELSE a.view_src[p]
          OBVIOUS
        <5>1. PICK e : e = [a EXCEPT !.view_src[t] = r, !.n_views[r] = @ + 1]
          OBVIOUS
        <5>2. Fields(e) /\ e.max_size = a.max_size
          BY <1>2, <5>1 DEF Fields
        <5>3. InPlace(a, t, p) = InitView(e, t)
          BY <5>r, <5>1 DEF InPlace
        <5> QED BY <4>1, <5>2, <5>3
      <4>3. b = a \/ b = InitView(a, t) \/ \E p : b = InPlace(a, t, p)
        BY <2>b, <3>2 DEF AllocateNode
      <4>4. b.max_size = a.max_size
        BY <1>2, <4>1, <4>2, <4>3
      <4> QED BY <1>2, <4>4
    <3> QED BY <3>1, <3>2
  <2> QED BY <2>5, <2>6
<1> QED BY <1>3, <1>4

\* One turn of both passes.
LEMMA SimTurn ==
  ASSUME GraphInv, NEW m, NEW r, NEW d \in Nat, NEW E \in Nat, Sim(m, r, d, E),
         NEW t \in Tensors, Sound(m, t, 0, Unlimited), NEW lo, NEW hi, Sound(r, t, lo, hi),
         NEW c, c = Turn(m, t), c.failed = FALSE, NEW x, x = Turn(r, t),
         Top(m.blocks) + AllocSize(t) < Unlimited, c.max_size + d < E
  PROVE  SimStep(m, c, x, d, E, AllocSize(t))
<1>1. t \in Nat /\ FirstNode \in Nat /\ AllocSize(t) \in Nat
  BY GraphFacts
<1>2. CASE t < FirstNode
  <2>1. /\ c = IF graph[t].kind = "input" THEN Alloc(m, t) ELSE m
        /\ x = IF graph[t].kind = "input" THEN Alloc(r, t) ELSE r
    BY <1>2 DEF Turn, AllocInput
  <2>2. CASE graph[t].kind = "input"
    <3>1. c = Alloc(m, t) /\ x = Alloc(r, t) /\ Ordered(m.blocks, 0, Unlimited)
      BY <1>1, <2>1, <2>2, SoundTyped
    <3> QED BY <3>1, SimAlloc
  <2>3. CASE graph[t].kind # "input"
    <3>1. c = m /\ x = r
      BY <2>1, <2>3
    <3>2. m.max_size \in Nat /\ Top(m.blocks) \in Nat
      BY SimFacts
    <3>3. m.max_size <= m.max_size /\ Top(m.blocks) <= Top(m.blocks) + AllocSize(t)
      BY <1>1, <3>2
    <3> QED BY <3>1, <3>3 DEF SimStep
  <2> QED BY <2>2, <2>3
<1>3. CASE ~(t < FirstNode)
  <2>1. /\ c = PlaceNode(m, t) /\ x = PlaceNode(r, t) /\ t >= FirstNode
        /\ RoundInv(m, t, 0, Unlimited) /\ RoundInv(r, t, lo, hi)
    BY <1>1, <1>3 DEF Turn, Sound
  <2> QED BY <2>1, SimPlaceNode
<1> QED BY <1>2, <1>3

\* The graph has all its nodes.
Grown == Len(graph) = N

\* A whole pass: h[i] is the allocator after the turns of the tensors 1..i.
Pass(h, base, size) ==
    /\ h[0] = Fresh(base, size)
    /\ \A i \in 1..N : h[i] = Turn(h[i - 1], i)

\* The tensors of a whole graph.
LEMMA GrownFacts ==
  ASSUME GraphInv, Grown
  PROVE  /\ N \in Nat /\ Tensors = 1..N /\ FirstNode - 1 \in Nat /\ FirstNode - 1 <= N
         /\ start.nodes \in Nat /\ N = FirstNode - 1 + start.nodes
         /\ FirstNode \in 1..N
         /\ \A i \in 0..(N - 1) : i + 1 \in Tensors /\ i \in Nat
<1>1. start.nodes \in Nat \ {0}
  <2>1. \A s \in Starts : s.nodes \in Nat \ {0}
    BY AllocAssumptionHolds DEF AllocAssumption
  <2> QED BY <2>1 DEF GraphInv
<1>2. FirstNode \in Nat /\ FirstNode >= 1 /\ Tensors = 1..Len(graph)
  BY GraphFacts
<1>3. N = FirstNode - 1 + start.nodes
  BY DEF N
<1>4. Tensors = 1..N
  BY <1>2 DEF Grown
<1> HIDE DEF N
<1>5. \A i \in 0..(N - 1) : i + 1 \in 1..N /\ i \in Nat
  BY <1>1, <1>2, <1>3
<1> QED BY <1>1, <1>2, <1>3, <1>4, <1>5

\* The fold of the model is the end of a pass.
LEMMA PassExists ==
  ASSUME GraphInv, Grown, NEW base, NEW size
  PROVE  \E h : /\ Pass(h, base, size)
                /\ h[FirstNode - 1] = BuildGraph(base, size)
                /\ h[N] = FoldLeft(PlaceNode, BuildGraph(base, size), Nodes)
<1>0. /\ N \in Nat /\ FirstNode - 1 \in Nat /\ FirstNode - 1 <= N
      /\ start.nodes \in Nat /\ N = FirstNode - 1 + start.nodes
  BY GrownFacts
<1>f. PICK f \in Nat : f = FirstNode - 1
  BY <1>0
<1>n. PICK n \in Nat : n = N
  BY <1>0
<1>d. FirstNode = f + 1 /\ n = f + start.nodes /\ f <= n
  BY <1>0, <1>f, <1>n, GraphFacts
<1>1. PICK u : BuildPasses(u, base, size)
  BY BuildGraphPasses
<1>2. Len(Nodes) = start.nodes /\ DOMAIN Nodes = 1..start.nodes
      /\ \A k \in 1..start.nodes : Nodes[k] = f + k
  <2>1. Nodes = [k \in 1..start.nodes |-> FirstNode + k - 1]
    BY DEF Nodes
  <2>2. \A k \in 1..start.nodes : FirstNode + k - 1 = f + k
    BY <1>d
  <2> QED BY <1>0, <2>1, <2>2
<1>3. PICK v : /\ Passes(v, 4, BuildGraph(base, size), Nodes)
               /\ v[start.nodes] = FoldOf(4, BuildGraph(base, size), Nodes)
  BY <1>0, <1>2, FoldPasses
<1>4. PICK h : h = [i \in 0..n |-> IF i <= f THEN u[i] ELSE v[i - f]]
  OBVIOUS
<1>5. /\ u[0] = Fresh(base, size) /\ u[f] = BuildGraph(base, size)
      /\ \A i \in 1..f : u[i] = AllocInput(u[i - 1], i)
  BY <1>1, <1>f DEF BuildPasses
<1>6. v[0] = u[f] /\ \A i \in 1..start.nodes : v[i] = PlaceNode(v[i - 1], f + i)
  BY <1>2, <1>3, <1>5 DEF Passes, Step
<1>7. h[0] = Fresh(base, size) /\ h[f] = u[f]
  BY <1>4, <1>5, <1>d
<1>8. h[n] = FoldOf(4, BuildGraph(base, size), Nodes)
  <2>1. CASE start.nodes = 0
    BY <1>3, <1>4, <1>6, <1>d, <2>1
  <2>2. CASE start.nodes # 0
    <3>1. ~(n <= f) /\ n \in 0..n /\ n - f = start.nodes
      BY <1>0, <1>d, <2>2
    <3> QED BY <1>3, <1>4, <3>1
  <2> QED BY <2>1, <2>2
<1>9. ASSUME NEW i \in 1..n PROVE h[i] = Turn(h[i - 1], i)
  <2>1. CASE i <= f
    <3>1. i \in 1..f /\ i < FirstNode /\ i - 1 \in 0..n /\ i - 1 <= f /\ i \in 0..n
      BY <1>d, <2>1
    <3>2. h[i] = u[i] /\ h[i - 1] = u[i - 1]
      BY <1>4, <2>1, <3>1
    <3>3. u[i] = AllocInput(u[i - 1], i)
      BY <1>5, <3>1
    <3> QED BY <3>1, <3>2, <3>3 DEF Turn
  <2>2. CASE ~(i <= f)
    <3>1. /\ ~(i < FirstNode) /\ i - 1 \in 0..n /\ i \in 0..n /\ i - f \in 1..start.nodes
          /\ f + (i - f) = i /\ (i - f) - 1 = (i - 1) - f
      BY <1>0, <1>d, <2>2
    <3>2. h[i] = v[i - f]
      BY <1>4, <2>2, <3>1
    <3>3. h[i - 1] = v[(i - f) - 1]
      <4>1. CASE i - 1 <= f
        <5>1. i - 1 = f /\ (i - f) - 1 = 0
          BY <2>2, <4>1
        <5> QED BY <1>6, <1>7, <5>1
      <4>2. CASE ~(i - 1 <= f)
        BY <1>4, <3>1, <4>2
      <4> QED BY <4>1, <4>2
    <3>4. v[i - f] = PlaceNode(v[(i - f) - 1], f + (i - f))
      BY <1>6, <3>1
    <3>5. h[i] = PlaceNode(h[i - 1], i)
      BY <3>1, <3>2, <3>3, <3>4
    <3> QED BY <3>1, <3>5 DEF Turn
  <2> QED BY <2>1, <2>2
<1>10. Pass(h, base, size)
  BY <1>7, <1>9, <1>n DEF Pass
<1>11. FoldOf(4, BuildGraph(base, size), Nodes) = FoldLeft(PlaceNode, BuildGraph(base, size), Nodes)
  BY FoldPlaceNode
<1> QED BY <1>5, <1>7, <1>8, <1>10, <1>11, <1>f, <1>n

\* A pass that has not failed so far was sound all the time.
SoFar(h, k, lo, hi) ==
    \A i \in 0..k : Sound(h[i], i + 1, lo, hi) /\ h[i].max_size <= h[k].max_size

\* A pass starts sound.
LEMMA FreshSound ==
  ASSUME GraphInv, NEW base \in Nat, NEW size \in Nat, RoundUp(base) - base < size,
         NEW a, a = Fresh(base, size)
  PROVE  Sound(a, 1, base, base + size)
<1>1. Held(a, 1, Reads, {}, base, base + size) /\ \A t \in Tensors : ~IsOwn(a, t)
  BY FreshHeld
<1>2. {} \in SUBSET Tensors
  OBVIOUS
<1>3. BuildInv(a, 1, base, base + size)
  BY <1>1, <1>2 DEF BuildInv
<1>4. 1 >= FirstNode => FirstNode = 1
  BY GraphFacts
<1>5. 1 >= FirstNode => RoundInv(a, 1, base, base + size)
  BY <1>3, <1>4, BuildDone
<1> QED BY <1>3, <1>5 DEF Sound

\* A pass is sound up to where it has not failed.
LEMMA PassSound ==
  ASSUME GraphInv, Grown, NEW base \in Nat, NEW size \in Nat, RoundUp(base) - base < size,
         NEW h, Pass(h, base, size)
  PROVE  \A k \in 0..N : /\ Fields(h[k])
                         /\ h[k].failed = FALSE => SoFar(h, k, base, base + size)
<1>0. N \in Nat /\ base + size \in Nat /\ \A i \in 0..(N - 1) : i + 1 \in Tensors /\ i \in Nat
  BY GrownFacts
<1>n. PICK n \in Nat : n = N
  BY <1>0
<1>hi. PICK hi \in Nat : hi = base + size
  BY <1>0
<1> DEFINE Good == {k \in 0..n : /\ Fields(h[k])
                                 /\ h[k].failed = FALSE => SoFar(h, k, base, hi)}
<1>1. 0 \in Good
  <2>1. Sound(h[0], 1, base, hi)
    BY FreshSound, <1>hi DEF Pass
  <2>2. Fields(h[0]) /\ h[0].max_size \in Nat
    BY <2>1, SoundTyped
  <2>3. \A i \in 0..0 : i = 0
    OBVIOUS
  <2>4. SoFar(h, 0, base, hi)
    <3>1. h[0].max_size <= h[0].max_size /\ 0 + 1 = 1
      BY <2>2
    <3> QED BY <2>1, <2>3, <3>1 DEF SoFar
  <2> QED BY <2>2, <2>4
<1>2. ASSUME NEW i \in 0..(n - 1), i \in Good PROVE i + 1 \in Good
  <2>t. PICK t : t = i + 1
    OBVIOUS
  <2>1. /\ t \in 1..n /\ t \in 0..n /\ t - 1 = i /\ i \in Nat /\ t \in Tensors
        /\ \A j \in 0..t : j \in 0..i \/ j = t
    BY <1>0, <1>n, <2>t
  <2>2. PICK e : e = h[i]
    OBVIOUS
  <2>3. PICK c : c = h[t]
    OBVIOUS
  <2>4. c = Turn(e, t) /\ Fields(e)
    BY <1>2, <1>n, <2>1, <2>2, <2>3 DEF Pass
  <2>5. Fields(c) /\ c.failed \in {e.failed, TRUE}
    BY <2>1, <2>4, TurnSticky
  <2>6. ASSUME c.failed = FALSE PROVE SoFar(h, t, base, hi)
    <3>1. e.failed = FALSE
      BY <2>5, <2>6
    <3>2. SoFar(h, i, base, hi)
      BY <1>2, <2>2, <3>1
    <3>3. Sound(e, t, base, hi) /\ \A j \in 0..i : Sound(h[j], j + 1, base, hi) /\ h[j].max_size <= e.max_size
      <4>1. i \in 0..i
        BY <2>1
      <4> QED BY <2>2, <2>t, <3>2, <4>1 DEF SoFar
    <3>4. Sound(c, t + 1, base, hi)
      BY <2>1, <2>4, <2>6, <3>3, TurnSound
    <3>5. e.max_size <= c.max_size
      BY <2>1, <2>4, <2>6, <3>3, TurnMax
    <3>6. \A j \in 0..t : Sound(h[j], j + 1, base, hi)
      BY <2>1, <2>3, <3>3, <3>4
    <3>7. ASSUME NEW j \in 0..t PROVE h[j].max_size <= c.max_size
      <4>1. c.max_size \in Nat
        <5>1. t + 1 \in Nat
          BY <2>1
        <5> QED BY <3>4, <5>1, SoundTyped
      <4>2. e.max_size \in Nat
        <5>1. t \in Nat
          BY <2>1
        <5> QED BY <3>3, <5>1, SoundTyped
      <4>3. h[j].max_size \in Nat
        <5>1. j + 1 \in Nat
          BY <2>1
        <5> QED BY <3>6, <5>1, SoundTyped
      <4>4. CASE j = t
        BY <2>3, <4>1, <4>4
      <4>5. CASE j \in 0..i
        <5>1. h[j].max_size <= e.max_size
          BY <3>3, <4>5
        <5> QED BY <3>5, <4>1, <4>2, <4>3, <5>1
      <4> QED BY <2>1, <4>4, <4>5
    <3> QED BY <2>3, <3>6, <3>7 DEF SoFar
  <2> QED BY <2>1, <2>3, <2>5, <2>6, <2>t
<1>3. \A i \in 0..n : i \in Good
  <2> HIDE DEF Good
  <2> QED BY <1>1, <1>2, Induction
<1> QED BY <1>3, <1>n, <1>hi

-----------------------------------------------------------------------------
(* The real pass in the buffer that was measured.                          *)

\* M bounds the memory of a tensor, and the sum over the graph is in reach.
Bound(M) ==
    /\ M \in Nat /\ N * M < Unlimited
    /\ \A t \in Tensors : AllocSize(t) <= M

\* UnlimitedAssumption: no graph comes near the end of the address space.
LEMMA BoundExists ==
  ASSUME GraphInv
  PROVE  \E M : Bound(M)
<1>1. PICK largest \in Sizes :
        /\ \A size \in Sizes : size <= largest
        /\ \A s \in Starts : (Len(s.leafs) + s.nodes) * RoundUp(largest) < Unlimited
  BY UnlimitedAssumptionHolds, Zenon DEF UnlimitedAssumption
<1>2. PICK M : M = RoundUp(largest)
  OBVIOUS
<1>3. largest \in Nat
  BY SizesFacts
<1>4. M \in Nat
  BY <1>2, <1>3, RoundUpFacts
<1>5. (Len(start.leafs) + start.nodes) * M < Unlimited
  BY <1>1, <1>2 DEF GraphInv
<1>6. Len(start.leafs) + start.nodes = N
  <2>1. start.leafs \in Seq({Leaf(kind, size) : kind \in {"input", "weight"}, size \in Sizes})
    BY AllocAssumptionHolds DEF AllocAssumption, GraphInv
  <2>2. Len(start.leafs) \in Nat
    BY <2>1, LenProperties
  <2>3. start.nodes \in Nat
    <3>1. \A s \in Starts : s.nodes \in Nat \ {0}
      BY AllocAssumptionHolds DEF AllocAssumption
    <3> QED BY <3>1 DEF GraphInv
  <2> QED BY <2>2, <2>3 DEF N, FirstNode
<1>7. ASSUME NEW t \in Tensors PROVE AllocSize(t) <= M
  <2>1. graph[t].size \in Sizes /\ graph[t].size \in Nat
    BY GraphFacts
  <2>2. graph[t].size <= largest
    BY <1>1, <2>1
  <2> QED BY <1>2, <1>3, <2>1, <2>2, RoundUpFacts DEF AllocSize
<1>8. Bound(M)
  BY <1>4, <1>5, <1>6, <1>7 DEF Bound
<1> QED BY <1>8

\* The measuring pass m and the real pass r before the turn of tensor n.
Twin(m, r, n, M, d, E) == Sim(m, r, d, E) /\ Top(m.blocks) <= (n - 1) * M

\* One turn of both passes, with the bound on what is in use.
LEMMA TwinTurn ==
  ASSUME GraphInv, Grown, NEW M, Bound(M), NEW d \in Nat, NEW E \in Nat,
         NEW t \in Tensors, NEW m, NEW r, Twin(m, r, t, M, d, E),
         Sound(m, t, 0, Unlimited), NEW lo, NEW hi, Sound(r, t, lo, hi),
         NEW c, c = Turn(m, t), c.failed = FALSE, NEW x, x = Turn(r, t),
         c.max_size + d < E
  PROVE  Twin(c, x, t + 1, M, d, E)
<1>1. M \in Nat /\ N * M < Unlimited /\ AllocSize(t) <= M /\ AllocSize(t) \in Nat
  BY GraphFacts DEF Bound
<1>2. Sim(m, r, d, E) /\ Top(m.blocks) <= (t - 1) * M
  BY DEF Twin
<1>3. t - 1 \in Nat /\ N \in Nat /\ t - 1 < N /\ (t + 1) - 1 = t /\ t <= N /\ t \in Nat
  BY GrownFacts, GraphFacts
<1>4. Top(m.blocks) \in Nat
  BY <1>2, SimFacts
<1>5. (t - 1) * M + M <= N * M
  BY <1>1, <1>3, Monotone
<1>6. (t - 1) * M + M = t * M
  BY <1>1, <1>3
<1>p. PICK p \in Nat : p = (t - 1) * M
  BY <1>1, <1>3
<1>q. PICK q \in Nat : q = N * M
  BY <1>1, <1>3
<1>u. Unlimited \in Nat
  BY AllocAssumptionHolds DEF AllocAssumption
<1>7. Top(m.blocks) + AllocSize(t) < Unlimited
  <2>1. Top(m.blocks) <= p /\ p + M <= q /\ q < Unlimited
    BY <1>1, <1>2, <1>5, <1>p, <1>q
  <2> QED BY <1>1, <1>4, <1>u, <2>1
<1>8. SimStep(m, c, x, d, E, AllocSize(t))
  BY <1>2, <1>7, SimTurn
<1>9. Sim(c, x, d, E) /\ Top(c.blocks) <= Top(m.blocks) + AllocSize(t)
  BY <1>8 DEF SimStep
<1>10. Top(c.blocks) \in Nat
  BY <1>9, SimFacts
<1>11. Top(c.blocks) <= t * M
  <2>1. Top(m.blocks) <= p /\ p + M = t * M
    BY <1>2, <1>6, <1>p
  <2> QED BY <1>1, <1>4, <1>9, <1>10, <2>1
<1> QED BY <1>3, <1>9, <1>11 DEF Twin

\* Both passes start from the same fields.
LEMMA TwinFresh ==
  ASSUME GraphInv, NEW M, Bound(M), NEW base \in Nat, NEW size \in Nat,
         RoundUp(base) - base < size, NEW m, m = Fresh(0, Unlimited), NEW r, r = Fresh(base, size)
  PROVE  Twin(m, r, 1, M, RoundUp(base), base + size)
<1>u. Unlimited \in Nat /\ RoundUp(0) = 0 /\ RoundUp(base) \in Nat /\ base <= RoundUp(base)
  BY AllocAssumptionHolds, RoundUpFacts DEF AllocAssumption
<1>0. 0 < Unlimited
  <2>1. start.nodes \in Nat /\ FirstNode \in Nat /\ FirstNode >= 1
    <3>1. \A s \in Starts : s.nodes \in Nat \ {0}
      BY AllocAssumptionHolds DEF AllocAssumption
    <3>2. start \in Starts
      BY DEF GraphInv
    <3> QED BY <3>1, <3>2, GraphFacts
  <2>2. N \in Nat
    BY <2>1 DEF N
  <2>3. PICK n \in Nat : n = N
    BY <2>2
  <2>4. M \in Nat /\ n * M < Unlimited
    BY <2>3 DEF Bound
  <2>5. n * M \in Nat
    BY <2>4
  <2> QED BY <1>u, <2>4, <2>5
<1>1. IsFresh(m, 0, Unlimited)
  <2>1. 0 \in Nat /\ RoundUp(0) - 0 < Unlimited
    BY <1>u, <1>0
  <2> QED BY <1>u, <2>1, FreshTyped
<1>2. IsFresh(r, base, size)
  BY FreshTyped
<1>3. /\ Typed(m) /\ m.failed = FALSE /\ m.max_size = 0
      /\ m.blocks = <<[addr |-> 0, size |-> Unlimited - (0 - 0)]>>
      /\ \A t \in Tensors : 
           /\ m.data[t] = IF graph[Origin(t)].kind = "weight" THEN External ELSE NULL
           /\ m.view_src[t] = graph[t].of
           /\ m.n_children[t] = Cardinality(ReadBy(Reads, t))
           /\ m.n_views[t] = Cardinality({k \in Tensors : graph[k].of = t})
  BY <1>1, <1>u DEF IsFresh
<1>4. /\ Typed(r) /\ r.failed = FALSE
      /\ r.blocks = <<[addr |-> RoundUp(base), size |-> size - (RoundUp(base) - base)]>>
      /\ \A t \in Tensors : 
           /\ r.data[t] = IF graph[Origin(t)].kind = "weight" THEN External ELSE NULL
           /\ r.view_src[t] = graph[t].of
           /\ r.n_children[t] = Cardinality(ReadBy(Reads, t))
           /\ r.n_views[t] = Cardinality({k \in Tensors : graph[k].of = t})
  BY <1>2 DEF IsFresh
<1>5. Shifted(m.blocks, r.blocks, RoundUp(base), base + size)
  <2>1. PICK b : b = [addr |-> 0, size |-> Unlimited - (0 - 0)]
    OBVIOUS
  <2>2. PICK e : e = [addr |-> RoundUp(base), size |-> size - (RoundUp(base) - base)]
    OBVIOUS
  <2>3. /\ Len(m.blocks) = 1 /\ Len(r.blocks) = 1 /\ m.blocks[1] = b /\ r.blocks[1] = e
    <3>1. m.blocks = <<b>> /\ r.blocks = <<e>>
      BY <1>3, <1>4, <2>1, <2>2
    <3> QED BY <3>1
  <2>4. (\A k \in 1..1 : k = 1) /\ \A k \in 1..(1 - 1) : FALSE
    OBVIOUS
  <2>5. e.addr = b.addr + RoundUp(base) /\ End(b) = Unlimited /\ End(e) = base + size
    BY <1>u, <2>1, <2>2 DEF End
  <2> QED BY <2>3, <2>4, <2>5 DEF Shifted
<1>6. Top(m.blocks) = 0
  BY <1>3 DEF Top
<1>7. r.view_src = m.view_src /\ r.n_children = m.n_children /\ r.n_views = m.n_views
  <2>1. /\ m.view_src \in [Tensors -> Nat] /\ r.view_src \in [Tensors -> Nat]
        /\ m.n_children \in [Tensors -> Int] /\ r.n_children \in [Tensors -> Int]
        /\ m.n_views \in [Tensors -> Int] /\ r.n_views \in [Tensors -> Int]
    BY <1>3, <1>4 DEF Typed
  <2>2. \A t \in Tensors : /\ r.view_src[t] = m.view_src[t]
                           /\ r.n_children[t] = m.n_children[t]
                           /\ r.n_views[t] = m.n_views[t]
    BY <1>3, <1>4
  <2> QED BY <2>1, <2>2
<1>8. ASSUME NEW t \in Tensors
      PROVE  r.data[t] = IF IsOwn(m, t) THEN m.data[t] + RoundUp(base) ELSE m.data[t]
  <2>1. m.data[t] = -1 \/ m.data[t] = -2
    BY <1>3 DEF External, NULL
  <2>2. ~IsOwn(m, t)
    BY <2>1 DEF IsOwn
  <2>3. r.data[t] = m.data[t]
    BY <1>3, <1>4
  <2> QED BY <2>2, <2>3
<1>9. Top(m.blocks) <= m.max_size /\ Top(m.blocks) <= (1 - 1) * M
  BY <1>3, <1>6 DEF Bound
<1>10. Sim(m, r, RoundUp(base), base + size)
  BY <1>3, <1>4, <1>5, <1>7, <1>8, <1>9, Zenon DEF Sim
<1> QED BY <1>9, <1>10 DEF Twin

\* What llama_new_context_with_model knows of the measuring pass h and the
\* buffer.
Measured(h, base, size) ==
    /\ Pass(h, 0, Unlimited) /\ h[N].failed = FALSE
    /\ base \in Nat /\ base < Alignment /\ size = h[N].max_size + Alignment

\* The real pass g in the buffer that was measured.
Twins(h, g, base, size) ==
    /\ Measured(h, base, size) /\ Pass(g, base, size)

\* The measured pass never failed, and its buffer has room for the real one.
LEMMA MeasuredFacts ==
  ASSUME GraphInv, Grown, NEW h, NEW base, NEW size, Measured(h, base, size)
  PROVE  /\ size \in Nat /\ base \in Nat /\ RoundUp(base) - base < size
         /\ RoundUp(base) \in Nat /\ base <= RoundUp(base)
         /\ \A i \in 0..N : /\ Sound(h[i], i + 1, 0, Unlimited)
                            /\ h[i].failed = FALSE
                            /\ h[i].max_size + RoundUp(base) < base + size
<1>1. Unlimited \in Nat /\ RoundUp(0) = 0 /\ Alignment \in Nat \ {0}
  BY AllocAssumptionHolds, RoundUpFacts DEF AllocAssumption
<1>2. N \in Nat /\ N \in 0..N
  BY GrownFacts
<1>3. base \in Nat /\ base < Alignment /\ size = h[N].max_size + Alignment
  BY DEF Measured
<1>4. RoundUp(base) \in Nat /\ base <= RoundUp(base) /\ RoundUp(base) < base + Alignment
  BY <1>3, RoundUpFacts
<1>5. 0 < Unlimited
  <2>1. PICK M : Bound(M)
    BY BoundExists
  <2>2. PICK n \in Nat : n = N
    BY <1>2
  <2>3. M \in Nat /\ n * M < Unlimited
    BY <2>1, <2>2 DEF Bound
  <2>4. n * M \in Nat
    BY <2>3
  <2> QED BY <1>1, <2>3, <2>4
<1>6. SoFar(h, N, 0, Unlimited)
  <2>1. 0 \in Nat /\ RoundUp(0) - 0 < Unlimited /\ 0 + Unlimited = Unlimited
    BY <1>1, <1>5
  <2>2. Pass(h, 0, Unlimited) /\ h[N].failed = FALSE
    BY DEF Measured
  <2>3. \A k \in 0..N : h[k].failed = FALSE => SoFar(h, k, 0, 0 + Unlimited)
    BY <1>1, <2>1, <2>2, PassSound
  <2> QED BY <1>2, <2>1, <2>2, <2>3
<1>7. \A i \in 0..N : Sound(h[i], i + 1, 0, Unlimited) /\ h[i].max_size <= h[N].max_size
  BY <1>6 DEF SoFar
<1>8. \A i \in 0..N : h[i].failed = FALSE /\ h[i].max_size \in Nat
  <2>1. \A i \in 0..N : i + 1 \in Nat
    BY <1>2
  <2> QED BY <1>7, <2>1, SoundTyped
<1>9. PICK X \in Nat : X = h[N].max_size
  BY <1>2, <1>8
<1>10. size = X + Alignment
  BY <1>3, <1>9
<1>11. ASSUME NEW i \in 0..N PROVE h[i].max_size + RoundUp(base) < base + size
  <2>1. h[i].max_size \in Nat /\ h[i].max_size <= X
    BY <1>7, <1>8, <1>9
  <2> QED BY <1>1, <1>3, <1>4, <1>10, <2>1
<1>12. size \in Nat /\ RoundUp(base) - base < size
  BY <1>1, <1>3, <1>4, <1>10
<1> QED BY <1>3, <1>4, <1>7, <1>8, <1>11, <1>12

\* The pass of ggml_tallocr that measured and the one in the buffer of the
\* measured size make the same choices all the way, so the second never fails.
LEMMA TwinsAlways ==
  ASSUME GraphInv, Grown, NEW h, NEW g, NEW base, NEW size, Twins(h, g, base, size)
  PROVE  \A i \in 0..N : g[i].failed = FALSE /\ Sound(g[i], i + 1, base, base + size)
<1>0. Measured(h, base, size) /\ Pass(g, base, size)
  BY DEF Twins
<1>1. /\ size \in Nat /\ base \in Nat /\ RoundUp(base) - base < size /\ RoundUp(base) \in Nat
      /\ \A i \in 0..N : /\ Sound(h[i], i + 1, 0, Unlimited)
                         /\ h[i].failed = FALSE
                         /\ h[i].max_size + RoundUp(base) < base + size
  BY <1>0, MeasuredFacts
<1>2. N \in Nat /\ \A i \in 0..(N - 1) : i + 1 \in Tensors /\ i \in Nat
  BY GrownFacts
<1>n. PICK n \in Nat : n = N
  BY <1>2
<1>d. PICK d \in Nat : d = RoundUp(base)
  BY <1>1
<1>E. PICK E \in Nat : E = base + size
  BY <1>1
<1>3. \A k \in 0..n : g[k].failed = FALSE => Sound(g[k], k + 1, base, E)
  <2>1. \A k \in 0..N : g[k].failed = FALSE => SoFar(g, k, base, base + size)
    BY <1>0, <1>1, PassSound
  <2>2. \A k \in 0..n : k \in 0..k
    OBVIOUS
  <2> QED BY <1>n, <1>E, <2>1, <2>2 DEF SoFar
<1>M. PICK M : Bound(M)
  BY BoundExists
<1> DEFINE Good == {k \in 0..n : Twin(h[k], g[k], k + 1, M, d, E)}
<1>4. 0 \in Good
  <2>1. h[0] = Fresh(0, Unlimited) /\ g[0] = Fresh(base, size)
    BY <1>0 DEF Measured, Pass
  <2>2. Twin(h[0], g[0], 1, M, d, E)
    BY <1>1, <1>M, <1>d, <1>E, <2>1, TwinFresh
  <2>3. 0 \in 0..n /\ 0 + 1 = 1
    OBVIOUS
  <2> QED BY <2>2, <2>3
<1>5. ASSUME NEW i \in 0..(n - 1), i \in Good PROVE i + 1 \in Good
  <2>t. PICK t : t = i + 1
    OBVIOUS
  <2>1. /\ t \in 1..n /\ t \in 0..n /\ t - 1 = i /\ t \in Tensors /\ i \in 0..n
    BY <1>2, <1>n, <2>t
  <2>m. PICK m : m = h[i]
    OBVIOUS
  <2>r. PICK r : r = g[i]
    OBVIOUS
  <2>c. PICK c : c = h[t]
    OBVIOUS
  <2>x. PICK x : x = g[t]
    OBVIOUS
  <2>2. Twin(m, r, t, M, d, E)
    BY <1>5, <2>m, <2>r, <2>t
  <2>3. c = Turn(m, t) /\ x = Turn(r, t)
    BY <1>0, <1>n, <2>1, <2>m, <2>r, <2>c, <2>x DEF Measured, Pass
  <2>4. Sound(m, t, 0, Unlimited) /\ c.failed = FALSE /\ c.max_size + d < E
    BY <1>1, <1>n, <1>d, <1>E, <2>1, <2>m, <2>c, <2>t
  <2>5. r.failed = FALSE
    BY <2>2 DEF Twin, Sim
  <2>6. Sound(r, t, base, E)
    BY <1>3, <2>1, <2>5, <2>r, <2>t
  <2>7. Twin(c, x, t + 1, M, d, E)
    BY <1>M, <2>1, <2>2, <2>3, <2>4, <2>6, TwinTurn
  <2> QED BY <2>1, <2>7, <2>c, <2>x, <2>t
<1>6. \A i \in 0..n : i \in Good
  <2> HIDE DEF Good
  <2> QED BY <1>4, <1>5, Induction
<1>7. \A i \in 0..n : g[i].failed = FALSE
  BY <1>6 DEF Twin, Sim
<1> QED BY <1>3, <1>7, <1>n, <1>E

-----------------------------------------------------------------------------
(* Who is where when the real pass is over.                                *)

\* A view lies inside its root.
LEMMA ViewInside ==
  ASSUME GraphInv, NEW a, Typed(a), NEW n, NEW lo, NEW hi, Places(a, n, lo, hi),
         NEW p \in Tensors, IsOwn(a, p)
  PROVE  /\ IsOwn(a, Origin(p)) /\ a.data[Origin(p)] <= a.data[p]
         /\ a.data[p] + graph[p].size <= a.data[Origin(p)] + graph[Origin(p)].size
         /\ Bytes(a, p) \subseteq Bytes(a, Origin(p))
<1>o. PICK o : o = Origin(p)
  OBVIOUS
<1>1. /\ o \in Tensors /\ graph[p].offs \in Nat /\ graph[p].size \in Nat /\ graph[o].size \in Nat
      /\ graph[p].offs + graph[p].size <= graph[o].size
      /\ graph[p].kind # "view" => o = p
      /\ graph[p].kind = "view" => o = graph[p].of
  BY <1>o, GraphFacts
<1>2. a.data[p] \in Int /\ a.data[o] \in Int
  BY <1>1, TypedFacts
<1>3. IsOwn(a, o) /\ a.data[o] <= a.data[p] /\ a.data[p] + graph[p].size <= a.data[o] + graph[o].size
  <2>1. CASE graph[p].kind # "view"
    BY <1>1, <1>2, <2>1
  <2>2. CASE graph[p].kind = "view"
    <3>1. IsOwn(a, o) /\ a.data[p] = a.data[o] + graph[p].offs
      BY <1>1, <2>2 DEF Places, PlaceOf
    <3> QED BY <1>1, <1>2, <3>1
  <2> QED BY <2>1, <2>2
<1>4. \A x \in Bytes(a, p) : x \in Bytes(a, o)
  <2>1. Bytes(a, p) = a.data[p]..(a.data[p] + graph[p].size - 1)
    BY DEF Bytes
  <2>2. Bytes(a, o) = a.data[o]..(a.data[o] + graph[o].size - 1)
    BY <1>3 DEF Bytes
  <2>3. \A x \in a.data[p]..(a.data[p] + graph[p].size - 1) :
           x \in a.data[o]..(a.data[o] + graph[o].size - 1)
    BY <1>1, <1>2, <1>3
  <2> QED BY <2>1, <2>2, <2>3
<1> QED BY <1>3, <1>4, <1>o

\* The nodes of a pass are apart, and the inputs stay where they are.
Kempt(g, k) ==
    /\ Apart(g[k], k + 1)
    /\ \A t \in Tensors : t < FirstNode => /\ g[k].data[t] = g[FirstNode - 1].data[t]
                                           /\ g[k].view_src[t] = g[FirstNode - 1].view_src[t]

\* Every node of the real pass is apart, from its turn on.
LEMMA PassApart ==
  ASSUME GraphInv, Grown, NEW h, NEW g, NEW base, NEW size, Twins(h, g, base, size)
  PROVE  \A k \in (FirstNode - 1)..N : Kempt(g, k)
<1>0. /\ N \in Nat /\ FirstNode - 1 \in Nat /\ \A i \in 0..(N - 1) : i + 1 \in Tensors /\ i \in Nat
  BY GrownFacts
<1>n. PICK n \in Nat : n = N
  BY <1>0
<1>f. PICK f \in Nat : f = FirstNode - 1 /\ FirstNode = f + 1
  BY <1>0, GraphFacts
<1>b. base \in Nat /\ size \in Nat /\ base + size \in Nat
  <2>1. Measured(h, base, size)
    BY DEF Twins
  <2>2. base \in Nat /\ size \in Nat
    BY <2>1, MeasuredFacts
  <2> QED BY <2>2
<1>E. PICK E \in Nat : E = base + size
  BY <1>b
<1>s. \A i \in 0..n : g[i].failed = FALSE /\ Sound(g[i], i + 1, base, E)
  BY <1>n, <1>E, TwinsAlways
<1>p. \A i \in 1..n : g[i] = Turn(g[i - 1], i)
  BY <1>n DEF Twins, Pass
<1>1. Kempt(g, f)
  <2>1. \A t \in FirstNode..((f + 1) - 1) : FALSE
    BY <1>f
  <2> QED BY <1>f, <2>1 DEF Kempt, Apart
<1> DEFINE Good == {k \in 0..n : k >= f => Kempt(g, k)}
<1>2. 0 \in Good
  <2>1. 0 \in 0..n /\ (0 >= f => f = 0)
    OBVIOUS
  <2> QED BY <1>1, <2>1
<1>3. ASSUME NEW i \in 0..(n - 1), i \in Good PROVE i + 1 \in Good
  <2>t. PICK t : t = i + 1
    OBVIOUS
  <2>1. t \in 1..n /\ t \in 0..n /\ i \in 0..n /\ t - 1 = i /\ t \in Tensors /\ i \in Nat
    BY <1>0, <1>n, <2>t
  <2> SUFFICES ASSUME t >= f PROVE Kempt(g, t)
    BY <2>1, <2>t
  <2>2. CASE t = f
    BY <1>1, <2>2
  <2>3. CASE t # f
    <3>1. i >= f /\ t >= FirstNode /\ ~(t < FirstNode)
      BY <1>f, <2>1, <2>3, <2>t
    <3>2. Kempt(g, i)
      BY <1>3, <3>1
    <3>a. PICK a : a = g[i]
      OBVIOUS
    <3>c. PICK c : c = g[t]
      OBVIOUS
    <3>3. c = PlaceNode(a, t)
      BY <1>p, <2>1, <3>1, <3>a, <3>c DEF Turn
    <3>4. c.failed = FALSE /\ Sound(a, t, base, E)
      BY <1>s, <2>1, <2>t, <3>a, <3>c
    <3>5. RoundInv(a, t, base, E)
      BY <3>1, <3>4 DEF Sound
    <3>6. Round(a, c, t, base, E)
      BY <1>b, <2>1, <3>1, <3>3, <3>4, <3>5, PlaceNodeRound
    <3>7. OnlyAt(a, c, t) /\ (Apart(a, t) => Apart(c, t + 1))
      BY <3>6 DEF Round
    <3>8. Apart(a, t)
      BY <3>2, <3>a, <2>t DEF Kempt
    <3>9. ASSUME NEW u \in Tensors, u < FirstNode
          PROVE  c.data[u] = g[f].data[u] /\ c.view_src[u] = g[f].view_src[u]
      <4>1. u # t
        BY <3>1, <3>9
      <4>2. c.data[u] = a.data[u] /\ c.view_src[u] = a.view_src[u]
        BY <3>7, <4>1 DEF OnlyAt
      <4> QED BY <1>f, <3>2, <3>9, <3>a, <4>2 DEF Kempt
    <3> QED BY <1>f, <3>7, <3>8, <3>9, <3>c DEF Kempt
  <2> QED BY <2>2, <2>3
<1>4. \A i \in 0..n : i \in Good
  <2> HIDE DEF Good
  <2> QED BY <1>2, <1>3, Induction
<1>5. \A k \in f..n : k \in 0..n /\ k >= f
  OBVIOUS
<1> QED BY <1>4, <1>5, <1>f, <1>n

\* Where everything is when the real pass is over.
Settled(a, base, size) ==
    /\ Typed(a) /\ Places(a, N + 1, base, base + size) /\ Apart(a, N + 1)
    /\ base \in Nat /\ size \in Nat

\* The real pass ends with every tensor in place.
LEMMA PassSettled ==
  ASSUME GraphInv, Grown, NEW h, NEW g, NEW base, NEW size, Twins(h, g, base, size)
  PROVE  Settled(g[N], base, size)
<1>0. N \in Nat /\ FirstNode - 1 \in Nat /\ FirstNode - 1 <= N /\ N + 1 \in Nat
  BY GrownFacts
<1>1. base \in Nat /\ size \in Nat
  <2>1. Measured(h, base, size)
    BY DEF Twins
  <2> QED BY <2>1, MeasuredFacts
<1>2. N \in 0..N /\ N \in (FirstNode - 1)..N
  BY <1>0
<1>3. Sound(g[N], N + 1, base, base + size)
  BY <1>2, TwinsAlways
<1>4. Typed(g[N]) /\ Places(g[N], N + 1, base, base + size)
  BY <1>0, <1>3, SoundTyped
<1>5. Kempt(g, N)
  BY <1>2, PassApart
<1> QED BY <1>1, <1>4, <1>5 DEF Settled, Kempt

\* The places of the inputs, which the caller writes, are apart.
LEMMA InputsApart ==
  ASSUME GraphInv, Grown, NEW h, NEW g, NEW base, NEW size, Twins(h, g, base, size),
         NEW b, b = g[FirstNode - 1],
         NEW o \in Tensors, o < FirstNode, IsOwn(b, o),
         NEW q \in Tensors, q < FirstNode, IsOwn(b, q), o # q,
         NEW x \in Bytes(b, o)
  PROVE  x \notin Bytes(b, q)
<1>0. FirstNode - 1 \in 0..N /\ (FirstNode - 1) + 1 = FirstNode /\ FirstNode \in Nat
  BY GrownFacts, GraphFacts
<1>1. Sound(b, FirstNode, base, base + size)
  BY <1>0, TwinsAlways
<1>2. FirstNode <= FirstNode
  BY <1>0
<1>3. BuildInv(b, FirstNode, base, base + size)
  BY <1>1, <1>2 DEF Sound
<1>4. PICK W \in SUBSET Tensors : /\ Held(b, FirstNode, Reads, W, base, base + size)
                                  /\ \A u \in Tensors : IsOwn(b, u) => u \in W
  BY <1>3 DEF BuildInv
<1>5. Typed(b) /\ Places(b, FirstNode, base, base + size) /\ Kept(b, W) /\ o \in W /\ q \in W
  BY <1>4 DEF Held
<1>6. \A u \in Tensors : u < FirstNode => Region(b, u) = u
  <2> SUFFICES ASSUME NEW u \in Tensors, u < FirstNode PROVE Region(b, u) = u
    OBVIOUS
  <2>1. graph[u].kind \in {"input", "weight"}
    BY GraphFacts
  <2>2. PlaceOf(b, u, FirstNode, base, base + size)
    BY <1>5 DEF Places
  <2>3. b.view_src[u] = None
    BY <2>1, <2>2 DEF PlaceOf
  <2> QED BY <2>3 DEF Region
<1>7. AEnd(b, o) <= b.data[q] \/ AEnd(b, q) <= b.data[o]
  BY <1>5, <1>6 DEF Kept
<1>8. /\ b.data[o] \in Nat /\ AEnd(b, o) \in Nat /\ b.data[o] + graph[o].size <= AEnd(b, o)
      /\ b.data[q] \in Nat /\ AEnd(b, q) \in Nat /\ b.data[q] + graph[q].size <= AEnd(b, q)
  BY <1>5, OwnFacts
<1>9. graph[o].size \in Nat /\ graph[q].size \in Nat
  BY GraphFacts
<1>10. x \in b.data[o]..(b.data[o] + graph[o].size - 1)
  BY DEF Bytes
<1>11. Bytes(b, q) = b.data[q]..(b.data[q] + graph[q].size - 1)
  BY DEF Bytes
<1>12. x \notin b.data[q]..(b.data[q] + graph[q].size - 1)
  BY <1>7, <1>8, <1>9, <1>10
<1> QED BY <1>11, <1>12

\* The caller's inputs are where the nodes will find them.
LEMMA InputsWritten ==
  ASSUME GraphInv, Grown, NEW h, NEW g, NEW base, NEW size, Twins(h, g, base, size),
         NEW b, b = g[FirstNode - 1], NEW buf, buf.base = base, buf.size = size,
         NEW m, m = WriteInputs(b, buf)
  PROVE  Written(g[N], m, FirstNode) /\ DOMAIN m = base..(base + size - 1)
<1>0. N \in (FirstNode - 1)..N
  <2>1. N \in Nat /\ FirstNode - 1 \in Nat /\ FirstNode - 1 <= N
    BY GrownFacts
  <2> QED BY <2>1
<1>a. PICK a : a = g[N]
  OBVIOUS
<1>1. Kempt(g, N)
  BY <1>0, PassApart
<1>2. \A t \in Tensors : t < FirstNode => a.data[t] = b.data[t]
  BY <1>1, <1>a DEF Kempt
<1>3. Settled(a, base, size)
  BY <1>a, PassSettled
<1>4. DOMAIN m = base..(base + size - 1)
  BY DEF WriteInputs
<1>5. ASSUME NEW o \in Need(ReadsFrom(FirstNode)), o < FirstNode, IsOwn(a, o),
             NEW x \in Bytes(a, o)
      PROVE  m[x] = o
  <2>1. o \in Tensors
    <3>1. ReadsFrom(FirstNode) \subseteq Reads
      BY DEF ReadsFrom
    <3> QED BY <3>1, NeedFacts
  <2>2. graph[o].kind \in {"input", "weight"} /\ o \in Nat /\ graph[o].kind # "view"
    BY <1>5, <2>1, GraphFacts
  <2>3. Typed(a) /\ Places(a, N + 1, base, base + size) /\ base \in Nat /\ size \in Nat
    BY <1>3 DEF Settled
  <2>4. PlaceOf(a, o, N + 1, base, base + size)
    BY <2>1, <2>3 DEF Places
  <2>5. graph[o].kind = "input"
    <3>1. a.data[o] # External
      BY <1>5 DEF IsOwn, External
    <3> QED BY <2>2, <2>4, <3>1 DEF PlaceOf
  <2>6. base <= a.data[o] /\ AEnd(a, o) <= base + size
    BY <1>5, <2>2, <2>4 DEF PlaceOf
  <2>7. a.data[o] \in Nat /\ AEnd(a, o) \in Nat /\ a.data[o] + graph[o].size <= AEnd(a, o)
    BY <1>5, <2>1, <2>3, OwnFacts
  <2>8. IsOwn(b, o) /\ Bytes(b, o) = Bytes(a, o)
    <3>1. a.data[o] = b.data[o]
      BY <1>2, <1>5, <2>1
    <3> QED BY <1>5, <3>1 DEF IsOwn, Bytes
  <2>9. x \in base..(base + size - 1)
    <3>1. x \in a.data[o]..(a.data[o] + graph[o].size - 1)
      BY <1>5 DEF Bytes
    <3>2. graph[o].size \in Nat
      BY <2>1, GraphFacts
    <3> QED BY <2>3, <2>6, <2>7, <3>1, <3>2
  <2>10. ASSUME NEW q \in Tensors, graph[q].kind = "input", x \in Bytes(b, q) PROVE q = o
    <3>1. q < FirstNode
      BY <2>10, GraphFacts
    <3>2. IsOwn(b, q)
      BY <2>10 DEF Bytes
    <3> QED BY <1>5, <2>1, <2>8, <2>10, <3>1, <3>2, InputsApart
  <2>h. PICK here : here = {t \in Tensors : graph[t].kind = "input" /\ x \in Bytes(b, t)}
    OBVIOUS
  <2>11. here = {o}
    BY <1>5, <2>1, <2>5, <2>8, <2>10, <2>h
  <2>12. m[x] = IF here = {} THEN None ELSE Min(here)
    BY <2>9, <2>h DEF WriteInputs
  <2>13. Min({o}) = o
    BY <2>2, MaxMinOfOne
  <2> QED BY <2>11, <2>12, <2>13
<1> QED BY <1>4, <1>5, <1>a DEF Written

-----------------------------------------------------------------------------
(* A step that changes neither graph nor start changes none of the         *)
(* operators.                                                              *)

\* A step that leaves the graph alone.
Same == graph' = graph /\ start' = start

\* The graph and what depends on it alone ...
LEMMA SameGraph ==
  ASSUME Same
  PROVE  /\ Tensors' = Tensors /\ FirstNode' = FirstNode /\ N' = N /\ Reads' = Reads
         /\ GraphInv => GraphInv'
         /\ Grown => Grown'
<1>1. Tensors' = Tensors /\ FirstNode' = FirstNode /\ N' = N /\ Reads' = Reads
  BY DEF Same, Reads, Tensors, N, FirstNode
<1>2. GraphInv => GraphInv'
  BY DEF Same, GraphInv, IsTensor, Origin, Tensors, FirstNode
<1>3. Grown => Grown'
  BY <1>1 DEF Same, Grown
<1> QED BY <1>1, <1>2, <1>3

\* ... sizes and origins ...
LEMMA SameSizes ==
  ASSUME Same, NEW t
  PROVE  AllocSize(t)' = AllocSize(t) /\ Origin(t)' = Origin(t)
BY DEF Same, AllocSize, Origin

\* ... the fresh allocator ...
LEMMA SameFresh ==
  ASSUME Same, NEW base, NEW size
  PROVE  Fresh(base, size)' = Fresh(base, size)
BY DEF Same, Fresh, Reads, Tensors, Origin, Source

\* ... an allocation ...
LEMMA SameAlloc ==
  ASSUME Same, NEW a, NEW t
  PROVE  Alloc(a, t)' = Alloc(a, t)
<1>1. AllocSize(t)' = AllocSize(t)
  BY SameSizes
<1> QED BY <1>1, SMT DEF Alloc

\* ... giving memory back ...
LEMMA SameFree ==
  ASSUME Same, NEW a, NEW t
  PROVE  FreeTensor(a, t)' = FreeTensor(a, t)
<1>1. AllocSize(t)' = AllocSize(t)
  BY SameSizes
<1> QED BY <1>1, SMT DEF FreeTensor

\* ... releasing a source ...
LEMMA SameRelease ==
  ASSUME Same, NEW a, NEW p
  PROVE  Release(a, p)' = Release(a, p)
<1>b. PICK b : b = [a EXCEPT !.n_children[p] = @ - 1]
  OBVIOUS
<1>r. PICK r : r = a.view_src[p]
  OBVIOUS
<1>c. PICK c : c = [b EXCEPT !.n_views[r] = @ - 1]
  OBVIOUS
<1>1. FreeTensor(b, p)' = FreeTensor(b, p) /\ FreeTensor(c, r)' = FreeTensor(c, r)
  BY SameFree
<1>2. Release(a, p) = IF b.n_children[p] # 0 \/ b.n_views[p] # 0 THEN b
                      ELSE IF r = None THEN FreeTensor(b, p)
                      ELSE IF c.n_views[r] = 0 /\ c.n_children[r] = 0 THEN FreeTensor(c, r)
                      ELSE c
  BY <1>b, <1>r, <1>c DEF Release
<1>3. Release(a, p)' = IF b.n_children[p] # 0 \/ b.n_views[p] # 0 THEN b
                      ELSE IF r = None THEN FreeTensor(b, p)'
                      ELSE IF c.n_views[r] = 0 /\ c.n_children[r] = 0 THEN FreeTensor(c, r)'
                      ELSE c
  BY <1>b, <1>r, <1>c DEF Release
<1> QED BY <1>1, <1>2, <1>3

\* ... placing a view ...
LEMMA SameView ==
  ASSUME Same, NEW a, NEW t
  PROVE  InitView(a, t)' = InitView(a, t)
BY DEF Same, InitView

\* ... working in place ...
LEMMA SameInPlace ==
  ASSUME Same, NEW a, NEW t, NEW p
  PROVE  /\ InPlace(a, t, p)' = InPlace(a, t, p)
         /\ Reusable(a, t, p)' <=> Reusable(a, t, p)
<1>1. \A b : InitView(b, t)' = InitView(b, t)
  BY SameView
<1>2. InPlace(a, t, p)' = InPlace(a, t, p)
  BY <1>1, Zenon DEF InPlace
<1>3. Reusable(a, t, p)' <=> Reusable(a, t, p)
  BY DEF Same, Reusable
<1> QED BY <1>2, <1>3

\* ... the turn of a node ...
LEMMA SameAllocateNode ==
  ASSUME Same, NEW a, NEW t
  PROVE  AllocateNode(a, t)' = AllocateNode(a, t)
<1>1. InitView(a, t)' = InitView(a, t) /\ Alloc(a, t)' = Alloc(a, t)
  BY SameView, SameAlloc
<1>2. \A p : InPlace(a, t, p)' = InPlace(a, t, p) /\ (Reusable(a, t, p)' <=> Reusable(a, t, p))
  BY SameInPlace
<1>3. graph' = graph
  BY DEF Same
<1> DEFINE S == {j \in DOMAIN graph[t].src : Reusable(a, t, graph[t].src[j])}
<1>4. S' = S
  BY <1>2, <1>3
<1> QED BY <1>1, <1>2, <1>3, <1>4, Zenon DEF AllocateNode

\* ... and of a leaf.
LEMMA SameInput ==
  ASSUME Same, NEW a, NEW t
  PROVE  AllocInput(a, t)' = AllocInput(a, t)
<1>1. Alloc(a, t)' = Alloc(a, t) /\ graph' = graph
  BY SameAlloc DEF Same
<1> QED BY <1>1 DEF AllocInput

\* The folds of PlaceNode.
LEMMA SameStep ==
  ASSUME Same, NEW k \in {1, 2}, NEW a, NEW x
  PROVE  Step(k, a, x)' = Step(k, a, x)
<1>1. Release(a, x)' = Release(a, x) /\ AllocateNode(a, x)' = AllocateNode(a, x)
  BY SameRelease, SameAllocateNode
<1>2. CASE k = 1
  BY <1>1, <1>2 DEF Step
<1>3. CASE k = 2
  BY <1>1, <1>3 DEF Step
<1> QED BY <1>2, <1>3

\* A fold computes the same.
LEMMA SameFold ==
  ASSUME Same, NEW k \in {1, 2}, NEW base, NEW s
  PROVE  FoldOf(k, base, s)' = FoldOf(k, base, s)
<1>1. ASSUME NEW g
      PROVE  FoldsOn(g, k, base, s, DOMAIN s)' <=> FoldsOn(g, k, base, s, DOMAIN s)
  <2>1. \A a, x : Step(k, a, x)' = Step(k, a, x)
    BY SameStep
  <2> QED BY <2>1 DEF FoldsOn
<1> QED BY <1>1, Zenon DEF FoldOf

\* The folds of the next state, in the terms of FoldOf.
LEMMA FoldReleaseNext == \A base, s : FoldLeft(Release, base, s)' = FoldOf(1, base, s)'
BY DEF FoldLeft, MapThenFoldSet, FoldOf, FoldsOn, Step

LEMMA FoldAllocateNodeNext == \A base, s : FoldLeft(AllocateNode, base, s)' = FoldOf(2, base, s)'
BY DEF FoldLeft, MapThenFoldSet, FoldOf, FoldsOn, Step

\* A whole round is the same in the next state ...
LEMMA SamePlaceNode ==
  ASSUME Same, NEW a, NEW t
  PROVE  PlaceNode(a, t)' = PlaceNode(a, t)
<1>s. PICK s : s = graph[t].src
  OBVIOUS
<1>1. graph' = graph
  BY DEF Same
<1>2. \A e : FoldLeft(AllocateNode, e, s)' = FoldLeft(AllocateNode, e, s)
  <2> SUFFICES ASSUME NEW e PROVE FoldLeft(AllocateNode, e, s)' = FoldLeft(AllocateNode, e, s)
    OBVIOUS
  <2>1. FoldOf(2, e, s)' = FoldOf(2, e, s)
    BY SameFold
  <2>2. FoldLeft(AllocateNode, e, s)' = FoldOf(2, e, s)'
    BY FoldAllocateNodeNext
  <2>3. FoldLeft(AllocateNode, e, s) = FoldOf(2, e, s)
    BY FoldAllocateNode
  <2> QED BY <2>1, <2>2, <2>3
<1>3. \A e : FoldLeft(Release, e, s)' = FoldLeft(Release, e, s)
  <2> SUFFICES ASSUME NEW e PROVE FoldLeft(Release, e, s)' = FoldLeft(Release, e, s)
    OBVIOUS
  <2>1. FoldOf(1, e, s)' = FoldOf(1, e, s)
    BY SameFold
  <2>2. FoldLeft(Release, e, s)' = FoldOf(1, e, s)'
    BY FoldReleaseNext
  <2>3. FoldLeft(Release, e, s) = FoldOf(1, e, s)
    BY FoldRelease
  <2> QED BY <2>1, <2>2, <2>3
<1>d. PICK d : d = FoldLeft(AllocateNode, a, s)
  OBVIOUS
<1>b. PICK b : b = AllocateNode(d, t)
  OBVIOUS
<1>4. d = FoldLeft(AllocateNode, a, s)' /\ b = AllocateNode(d, t)'
  BY <1>2, <1>d, <1>b, SameAllocateNode
<1>5. PlaceNode(a, t) = IF a.failed \/ b.failed THEN b ELSE FoldLeft(Release, b, s)
  BY <1>s, <1>d, <1>b DEF PlaceNode
<1>6. PlaceNode(a, t)' = IF a.failed \/ b.failed THEN b ELSE FoldLeft(Release, b, s)'
  BY <1>1, <1>4, <1>s DEF PlaceNode
<1> QED BY <1>3, <1>5, <1>6

\* ... so is a turn ...
LEMMA SameTurn ==
  ASSUME Same, NEW a, NEW t
  PROVE  Turn(a, t)' = Turn(a, t)
<1>1. /\ PlaceNode(a, t)' = PlaceNode(a, t) /\ AllocInput(a, t)' = AllocInput(a, t)
      /\ FirstNode' = FirstNode
  BY SamePlaceNode, SameInput, SameGraph
<1> QED BY <1>1 DEF Turn

\* ... so are both passes ...
LEMMA SameTwins ==
  ASSUME Same, NEW h, NEW g, NEW base, NEW size
  PROVE  Twins(h, g, base, size)' <=> Twins(h, g, base, size)
<1>1. ASSUME NEW e, NEW b, NEW z PROVE Pass(e, b, z)' <=> Pass(e, b, z)
  <2>1. N' = N
    BY SameGraph
  <2>2. Fresh(b, z)' = Fresh(b, z)
    BY SameFresh
  <2>3. \A i : Turn(e[i - 1], i)' = Turn(e[i - 1], i)
    <3> SUFFICES ASSUME NEW i PROVE Turn(e[i - 1], i)' = Turn(e[i - 1], i)
      OBVIOUS
    <3>1. PICK a : a = e[i - 1]
      OBVIOUS
    <3>2. Turn(a, i)' = Turn(a, i)
      BY SameTurn
    <3> QED BY <3>1, <3>2
  <2> QED BY <2>1, <2>2, <2>3, Zenon DEF Pass
<1>2. Measured(h, base, size)' <=> Measured(h, base, size)
  <2>1. Pass(h, 0, Unlimited)' <=> Pass(h, 0, Unlimited)
    BY <1>1
  <2>2. N' = N
    BY SameGraph
  <2> QED BY <2>1, <2>2, Zenon DEF Measured
<1>3. Pass(g, base, size)' <=> Pass(g, base, size)
  BY <1>1
<1> QED BY <1>2, <1>3, Zenon DEF Twins

\* ... and what is written.
LEMMA SameWritten ==
  ASSUME Same, NEW a, NEW m, NEW n
  PROVE  Written(a, m, n)' <=> Written(a, m, n)
<1>1. graph' = graph
  BY DEF Same
<1>2. Need(ReadsFrom(n))' = Need(ReadsFrom(n))
  <2>1. Reads' = Reads /\ \A r : Source(r)' = Source(r)
    BY <1>1, SameGraph DEF Source
  <2>2. \A r : Origin(Source(r))' = Origin(Source(r))
    BY <1>1 DEF Source, Origin
  <2> QED BY <1>1 DEF Need, ReadsFrom, Reads, Tensors, Source, Origin
<1>3. \A t : Bytes(a, t)' = Bytes(a, t)
  BY <1>1 DEF Bytes, IsOwn
<1> QED BY <1>2, <1>3, Zenon DEF Written, IsOwn

-----------------------------------------------------------------------------
(* Computing the nodes.                                                    *)

\* Every place is inside the buffer.
LEMMA InBuffer ==
  ASSUME GraphInv, Grown, NEW a, NEW base, NEW size, Settled(a, base, size), NEW p \in Tensors
  PROVE  Bytes(a, p) \subseteq base..(base + size - 1)
<1>1. Typed(a) /\ Places(a, N + 1, base, base + size) /\ base \in Nat /\ size \in Nat
  BY DEF Settled
<1>2. CASE ~IsOwn(a, p)
  BY <1>2 DEF Bytes
<1>3. CASE IsOwn(a, p)
  <2>o. PICK o : o = Origin(p)
    OBVIOUS
  <2>1. o \in Tensors /\ graph[o].kind # "view" /\ graph[o].size \in Nat
    BY <2>o, GraphFacts
  <2>2. IsOwn(a, o) /\ Bytes(a, p) \subseteq Bytes(a, o)
    BY <1>1, <1>3, <2>o, ViewInside
  <2>3. base <= a.data[o] /\ AEnd(a, o) <= base + size
    BY <1>1, <2>1, <2>2 DEF Places, PlaceOf
  <2>4. a.data[o] \in Nat /\ AEnd(a, o) \in Nat /\ a.data[o] + graph[o].size <= AEnd(a, o)
    BY <1>1, <2>1, <2>2, OwnFacts
  <2>5. Bytes(a, o) = a.data[o]..(a.data[o] + graph[o].size - 1)
    BY <2>2 DEF Bytes
  <2>6. \A x \in a.data[o]..(a.data[o] + graph[o].size - 1) : x \in base..(base + size - 1)
    BY <1>1, <2>1, <2>3, <2>4
  <2> QED BY <2>2, <2>5, <2>6
<1> QED BY <1>2, <1>3

\* What node t reads is needed, and has been there before t.
LEMMA SourceNeeded ==
  ASSUME GraphInv, NEW t \in Tensors, NEW j \in DOMAIN graph[t].src, NEW p, p = graph[t].src[j]
  PROVE  p \in Tensors /\ p < t /\ Origin(p) \in Need(ReadsFrom(t)) /\ Origin(p) < t
<1>1. p \in Tensors /\ p < t
  BY SourceFacts
<1>2. <<t, j>> \in ReadsFrom(t) /\ Source(<<t, j>>) = p
  BY ReadFacts, ReadsSplit
<1>3. Origin(p) \in Need(ReadsFrom(t))
  BY <1>2 DEF Need
<1>4. Origin(p) <= p /\ Origin(p) \in Nat /\ p \in Nat /\ t \in Nat
  BY <1>1, GraphFacts
<1> QED BY <1>1, <1>3, <1>4

\* What the written memory is worth to node t.
LEMMA SourcesIntact ==
  ASSUME GraphInv, Grown, NEW a, NEW base, NEW size, Settled(a, base, size),
         NEW t \in Tensors, t >= FirstNode, NEW m, Written(a, m, t),
         NEW j \in DOMAIN graph[t].src, NEW p, p = graph[t].src[j]
  PROVE  /\ \A x \in Bytes(a, p) : m[x] = Origin(p)
         /\ graph[t].kind = "op" => \/ Bytes(a, p) \cap Bytes(a, t) = {}
                                    \/ graph[t].inplace /\ Bytes(a, p) = Bytes(a, t)
<1>1. Typed(a) /\ Places(a, N + 1, base, base + size) /\ Apart(a, N + 1)
  BY DEF Settled
<1>o. PICK o : o = Origin(p)
  OBVIOUS
<1>2. p \in Tensors /\ o \in Need(ReadsFrom(t)) /\ o < t
  BY <1>o, SourceNeeded
<1>3. CASE ~IsOwn(a, p)
  BY <1>3 DEF Bytes
<1>4. CASE IsOwn(a, p)
  <2>1. IsOwn(a, o) /\ Bytes(a, p) \subseteq Bytes(a, o)
    BY <1>1, <1>2, <1>4, <1>o, ViewInside
  <2>2. \A x \in Bytes(a, o) : m[x] = o
    BY <1>2, <2>1 DEF Written
  <2>3. ASSUME graph[t].kind = "op"
        PROVE  \/ Bytes(a, p) \cap Bytes(a, t) = {}
               \/ graph[t].inplace /\ Bytes(a, p) = Bytes(a, t)
    <3>1. t \in FirstNode..((N + 1) - 1)
      <4>1. t \in 1..N /\ N \in Nat /\ FirstNode \in Nat
        BY GrownFacts, GraphFacts
      <4> QED BY <4>1
    <3>2. NodeApart(a, t)
      BY <1>1, <2>3, <3>1 DEF Apart
    <3>3. IsOwn(a, t)
      BY <3>2 DEF NodeApart
    <3>4. \/ Away(a, t, p)
          \/ graph[t].inplace /\ a.data[t] = a.data[p] /\ graph[t].size = graph[p].size
      BY <1>4, <3>2 DEF NodeApart
    <3>5. /\ Bytes(a, p) = a.data[p]..(a.data[p] + graph[p].size - 1)
          /\ Bytes(a, t) = a.data[t]..(a.data[t] + graph[t].size - 1)
      BY <1>4, <3>3 DEF Bytes
    <3>6. CASE Away(a, t, p)
      <4>1. /\ a.data[p] \in Int /\ a.data[t] \in Int /\ graph[p].size \in Nat /\ graph[t].size \in Nat
        BY <1>1, <1>2, TypedFacts, GraphFacts
      <4>2. a.data[p] + graph[p].size <= a.data[t] \/ a.data[t] + graph[t].size <= a.data[p]
        BY <3>6 DEF Away
      <4>3. ~\E x : /\ x \in a.data[p]..(a.data[p] + graph[p].size - 1)
                    /\ x \in a.data[t]..(a.data[t] + graph[t].size - 1)
        BY <4>1, <4>2
      <4> QED BY <3>5, <4>3
    <3>7. CASE graph[t].inplace /\ a.data[t] = a.data[p] /\ graph[t].size = graph[p].size
      BY <3>5, <3>7
    <3> QED BY <3>4, <3>6, <3>7
  <2> QED BY <1>o, <2>1, <2>2, <2>3
<1> QED BY <1>3, <1>4

\* The memory m when node t has been computed.
After(m, a, t) ==
    [x \in DOMAIN m |-> IF graph[t].kind = "op" /\ x \in Bytes(a, t) THEN t ELSE m[x]]

\* Computing node t keeps what later nodes read.
LEMMA ComputeWritten ==
  ASSUME GraphInv, Grown, NEW a, NEW base, NEW size, Settled(a, base, size),
         NEW t \in Tensors, t >= FirstNode,
         NEW m, DOMAIN m = base..(base + size - 1), Written(a, m, t),
         NEW c, c = After(m, a, t)
  PROVE  /\ DOMAIN c = base..(base + size - 1) /\ Written(a, c, t + 1)
         /\ \A x \in Bytes(a, t) : c[x] = Origin(t)
<1>1. Typed(a) /\ Places(a, N + 1, base, base + size) /\ Apart(a, N + 1)
  BY DEF Settled
<1>0. c = [x \in DOMAIN m |-> IF graph[t].kind = "op" /\ x \in Bytes(a, t) THEN t ELSE m[x]]
  BY DEF After
<1>2. DOMAIN c = base..(base + size - 1)
  BY <1>0
<1>3. \A p \in Tensors : Bytes(a, p) \subseteq DOMAIN m
  BY InBuffer
<1>4. t \in Nat /\ graph[t].kind \in {"op", "view"} /\ Origin(t) \in Nat
  BY GraphFacts
<1>5. Need(ReadsFrom(t + 1)) \subseteq Need(ReadsFrom(t))
  BY ReadsSplit DEF Need
<1>6. ASSUME NEW o \in Need(ReadsFrom(t + 1)), o < t + 1, IsOwn(a, o), NEW x \in Bytes(a, o)
      PROVE  c[x] = o
  <2>1. o \in Tensors /\ graph[o].kind # "view" /\ o \in Nat
    <3>1. ReadsFrom(t + 1) \subseteq Reads
      BY DEF ReadsFrom
    <3>2. o \in Tensors /\ graph[o].kind # "view"
      BY <3>1, NeedFacts
    <3> QED BY <3>2, GraphFacts
  <2>2. x \in DOMAIN m
    BY <1>3, <1>6, <2>1
  <2>3. CASE o = t
    <3>1. graph[t].kind = "op" /\ x \in Bytes(a, t)
      BY <1>4, <1>6, <2>1, <2>3
    <3> QED BY <1>0, <2>2, <2>3, <3>1
  <2>4. CASE o # t
    <3>1. o < t
      BY <1>4, <1>6, <2>1, <2>4
    <3>2. m[x] = o
      BY <1>5, <1>6, <3>1 DEF Written
    <3>3. ASSUME graph[t].kind = "op" PROVE x \notin Bytes(a, t)
      <4>1. t \in FirstNode..((N + 1) - 1)
        <5>1. t \in 1..N /\ N \in Nat /\ FirstNode \in Nat
          BY GrownFacts, GraphFacts
        <5> QED BY <5>1
      <4>2. NodeApart(a, t)
        BY <1>1, <3>3, <4>1 DEF Apart
      <4>3. Away(a, t, o)
        BY <1>6, <3>1, <4>2 DEF NodeApart
      <4>4. a.data[o] \in Int /\ a.data[t] \in Int /\ graph[o].size \in Nat /\ graph[t].size \in Nat
        BY <1>1, <2>1, TypedFacts, GraphFacts
      <4>5. /\ x \in a.data[o]..(a.data[o] + graph[o].size - 1)
            /\ Bytes(a, t) \subseteq a.data[t]..(a.data[t] + graph[t].size - 1)
        BY <1>6 DEF Bytes
      <4>6. x \notin a.data[t]..(a.data[t] + graph[t].size - 1)
        BY <4>3, <4>4, <4>5, SMTT(30) DEF Away
      <4> QED BY <4>5, <4>6
    <3> QED BY <1>0, <2>2, <3>2, <3>3
  <2> QED BY <2>3, <2>4
<1>7. ASSUME NEW x \in Bytes(a, t) PROVE c[x] = Origin(t)
  <2>1. x \in DOMAIN m
    BY <1>3, <1>7
  <2>2. CASE graph[t].kind = "op"
    <3>1. Origin(t) = t
      BY <2>2 DEF Origin
    <3> QED BY <1>0, <1>7, <2>1, <2>2, <3>1
  <2>3. CASE graph[t].kind = "view"
    <3>p. PICK p : p = graph[t].src[1]
      OBVIOUS
    <3>1. 1 \in DOMAIN graph[t].src /\ Origin(t) = Origin(p)
      BY <2>3, <3>p, SourceFacts
    <3>2. Origin(t) \in Need(ReadsFrom(t)) /\ Origin(t) < t
      BY <3>1, <3>p, SourceNeeded
    <3>3. IsOwn(a, t)
      BY <1>7 DEF Bytes
    <3>4. IsOwn(a, Origin(t)) /\ x \in Bytes(a, Origin(t))
      BY <1>1, <1>7, <3>3, ViewInside
    <3>5. m[x] = Origin(t)
      BY <3>2, <3>4 DEF Written
    <3> QED BY <1>0, <2>1, <2>3, <3>5
  <2> QED BY <1>4, <2>2, <2>3
<1> QED BY <1>2, <1>6, <1>7 DEF Written

\* The free list of a round keeps off what is read later.
LEMMA FreeUnneeded ==
  ASSUME GraphInv, NEW a, NEW n \in Nat, NEW lo \in Nat, NEW hi \in Nat, RoundInv(a, n, lo, hi),
         NEW k \in DOMAIN a.blocks
  PROVE  /\ a.blocks[k].size > 0 /\ a.blocks[k].addr >= lo
         /\ a.blocks[k].addr + a.blocks[k].size <= hi
         /\ k > 1 => a.blocks[k - 1].addr + a.blocks[k - 1].size < a.blocks[k].addr
         /\ \A t \in Tensors : \A j \in DOMAIN graph[t].src :
              (t >= n /\ a.data[graph[t].src[j]] >= 0) =>
                ~Overlap(a.blocks[k], a.data[graph[t].src[j]],
                         a.data[graph[t].src[j]] + graph[graph[t].src[j]].size)
<1>1. PICK W \in SUBSET Tensors : Held(a, n, ReadsFrom(n), W, lo, hi) /\ Covers(a, ReadsFrom(n), W)
  BY DEF RoundInv
<1>2. Typed(a) /\ Ordered(a.blocks, lo, hi) /\ Places(a, n, lo, hi) /\ Kept(a, W)
  BY <1>1 DEF Held
<1>3. a.blocks \in Seq(Block)
  BY <1>2, TypedFacts
<1>B. PICK B : B = a.blocks
  OBVIOUS
<1>4. /\ Len(B) \in Nat /\ DOMAIN B = 1..Len(B)
      /\ \A i \in 1..Len(B) : B[i].addr \in Nat /\ B[i].size \in Nat
  BY <1>3, <1>B, BlockFacts
<1>5. k \in 1..Len(B)
  BY <1>4, <1>B
<1>6. B[k].size > 0 /\ lo <= B[k].addr /\ B[k].addr + B[k].size <= hi
  BY <1>2, <1>5, <1>B DEF Ordered, End
<1>7. ASSUME k > 1 PROVE B[k - 1].addr + B[k - 1].size < B[k].addr
  <2>1. k - 1 \in 1..Len(B) /\ k - 1 < k
    BY <1>4, <1>5, <1>7
  <2> QED BY <1>2, <1>5, <1>B, <2>1 DEF Ordered, End
<1>8. ASSUME NEW t \in Tensors, NEW j \in DOMAIN graph[t].src, t >= n,
             NEW p, p = graph[t].src[j], a.data[p] >= 0
      PROVE  ~Overlap(B[k], a.data[p], a.data[p] + graph[p].size)
  <2>o. PICK o : o = Origin(p)
    OBVIOUS
  <2>1. p \in Tensors /\ <<t, j>> \in Reads /\ Source(<<t, j>>) = p
    BY <1>8, SourceFacts, ReadFacts
  <2>2. o \in Need(ReadsFrom(n))
    <3>1. <<t, j>> \in ReadsFrom(n)
      BY <1>8, <2>1 DEF ReadsFrom
    <3> QED BY <2>1, <2>o, <3>1 DEF Need
  <2>3. IsOwn(a, p)
    BY <1>8 DEF IsOwn
  <2>4. /\ IsOwn(a, o) /\ a.data[o] <= a.data[p]
        /\ a.data[p] + graph[p].size <= a.data[o] + graph[o].size
    BY <1>2, <2>1, <2>3, <2>o, ViewInside
  <2>5. o \in W /\ o \in Tensors /\ graph[o].kind # "view"
    BY <1>1, <1>2, <2>2, <2>4 DEF Covers, Kept
  <2>6. Clear(B, a.data[o], AEnd(a, Region(a, o)))
    BY <1>2, <1>B, <2>5 DEF Kept
  <2>7. End(B[k]) <= a.data[o] \/ AEnd(a, Region(a, o)) <= B[k].addr
    BY <1>5, <2>6 DEF Clear
  <2>8. /\ Region(a, o) \in Tensors /\ IsOwn(a, Region(a, o))
        /\ AEnd(a, o) <= AEnd(a, Region(a, o))
    BY <1>2, <2>4, <2>5, RegionFacts
  <2>9. /\ a.data[o] \in Nat /\ AEnd(a, o) \in Nat /\ a.data[o] + graph[o].size <= AEnd(a, o)
        /\ AEnd(a, Region(a, o)) \in Nat
    BY <1>2, <2>4, <2>5, <2>8, OwnFacts
  <2>10. a.data[p] \in Int /\ graph[p].size \in Nat /\ graph[o].size \in Nat
    BY <1>2, <2>1, <2>5, TypedFacts, GraphFacts
  <2>11. End(B[k]) = B[k].addr + B[k].size /\ B[k].addr \in Nat /\ B[k].size \in Nat
    BY <1>4, <1>5 DEF End
  <2>12. ~(a.data[p] < B[k].addr + B[k].size /\ B[k].addr < a.data[p] + graph[p].size)
    BY <2>4, <2>7, <2>8, <2>9, <2>10, <2>11
  <2> QED BY <2>12 DEF Overlap
<1>9. ASSUME NEW t \in Tensors, NEW j \in DOMAIN graph[t].src, t >= n, a.data[graph[t].src[j]] >= 0
      PROVE  ~Overlap(B[k], a.data[graph[t].src[j]],
                      a.data[graph[t].src[j]] + graph[graph[t].src[j]].size)
  <2>p. PICK p : p = graph[t].src[j]
    OBVIOUS
  <2>1. ~Overlap(B[k], a.data[p], a.data[p] + graph[p].size)
    BY <1>8, <1>9, <2>p
  <2> QED BY <2>1, <2>p
<1> QED BY <1>4, <1>5, <1>6, <1>7, <1>9, <1>B

-----------------------------------------------------------------------------
(* The invariant of the specification, action by action.                   *)

\* The allocator a, the next node n and the memory m in phase ph, when the
\* real pass is g and the measuring pass was h.
Stage(h, g, ph, n, a, buf, m) ==
    /\ Twins(h, g, buf.base, buf.size)
    /\ n \in FirstNode..N /\ ph \in {"alloc", "compute", "done"}
    /\ a = IF ph = "alloc" THEN g[n - 1] ELSE g[N]
    /\ DOMAIN m = buf.base..(buf.base + buf.size - 1)
    /\ ph = "alloc" => Written(g[N], m, FirstNode)
    /\ ph = "compute" => Written(g[N], m, n)
    /\ ph = "done" => \A x \in Bytes(a, N) : m[x] = Origin(N)

\* In a decode the allocator, the next node and the memory are where the two
\* passes say.
PassInv ==
    phase # "build" =>
      Grown /\ \E h, g : Stage(h, g, phase, pos, alloc, buffer, mem)

\* The inductive invariant of the specification.
IInv == GraphInv /\ PassInv

\* What holds of the passes is the same in the next state.
LEMMA SameStage ==
  ASSUME Same, NEW h, NEW g, NEW ph, NEW n, NEW a, NEW buf, NEW m,
         Stage(h, g, ph, n, a, buf, m)
  PROVE  Stage(h, g, ph, n, a, buf, m)'
<1>1. N' = N /\ FirstNode' = FirstNode /\ graph' = graph
  BY SameGraph DEF Same
<1>2. Twins(h, g, buf.base, buf.size)'
  <2>1. PICK base, size : base = buf.base /\ size = buf.size
    OBVIOUS
  <2>2. Twins(h, g, base, size)' <=> Twins(h, g, base, size)
    BY SameTwins
  <2> QED BY <2>1, <2>2 DEF Stage
<1>3. PICK e, f, l : e = g[N] /\ f = FirstNode /\ l = N
  OBVIOUS
<1>4. e = g[N'] /\ f = FirstNode' /\ l = N'
  BY <1>1, <1>3
<1>5. /\ Written(e, m, f)' <=> Written(e, m, f)
      /\ Written(e, m, n)' <=> Written(e, m, n)
  BY SameWritten
<1>6. Bytes(a, l)' = Bytes(a, l) /\ Origin(l)' = Origin(l)
  BY <1>1 DEF Bytes, IsOwn, Origin
<1>7. /\ ph = "alloc" => Written(g[N], m, FirstNode)'
      /\ ph = "compute" => Written(g[N], m, n)'
      /\ ph = "done" => \A x \in Bytes(a, N)' : m[x] = Origin(N)'
  BY <1>3, <1>4, <1>5, <1>6 DEF Stage
<1> QED BY <1>1, <1>2, <1>7, Zenon DEF Stage

\* A step of the passes leaves the graph alone; so what is said of it stays.
LEMMA StageNext ==
  ASSUME GraphInv, Grown, Same, NEW h, NEW g,
         NEW ph, NEW n, NEW a, NEW buf, NEW m, Stage(h, g, ph, n, a, buf, m),
         phase' = ph, pos' = n, alloc' = a, buffer' = buf, mem' = m
  PROVE  IInv'
<1>1. Stage(h, g, ph, n, a, buf, m)'
  BY SameStage
<1>2. Stage(h, g, phase, pos, alloc, buffer, mem)'
  BY <1>1
<1>3. GraphInv' /\ Grown'
  BY SameGraph
<1> QED BY <1>2, <1>3 DEF IInv, PassInv

\* A decode in a buffer that was measured.
LEMMA DecodeInv ==
  ASSUME GraphInv, Grown, NEW h, NEW buf, Measured(h, buf.base, buf.size), Decode(buf)
  PROVE  IInv'
<1>b. PICK b : b = BuildGraph(buf.base, buf.size)
  OBVIOUS
<1>m. PICK m : m = WriteInputs(b, buf)
  OBVIOUS
<1>1. Same /\ phase' = "alloc" /\ pos' = FirstNode /\ buffer' = buf /\ alloc' = b /\ mem' = m
  BY <1>b, <1>m DEF Decode, Same
<1>2. PICK g : Pass(g, buf.base, buf.size) /\ g[FirstNode - 1] = b
  BY <1>b, PassExists
<1>3. Twins(h, g, buf.base, buf.size)
  BY <1>2 DEF Twins
<1>4. Written(g[N], m, FirstNode) /\ DOMAIN m = buf.base..(buf.base + buf.size - 1)
  BY <1>2, <1>3, <1>m, InputsWritten
<1>5. FirstNode \in FirstNode..N
  <2>1. FirstNode \in 1..N /\ N \in Nat
    BY GrownFacts
  <2> QED BY <2>1
<1>n. PICK n : n = FirstNode
  OBVIOUS
<1>6. Stage(h, g, "alloc", n, b, buf, m)
  BY <1>2, <1>3, <1>4, <1>5, <1>n DEF Stage
<1> QED BY <1>1, <1>6, <1>n, StageNext

\* The measuring pass has failed or has not.
LEMMA PassBoolean ==
  ASSUME GraphInv, Grown, NEW h, Pass(h, 0, Unlimited), RoundUp(0) - 0 < Unlimited,
         Unlimited \in Nat
  PROVE  h[N].failed \in BOOLEAN
<1>0. N \in Nat /\ \A i \in 0..(N - 1) : i + 1 \in Tensors /\ i \in Nat
  BY GrownFacts
<1>n. PICK n \in Nat : n = N
  BY <1>0
<1>1. \A k \in 0..n : Fields(h[k])
  BY <1>n, PassSound
<1> DEFINE Good == {k \in 0..n : h[k].failed \in BOOLEAN}
<1>2. 0 \in Good
  <2>1. h[0].failed = FALSE
    BY DEF Pass, Fresh
  <2>2. 0 \in 0..n
    OBVIOUS
  <2> QED BY <2>1, <2>2
<1>3. ASSUME NEW i \in 0..(n - 1), i \in Good PROVE i + 1 \in Good
  <2>t. PICK t : t = i + 1
    OBVIOUS
  <2>1. t \in 1..n /\ t \in 0..n /\ t - 1 = i /\ t \in Tensors /\ i \in 0..n
    BY <1>0, <1>n, <2>t
  <2>2. h[t] = Turn(h[i], t)
    BY <1>n, <2>1 DEF Pass
  <2>3. h[t].failed \in {h[i].failed, TRUE}
    BY <1>1, <2>1, <2>2, TurnSticky
  <2>4. h[t].failed \in BOOLEAN
    BY <1>3, <2>3
  <2> QED BY <2>1, <2>4, <2>t
<1>4. \A i \in 0..n : i \in Good
  <2> HIDE DEF Good
  <2> QED BY <1>2, <1>3, Induction
<1> QED BY <1>4, <1>n

\* Measuring, allocating the buffer and starting the first decode.
LEMMA MeasureInv ==
  ASSUME GraphInv, Measure
  PROVE  IInv'
<1>m. PICK m : m = FoldLeft(PlaceNode, BuildGraph(0, Unlimited), Nodes)
  OBVIOUS
<1>1. PICK base \in 0..(Alignment - 1) : Decode([base |-> base, size |-> BufferSize(m)])
  BY <1>m DEF Measure
<1>2. ~m.failed /\ Grown
  BY <1>m DEF Measure, Grown, N
<1>3. PICK h : Pass(h, 0, Unlimited) /\ h[N] = m
  BY <1>2, <1>m, PassExists
<1>4. m.failed = FALSE
  <2>0. N \in Nat
    BY <1>2, GrownFacts
  <2>u. Unlimited \in Nat /\ RoundUp(0) = 0 /\ 0 \in Nat
    BY AllocAssumptionHolds, RoundUpFacts DEF AllocAssumption
  <2>1. 0 < Unlimited
    <3>1. PICK M : Bound(M)
      BY BoundExists
    <3>2. PICK n \in Nat : n = N
      BY <2>0
    <3>3. M \in Nat /\ n * M < Unlimited
      BY <3>1, <3>2 DEF Bound
    <3>4. n * M \in Nat
      BY <3>3
    <3> QED BY <2>u, <3>3, <3>4
  <2>2. RoundUp(0) - 0 < Unlimited /\ N \in 0..N
    BY <2>0, <2>u, <2>1
  <2>3. m.failed \in BOOLEAN
    BY <1>2, <1>3, <2>0, <2>u, <2>2, PassBoolean
  <2> QED BY <1>2, <2>3
<1>buf. PICK buf : buf = [base |-> base, size |-> BufferSize(m)]
  OBVIOUS
<1>5. buf.base = base /\ buf.size = m.max_size + Alignment
  BY <1>buf DEF BufferSize
<1>6. base \in Nat /\ base < Alignment
  BY AllocAssumptionHolds DEF AllocAssumption
<1>7. Measured(h, buf.base, buf.size)
  BY <1>3, <1>4, <1>5, <1>6 DEF Measured
<1> QED BY <1>1, <1>2, <1>7, <1>buf, DecodeInv

\* The turn of a node in the real pass.
LEMMA PlaceInv ==
  ASSUME IInv, Place
  PROVE  IInv'
<1>0. phase = "alloc" /\ phase # "build"
  BY DEF Place
<1>1. GraphInv /\ Grown
  BY <1>0 DEF IInv, PassInv
<1>2. PICK h, g : Stage(h, g, "alloc", pos, alloc, buffer, mem)
  BY <1>0 DEF IInv, PassInv
<1>3. /\ Twins(h, g, buffer.base, buffer.size) /\ pos \in FirstNode..N /\ alloc = g[pos - 1]
      /\ DOMAIN mem = buffer.base..(buffer.base + buffer.size - 1)
      /\ Written(g[N], mem, FirstNode)
  BY <1>2 DEF Stage
<1>4. N \in Nat /\ FirstNode \in 1..N /\ Len(graph) = N
  BY <1>1, GrownFacts DEF Grown
<1>5. pos \in 1..N /\ ~(pos < FirstNode)
  BY <1>3, <1>4
<1>a. PICK a : a = g[pos]
  OBVIOUS
<1>6. PlaceNode(alloc, pos) = a
  <2>1. g[pos] = Turn(g[pos - 1], pos)
    BY <1>3, <1>5 DEF Twins, Pass
  <2> QED BY <1>3, <1>5, <1>a, <2>1 DEF Turn
<1>7. Same /\ alloc' = a /\ buffer' = buffer /\ mem' = mem
  BY <1>6 DEF Place, Same
<1>m. PICK m, buf : m = mem /\ buf = buffer
  OBVIOUS
<1>8. CASE pos = Len(graph)
  <2>1. phase' = "compute" /\ pos' = FirstNode
    BY <1>8 DEF Place
  <2>n. PICK n : n = FirstNode
    OBVIOUS
  <2>2. n \in FirstNode..N
    BY <1>4, <2>n
  <2>3. Stage(h, g, "compute", n, a, buf, m)
    BY <1>3, <1>4, <1>8, <1>a, <1>m, <2>2, <2>n DEF Stage
  <2> QED BY <1>1, <1>7, <1>m, <2>1, <2>3, <2>n, StageNext
<1>9. CASE pos # Len(graph)
  <2>1. phase' = "alloc" /\ pos' = pos + 1
    BY <1>0, <1>9 DEF Place
  <2>n. PICK n : n = pos + 1
    OBVIOUS
  <2>2. n \in FirstNode..N /\ n - 1 = pos
    BY <1>3, <1>4, <1>5, <1>9, <2>n
  <2>3. Stage(h, g, "alloc", n, a, buf, m)
    BY <1>3, <1>a, <1>m, <2>2 DEF Stage
  <2> QED BY <1>1, <1>7, <1>m, <2>1, <2>3, <2>n, StageNext
<1> QED BY <1>8, <1>9

\* Computing a node, and the end of the decode.
LEMMA ComputeInv ==
  ASSUME IInv, Compute
  PROVE  IInv'
<1>0. phase = "compute" /\ phase # "build"
  BY DEF Compute
<1>1. GraphInv /\ Grown
  BY <1>0 DEF IInv, PassInv
<1>2. PICK h, g : Stage(h, g, "compute", pos, alloc, buffer, mem)
  BY <1>0 DEF IInv, PassInv
<1>3. /\ Twins(h, g, buffer.base, buffer.size) /\ pos \in FirstNode..N /\ alloc = g[N]
      /\ DOMAIN mem = buffer.base..(buffer.base + buffer.size - 1)
      /\ Written(g[N], mem, pos)
  BY <1>2 DEF Stage
<1>4. N \in Nat /\ FirstNode \in 1..N /\ Len(graph) = N /\ Tensors = 1..N
  BY <1>1, GrownFacts DEF Grown
<1>5. pos \in Tensors /\ pos >= FirstNode
  BY <1>3, <1>4
<1>p. PICK a, buf, m, t : a = alloc /\ buf = buffer /\ m = mem /\ t = pos
  OBVIOUS
<1>c. PICK c : c = After(m, a, t)
  OBVIOUS
<1>6. Settled(a, buf.base, buf.size)
  BY <1>1, <1>3, <1>p, PassSettled
<1>7. /\ DOMAIN c = buf.base..(buf.base + buf.size - 1) /\ Written(a, c, t + 1)
      /\ \A x \in Bytes(a, t) : c[x] = Origin(t)
  <2>1. t \in Tensors /\ t >= FirstNode
    BY <1>5, <1>p
  <2>2. DOMAIN m = buf.base..(buf.base + buf.size - 1) /\ Written(a, m, t)
    BY <1>3, <1>p
  <2> QED BY <1>1, <1>6, <1>c, <2>1, <2>2, ComputeWritten
<1>8. Same /\ alloc' = a /\ buffer' = buf /\ mem' = c
  BY <1>c, <1>p DEF Compute, Same, After
<1>9. CASE pos = Len(graph)
  <2>1. phase' = "done" /\ pos' = t
    BY <1>9, <1>p DEF Compute
  <2>2. t = N
    BY <1>4, <1>9, <1>p
  <2>3. Stage(h, g, "done", t, a, buf, c)
    BY <1>3, <1>7, <1>p, <2>2 DEF Stage
  <2> QED BY <1>1, <1>8, <2>1, <2>3, StageNext
<1>10. CASE pos # Len(graph)
  <2>1. phase' = "compute" /\ pos' = pos + 1
    BY <1>0, <1>10 DEF Compute
  <2>n. PICK n : n = t + 1
    OBVIOUS
  <2>2. n \in FirstNode..N
    BY <1>3, <1>4, <1>10, <1>p, <2>n
  <2>3. Stage(h, g, "compute", n, a, buf, c)
    BY <1>3, <1>7, <1>p, <2>2, <2>n DEF Stage
  <2> QED BY <1>1, <1>8, <1>p, <2>1, <2>3, <2>n, StageNext
<1> QED BY <1>9, <1>10

\* The next decode, in the same buffer.
LEMMA NextDecodeInv ==
  ASSUME IInv, NextDecode
  PROVE  IInv'
<1>0. phase # "build" /\ Decode(buffer)
  BY DEF NextDecode
<1>1. GraphInv /\ Grown
  BY <1>0 DEF IInv, PassInv
<1>2. PICK h, g : Stage(h, g, phase, pos, alloc, buffer, mem)
  BY <1>0 DEF IInv, PassInv
<1>b. PICK buf : buf = buffer
  OBVIOUS
<1>3. Measured(h, buf.base, buf.size) /\ Decode(buf)
  BY <1>0, <1>2, <1>b DEF Stage, Twins
<1> QED BY <1>1, <1>3, DecodeInv

\* Building the graph.
LEMMA BuildInvNext ==
  ASSUME IInv, AddOp \/ AddView
  PROVE  IInv'
<1>1. GraphInv'
  BY AddOpInv, AddViewInv DEF IInv
<1>2. phase' = "build"
  BY DEF AddOp, AddView, AddTensor
<1> QED BY <1>1, <1>2 DEF IInv, PassInv

\* A step that changes nothing.
LEMMA StutterInv ==
  ASSUME IInv, UNCHANGED vars
  PROVE  IInv'
<1>1. Same /\ phase' = phase /\ pos' = pos /\ alloc' = alloc /\ buffer' = buffer /\ mem' = mem
  BY DEF Same, vars
<1>2. GraphInv
  BY DEF IInv
<1>3. CASE phase = "build"
  BY <1>1, <1>2, <1>3, SameGraph DEF IInv, PassInv
<1>4. CASE phase # "build"
  <2>1. PICK h, g : Grown /\ Stage(h, g, phase, pos, alloc, buffer, mem)
    BY <1>4 DEF IInv, PassInv
  <2>2. PICK ph, n, a, buf, m :
          ph = phase /\ n = pos /\ a = alloc /\ buf = buffer /\ m = mem
    OBVIOUS
  <2>3. Stage(h, g, ph, n, a, buf, m)
    BY <2>1, <2>2
  <2> QED BY <1>1, <1>2, <2>1, <2>2, <2>3, StageNext
<1> QED BY <1>3, <1>4

\* IInv always holds: from llama_new_context_with_model through every decode the
\* graph is well formed, the allocator is where the real pass over the graph has
\* come, beside a measuring pass that has not failed, and the memory holds what
\* the nodes to come read.
THEOREM Invariant == Spec => []IInv
<1>1. Init => IInv
  <2>1. Init => phase = "build"
    BY DEF Init
  <2> QED BY <2>1, InitGraph DEF IInv, PassInv
<1>2. IInv /\ [Next]_vars => IInv'
  <2> SUFFICES ASSUME IInv, [Next]_vars PROVE IInv'
    OBVIOUS
  <2>1. GraphInv
    BY DEF IInv
  <2>2. CASE AddOp \/ AddView
    BY <2>2, BuildInvNext
  <2>3. CASE Measure
    BY <2>1, <2>3, MeasureInv
  <2>4. CASE Place
    BY <2>4, PlaceInv
  <2>5. CASE Compute
    BY <2>5, ComputeInv
  <2>6. CASE NextDecode
    BY <2>6, NextDecodeInv
  <2>7. CASE UNCHANGED vars
    BY <2>7, StutterInv
  <2> QED BY <2>2, <2>3, <2>4, <2>5, <2>6, <2>7 DEF Next
<1> QED BY <1>1, <1>2, PTL DEF Spec

\* In the phases of a decode the passes are where the invariant says.
LEMMA StageFacts ==
  ASSUME IInv, phase # "build"
  PROVE  \E h, g : /\ Stage(h, g, phase, pos, alloc, buffer, mem)
                   /\ GraphInv /\ Grown /\ Settled(g[N], buffer.base, buffer.size)
                   /\ Twins(h, g, buffer.base, buffer.size)
                   /\ alloc.failed = FALSE
                   /\ phase = "alloc" => /\ pos \in Nat
                                         /\ RoundInv(alloc, pos, buffer.base,
                                                     buffer.base + buffer.size)
<1>1. GraphInv /\ Grown
  BY DEF IInv, PassInv
<1>2. PICK h, g : Stage(h, g, phase, pos, alloc, buffer, mem)
  BY DEF IInv, PassInv
<1>3. /\ Twins(h, g, buffer.base, buffer.size) /\ pos \in FirstNode..N
      /\ alloc = IF phase = "alloc" THEN g[pos - 1] ELSE g[N]
  BY <1>2 DEF Stage
<1>4. Settled(g[N], buffer.base, buffer.size)
  BY <1>1, <1>3, PassSettled
<1>5. N \in Nat /\ FirstNode \in 1..N
  BY <1>1, GrownFacts
<1>6. N \in 0..N /\ pos - 1 \in 0..N /\ pos \in Nat /\ (pos - 1) + 1 = pos /\ pos >= FirstNode
  BY <1>3, <1>5
<1>7. \A i \in 0..N : /\ g[i].failed = FALSE
                      /\ Sound(g[i], i + 1, buffer.base, buffer.base + buffer.size)
  BY <1>1, <1>3, TwinsAlways
<1>8. alloc.failed = FALSE
  BY <1>3, <1>6, <1>7
<1>9. ASSUME phase = "alloc"
      PROVE  RoundInv(alloc, pos, buffer.base, buffer.base + buffer.size)
  <2>1. Sound(alloc, pos, buffer.base, buffer.base + buffer.size)
    BY <1>3, <1>6, <1>7, <1>9
  <2> QED BY <1>6, <2>1 DEF Sound
<1> QED BY <1>1, <1>2, <1>3, <1>4, <1>6, <1>8, <1>9

\* A graph that was measured fits: the real pass of ggml_gallocr_alloc_graph in
\* the buffer of the measured size never runs out of memory or of free blocks,
\* for every graph, every set of sizes and every alignment of the buffer.
THEOREM MeasureSufficesHolds == Spec => []MeasureSuffices
<1>1. IInv => MeasureSuffices
  BY StageFacts DEF MeasureSuffices
<1> QED BY <1>1, Invariant, PTL

\* While the real pass runs, the free list of ggml_tallocr is in order inside
\* the buffer, and none of its blocks overlaps what a node that is still to be
\* placed will read.
THEOREM FreeIsUnneededHolds == Spec => []FreeIsUnneeded
<1>1. IInv => FreeIsUnneeded
  <2> SUFFICES ASSUME IInv, phase = "alloc"
               PROVE  FreeIsUnneeded
    BY DEF FreeIsUnneeded
  <2>1. /\ GraphInv /\ Grown /\ pos \in Nat
        /\ RoundInv(alloc, pos, buffer.base, buffer.base + buffer.size)
        /\ buffer.base \in Nat /\ buffer.size \in Nat
    BY StageFacts DEF Settled
  <2>a. PICK a, n, lo, hi : /\ a = alloc /\ n = pos /\ lo = buffer.base
                            /\ hi = buffer.base + buffer.size
    OBVIOUS
  <2>2. n \in Nat /\ lo \in Nat /\ hi \in Nat /\ RoundInv(a, n, lo, hi)
    BY <2>1, <2>a
  <2>3. ASSUME NEW k \in DOMAIN a.blocks
        PROVE  /\ a.blocks[k].size > 0 /\ a.blocks[k].addr >= lo
               /\ a.blocks[k].addr + a.blocks[k].size <= hi
               /\ k > 1 => a.blocks[k - 1].addr + a.blocks[k - 1].size < a.blocks[k].addr
               /\ \A t \in Tensors : \A j \in DOMAIN graph[t].src :
                    (t >= n /\ a.data[graph[t].src[j]] >= 0) =>
                      ~Overlap(a.blocks[k], a.data[graph[t].src[j]],
                               a.data[graph[t].src[j]] + graph[graph[t].src[j]].size)
    BY <2>1, <2>2, FreeUnneeded
  <2>4. \A t \in n..Len(graph) : t \in Tensors /\ t >= n
    <3>1. Tensors = 1..Len(graph) /\ Len(graph) \in Nat
      BY <2>1, GraphFacts
    <3>2. n >= 1
      <4>1. pos \in FirstNode..N
        BY StageFacts DEF Stage
      <4>2. FirstNode \in 1..N /\ N \in Nat
        BY <2>1, GrownFacts
      <4> QED BY <2>a, <4>1, <4>2
    <3> QED BY <2>2, <3>1, <3>2
  <2>5. ASSUME NEW k \in DOMAIN a.blocks, NEW t \in n..Len(graph), NEW j \in DOMAIN graph[t].src,
               NEW p, p = graph[t].src[j], a.data[p] >= 0
        PROVE  ~Overlap(a.blocks[k], a.data[p], a.data[p] + graph[p].size)
    BY <2>3, <2>4, <2>5
  <2> QED BY <2>3, <2>5, <2>a DEF FreeIsUnneeded
<1> QED BY <1>1, Invariant, PTL

\* When ggml_graph_compute reaches a node, its sources hold what was written
\* to them, and the memory it writes overlaps a source only when it works in
\* place and covers the whole of it; at the end the result is intact.
THEOREM ReadsIntactHolds == Spec => []ReadsIntact
<1>1. IInv => ReadsIntact
  <2> SUFFICES ASSUME IInv PROVE ReadsIntact
    OBVIOUS
  <2>1. ASSUME phase = "compute", NEW j \in DOMAIN graph[pos].src, NEW p, p = graph[pos].src[j]
        PROVE  /\ Intact(p)
               /\ graph[pos].kind = "op" =>
                    \/ Bytes(alloc, p) \cap Bytes(alloc, pos) = {}
                    \/ graph[pos].inplace /\ Bytes(alloc, p) = Bytes(alloc, pos)
    <3>1. PICK h, g : /\ Stage(h, g, phase, pos, alloc, buffer, mem)
                      /\ GraphInv /\ Grown /\ Settled(g[N], buffer.base, buffer.size)
      BY <2>1, StageFacts
    <3>2. alloc = g[N] /\ Written(alloc, mem, pos) /\ pos \in FirstNode..N
      BY <2>1, <3>1 DEF Stage
    <3>3. pos \in Tensors /\ pos >= FirstNode
      <4>1. FirstNode \in 1..N /\ N \in Nat /\ Tensors = 1..N
        BY <3>1, GrownFacts
      <4> QED BY <3>2, <4>1
    <3>a. PICK a, t, m, base, size : /\ a = alloc /\ t = pos /\ m = mem /\ base = buffer.base
                                     /\ size = buffer.size
      OBVIOUS
    <3>4. /\ Settled(a, base, size) /\ Written(a, m, t) /\ t \in Tensors /\ t >= FirstNode
          /\ j \in DOMAIN graph[t].src /\ p = graph[t].src[j]
      BY <2>1, <3>1, <3>2, <3>3, <3>a
    <3>5. /\ \A x \in Bytes(a, p) : m[x] = Origin(p)
          /\ graph[t].kind = "op" => \/ Bytes(a, p) \cap Bytes(a, t) = {}
                                     \/ graph[t].inplace /\ Bytes(a, p) = Bytes(a, t)
      BY <3>1, <3>4, SourcesIntact
    <3> QED BY <3>5, <3>a DEF Intact
  <2>2. ASSUME phase = "done" PROVE Intact(Len(graph))
    <3>1. PICK h, g : Stage(h, g, phase, pos, alloc, buffer, mem) /\ Grown
      BY <2>2, StageFacts
    <3>2. alloc = g[N] /\ \A x \in Bytes(alloc, N) : mem[x] = Origin(N)
      BY <2>2, <3>1 DEF Stage
    <3> QED BY <3>1, <3>2 DEF Intact, Grown
  <2> QED BY <2>1, <2>2 DEF ReadsIntact
<1> QED BY <1>1, Invariant, PTL

=============================================================================
