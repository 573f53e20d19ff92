------------------------------ MODULE GraphAlloc ------------------------------
(***************************************************************************)
(* The memory of the activations of the root engine (ggml-alloc.c): every  *)
(* decode builds the graph again, gives each tensor a place in one buffer, *)
(* and computes the graph.  A place is given back as soon as the last      *)
(* reader of its tensor has its own place, so tensors that are not needed  *)
(* at the same time share memory; element-wise operators may write over a  *)
(* source nobody else needs, and views share the memory of their source.   *)
(* The size of the buffer comes from a first pass with an allocator that   *)
(* hands out no memory and only measures (llama_new_context_with_model).   *)
(*                                                                         *)
(* One thread does all of it, so the model has one behaviour per graph and *)
(* address of the buffer: what varies is the graph.                        *)
(***************************************************************************)
EXTENDS Integers, SequencesExt

CONSTANTS
    Starts,      \* bound: the leafs of a graph, how many nodes follow, and how
                 \* many of them beside the last have no reader
    Sizes,       \* bound: the sizes of tensors in bytes
    Alignment,   \* tensor_alignment
    MaxBlocks,   \* MAX_FREE_BLOCKS
    Unlimited    \* bound: SIZE_MAX/2, what the measuring allocator owns

None == 0        \* view_src of a tensor that is no view
NULL == -1       \* data before a tensor has its place
External == -2   \* data of weights and of the KV cache, in other buffers

\* A tensor: kind, sources, size in bytes, whether it is of an operator that
\* can work in place (ggml_op_can_inplace), and for a view its root view_src
\* and its offset view_offs in it.
Tensor(kind, src, size, inplace, of, offs) ==
    [kind |-> kind, src |-> src, size |-> size, inplace |-> inplace,
     of |-> of, offs |-> offs]

Leaf(kind, size) == Tensor(kind, <<>>, size, FALSE, None, 0)

AllocAssumption ==
    /\ Sizes \subseteq Nat \ {0}
    /\ \A s \in Starts :
         s.leafs \in Seq({Leaf(kind, size) : kind \in {"input", "weight"}, size \in Sizes})
    /\ \A s \in Starts : s.leafs # <<>> /\ s.nodes \in Nat \ {0} /\ s.unread \in Nat
    /\ MaxBlocks \in Nat \ {0}
    /\ Alignment \in Nat \ {0} /\ Unlimited \in Nat

ASSUME AllocAssumptionHolds == AllocAssumption

RoundUp(n) == ((n + Alignment - 1) \div Alignment) * Alignment

\* No graph has tensors for more than SIZE_MAX/2 bytes.
UnlimitedAssumption ==
    \E largest \in Sizes :
      /\ \A size \in Sizes : size <= largest
      /\ \A s \in Starts :
           (Len(s.leafs) + s.nodes) * RoundUp(largest) < Unlimited

ASSUME UnlimitedAssumptionHolds == UnlimitedAssumption

VARIABLES
    graph,   \* gf: its leafs and nodes in the order they were built
    start,   \* the member of Starts it grows from
    phase,   \* "build", "alloc", "compute", "done"
    pos,     \* the node that is next in this phase
    alloc,   \* the tensor and the graph allocator, see Fresh
    buffer,  \* buf_alloc: address and size
    mem      \* which tensor was last written to each byte of the buffer

vars == <<graph, start, phase, pos, alloc, buffer, mem>>

Tensors == DOMAIN graph
FirstNode == Len(start.leafs) + 1
Nodes == [k \in 1..start.nodes |-> FirstNode + k - 1]
Origin(t) == IF graph[t].kind = "view" THEN graph[t].of ELSE t

AllocSize(t) == RoundUp(graph[t].size)

\* What the operators read: <<t, j>> is the read of the j-th source of t.
Reads == {r \in Tensors \X (1..2) : r[2] \in DOMAIN graph[r[1]].src}
Source(r) == graph[r[1]].src[r[2]]
-----------------------------------------------------------------------------
(* The tensor allocator.                                                   *)

\* ggml_tallocr_reset, for a buffer at address base, with the fields of the
\* tensors and hash nodes of a graph that was just built.
Fresh(base, size) ==
    LET first == RoundUp(base) IN
    [ blocks |-> <<[addr |-> first, size |-> size - (first - base)]>>,
      max_size |-> 0,
      failed |-> FALSE,        \* a GGML_ASSERT has ended the process
      data |-> [t \in Tensors |->
                  IF graph[Origin(t)].kind = "weight" THEN External ELSE NULL],
      view_src |-> [t \in Tensors |-> graph[t].of],
      n_children |-> [t \in Tensors |->
          Cardinality({r \in Reads : Source(r) = t})],
      n_views |-> [t \in Tensors |->
          Cardinality({k \in Tensors : graph[k].of = t})] ]

IsOwn(a, t) == a.data[t] >= 0

\* The smallest block that fits, of equals the last; the last block, which
\* holds all memory that was never used, only when no other fits.
BestFit(a, size) ==
    LET last == Len(a.blocks)
        room == [k \in 1..(last - 1) |-> a.blocks[k].size]
        Better(j, k) == room[j] < room[k] \/ (room[j] = room[k] /\ j > k)
        fits == {k \in DOMAIN room : room[k] >= size}
    IN IF fits = {} THEN last
       ELSE CHOOSE k \in fits : \A j \in fits \ {k} : Better(k, j)

Alloc(a, t) ==
    LET size == AllocSize(t)
        k == BestFit(a, size)
    IN IF k = 0 \/ a.blocks[k].size < size THEN [a EXCEPT !.failed = TRUE]
       ELSE LET b == a.blocks[k] IN
            [a EXCEPT
               !.blocks = IF b.size = size THEN RemoveAt(@, k)
                          ELSE ReplaceAt(@, k, [addr |-> b.addr + size,
                                                size |-> b.size - size]),
               !.data[t] = b.addr,
               !.max_size = Max({@, b.addr + size})]

\* ggml_tallocr_free_tensor: join the blocks the place touches, or insert a
\* block of its own in the order of addresses.
FreeTensor(a, t) ==
    LET ptr == a.data[t]
        size == AllocSize(t)
        End(b) == b.addr + b.size
        touching == {k \in DOMAIN a.blocks : \/ End(a.blocks[k]) = ptr
                                             \/ ptr + size = a.blocks[k].addr}
        lo == Min(touching)
        hi == Max(touching)
        joined == LET from == Min({ptr, a.blocks[lo].addr})
                      to == Max({ptr + size, End(a.blocks[hi])})
                  IN [addr |-> from, size |-> to - from]
        below == Cardinality({k \in DOMAIN a.blocks : a.blocks[k].addr < ptr})
    IN IF ~IsOwn(a, t) THEN a
       ELSE IF touching # {}
       THEN [a EXCEPT !.blocks =
               SubSeq(@, 1, lo - 1) \o <<joined>> \o SubSeq(@, hi + 1, Len(@))]
       ELSE IF Len(a.blocks) >= MaxBlocks THEN [a EXCEPT !.failed = TRUE]
       ELSE [a EXCEPT !.blocks =
               InsertAt(@, below + 1, [addr |-> ptr, size |-> size])]
-----------------------------------------------------------------------------
(* The graph allocator.                                                    *)

InitView(a, t) ==
    LET r == a.view_src[t] IN
    [a EXCEPT !.data[t] = IF IsOwn(a, r) THEN a.data[r] + graph[t].offs
                          ELSE a.data[r]]

\* May node t write over its source p?  p is not needed by any other node
\* or view, and if it is a view itself nothing else uses its root.
Reusable(a, t, p) ==
    /\ IsOwn(a, p)
    /\ a.n_children[p] = 1 /\ a.n_views[p] = 0
    /\ graph[p].size = graph[t].size
    /\ LET r == a.view_src[p] IN
       r # None => /\ a.n_views[r] = 1 /\ a.n_children[r] = 0
                   /\ a.data[r] = a.data[p]

InPlace(a, t, p) ==
    LET r == IF a.view_src[p] = None THEN p ELSE a.view_src[p] IN
    InitView([a EXCEPT !.view_src[t] = r, !.n_views[r] = @ + 1], t)

AllocateNode(a, t) ==
    LET reusable == {j \in DOMAIN graph[t].src : Reusable(a, t, graph[t].src[j])}
    IN IF a.data[t] # NULL THEN a
       ELSE IF a.view_src[t] # None THEN InitView(a, t)
       ELSE IF graph[t].inplace /\ reusable # {}
       THEN InPlace(a, t, graph[t].src[Min(reusable)])
       ELSE Alloc(a, t)

\* A mutant of Release: the end of the last view frees its root although
\* nodes still read the root itself.
ReleaseRootWithView(a, p) ==
    LET b == [a EXCEPT !.n_children[p] = @ - 1]
        r == a.view_src[p]
        c == [b EXCEPT !.n_views[r] = @ - 1]
    IN IF b.n_children[p] # 0 \/ b.n_views[p] # 0 THEN b
       ELSE IF r = None THEN FreeTensor(b, p)
       ELSE IF c.n_views[r] = 0 THEN FreeTensor(c, r)
       ELSE c

\* One reader of p has its place: give back the memory nobody reads now.
Release(a, p) ==
    LET b == [a EXCEPT !.n_children[p] = @ - 1]
        r == a.view_src[p]
        c == [b EXCEPT !.n_views[r] = @ - 1]
    IN IF b.n_children[p] # 0 \/ b.n_views[p] # 0 THEN b
       ELSE IF r = None THEN FreeTensor(b, p)
       ELSE IF c.n_views[r] = 0 /\ c.n_children[r] = 0 THEN FreeTensor(c, r)
       ELSE c

\* A mutant of PlaceNode: the sources are released before the node has its
\* place.
PlaceNodeFreesFirst(a, t) ==
    AllocateNode(FoldLeft(Release, FoldLeft(AllocateNode, a, graph[t].src),
                          graph[t].src), t)

\* One round of ggml_tallocr_alloc_graph_impl: places for the sources that
\* are leafs and for the node, then the update of the sources.
PlaceNode(a, t) ==
    LET placed == AllocateNode(FoldLeft(AllocateNode, a, graph[t].src), t)
    IN IF a.failed \/ placed.failed THEN placed
       ELSE FoldLeft(Release, placed, graph[t].src)

\* llm_build_graph: the inputs have their places before the graph is built.
AllocInput(a, t) == IF graph[t].kind = "input" THEN Alloc(a, t) ELSE a
BuildGraph(base, size) == FoldLeftDomain(AllocInput, Fresh(base, size), start.leafs)

Bytes(a, t) == IF IsOwn(a, t) THEN a.data[t]..(a.data[t] + graph[t].size - 1) ELSE {}
-----------------------------------------------------------------------------
\* Bound: the graphs in which every leaf is read, and every node but the last
\* and start.unread others; so many can still be read by the nodes to come.
Unread(g) == {p \in DOMAIN g : \A t \in DOMAIN g : \A j \in DOMAIN g[t].src :
                                 g[t].src[j] # p}
Readable(g) ==
    LET left == FirstNode - 1 + start.nodes - Len(g) IN
    /\ left >= 0
    /\ Cardinality(Unread(g)) <= left + 1 + start.unread
    /\ Cardinality(Unread(g) \cap 1..(FirstNode - 1)) <= 2 * left

Init ==
    /\ start \in Starts
    /\ graph = start.leafs
    /\ phase = "build" /\ pos = FirstNode
    /\ alloc = <<>> /\ mem = <<>>
    /\ buffer = [base |-> 0, size |-> 0]

AddTensor(t) ==
    /\ phase = "build" /\ Readable(Append(graph, t))
    /\ graph' = Append(graph, t)
    /\ UNCHANGED <<start, phase, pos, alloc, buffer, mem>>

\* Bound: at most two sources, named in the order they were built.
Sources == {<<p>> : p \in Tensors}
             \cup {s \in Tensors \X Tensors : s[1] <= s[2]}

\* An operator that can work in place on one of its sources has its layout.
AddOp == \E src \in Sources, size \in Sizes, inplace \in BOOLEAN :
    /\ inplace => \E j \in DOMAIN src : graph[src[j]].size = size
    /\ AddTensor(Tensor("op", src, size, inplace, None, 0))

\* ggml_new_tensor_impl: the view of a view is a view of its root.
AddView == \E p \in Tensors, size \in Sizes, offs \in {0, Alignment} :
    /\ offs + size <= graph[p].size
    /\ AddTensor(Tensor("view", <<p>>, size, FALSE, Origin(p), graph[p].offs + offs))

\* What the caller may find in the buffer when it has written the inputs of
\* a graph: these, and nothing else that this graph could use.
WriteInputs(a, buf) ==
    [x \in buf.base..(buf.base + buf.size - 1) |->
       LET here == {t \in Tensors : graph[t].kind = "input" /\ x \in Bytes(a, t)}
       IN IF here = {} THEN None ELSE Min(here)]

\* llama_decode: ggml_allocr_reset, build the graph, write its inputs.
Decode(buf) ==
    /\ phase' = "alloc"
    /\ pos' = FirstNode
    /\ buffer' = buf
    /\ alloc' = BuildGraph(buf.base, buf.size)
    /\ mem' = WriteInputs(alloc', buf)
    /\ UNCHANGED <<graph, start>>

\* A mutant of BufferSize: no room to align the address of the buffer.
BufferSizeExact(a) == a.max_size

\* llama_new_context_with_model: measure, which a failed assertion ends,
\* allocate the buffer wherever the heap has room; the first decode.
BufferSize(a) == a.max_size + Alignment

Measure ==
    /\ phase = "build" /\ Len(graph) = FirstNode - 1 + start.nodes
    /\ LET measured == FoldLeft(PlaceNode, BuildGraph(0, Unlimited), Nodes) IN
       /\ ~measured.failed
       /\ \E base \in 0..(Alignment - 1) :
            Decode([base |-> base, size |-> BufferSize(measured)])

\* The real pass, one node at a time; a failed assertion ends the process.
Place ==
    /\ phase = "alloc" /\ ~alloc.failed
    /\ alloc' = PlaceNode(alloc, pos)
    /\ IF pos = Len(graph) THEN phase' = "compute" /\ pos' = FirstNode
                           ELSE pos' = pos + 1 /\ UNCHANGED phase
    /\ UNCHANGED <<graph, start, buffer, mem>>

\* ggml_graph_compute: a view computes nothing, an operator writes its bytes.
Compute ==
    /\ phase = "compute" /\ ~alloc.failed
    /\ mem' = [x \in DOMAIN mem |->
                 IF graph[pos].kind = "op" /\ x \in Bytes(alloc, pos)
                   THEN pos ELSE mem[x]]
    /\ IF pos = Len(graph) THEN phase' = "done" /\ UNCHANGED pos
                           ELSE pos' = pos + 1 /\ UNCHANGED phase
    /\ UNCHANGED <<graph, start, alloc, buffer>>

NextDecode == phase = "done" /\ Decode(buffer)

Next == AddOp \/ AddView \/ Measure \/ Place \/ Compute \/ NextDecode

Spec == Init /\ [][Next]_vars
-----------------------------------------------------------------------------
(* Properties.                                                             *)

\* The real pass finds room for every tensor in the buffer the measuring
\* pass asked for, whatever address the heap returns, and needs no more blocks
\* than it did: both make the same choices although only one of them has all
\* the memory it could want.
MeasureSuffices == phase # "build" => ~alloc.failed

Overlap(b, x, y) == x < b.addr + b.size /\ b.addr < y

\* The free list is in order and joined, inside the buffer, and holds no
\* byte of a tensor that a node still to be placed reads, directly or
\* through views and nodes that work in place.
FreeIsUnneeded ==
    (phase = "alloc" /\ ~alloc.failed) =>
      LET B == alloc.blocks
          needed == {p \in Tensors :
                       /\ alloc.data[p] >= 0
                       /\ \E t \in pos..Len(graph) : \E j \in DOMAIN graph[t].src :
                            graph[t].src[j] = p}
      IN /\ \A k \in DOMAIN B :
              /\ B[k].size > 0 /\ B[k].addr >= buffer.base
              /\ B[k].addr + B[k].size <= buffer.base + buffer.size
              /\ k > 1 => B[k - 1].addr + B[k - 1].size < B[k].addr
         /\ \A k \in DOMAIN B : \A p \in needed :
              ~Overlap(B[k], alloc.data[p], alloc.data[p] + graph[p].size)

Intact(t) == \A x \in Bytes(alloc, t) : mem[x] = Origin(t)

\* When a node is computed every byte of its sources is what their operator
\* or the caller wrote, although memory was given to others since; it writes
\* over a source only as an operator that can work in place, over exactly
\* its bytes; and the result of the graph is intact at the end.
ReadsIntact ==
    /\ phase = "compute" =>
         \A j \in DOMAIN graph[pos].src :
            LET p == graph[pos].src[j] IN
            /\ Intact(p)
            /\ graph[pos].kind = "op" =>
                 \/ Bytes(alloc, p) \cap Bytes(alloc, pos) = {}
                 \/ graph[pos].inplace /\ Bytes(alloc, p) = Bytes(alloc, pos)
    /\ phase = "done" => Intact(Len(graph))
=============================================================================
