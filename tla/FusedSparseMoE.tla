--------------------------- MODULE FusedSparseMoE ---------------------------
(***************************************************************************)
(* One MoE layer whose weights are all in memory: FusedSparseMoE::forward  *)
(* (fused_sparse_moe.cpp).  The threads compute one pair of row and expert *)
(* after the other, all of them on the same pair: they draw chunks of its  *)
(* hidden neurons from a shared counter, each adds up its chunks in a      *)
(* buffer of its own, and thread 0 adds the buffers to the output row.     *)
(* Three barriers per pair hold this together; the one that would hold the *)
(* others back until thread 0 has quantised the input is commented out.    *)
(***************************************************************************)
EXTENDS Integers, Sequences, FiniteSets, Bags, SequencesExt, BagSums

CONSTANTS
    Threads,     \* the compute threads
    Main,        \* thread 0
    BatchSize,   \* the rows of the batch
    Experts,     \* the experts of the layer
    NUsed,       \* n_expert_used
    HiddenDim,   \* ffn_hidden_dim
    ChunkSize    \* forward_chunk_size

MoEAssumption ==
    /\ IsFiniteSet(Threads) /\ Main \in Threads
    /\ BatchSize \in Nat \ {0} /\ IsFiniteSet(Experts)
    /\ NUsed \in 1..Cardinality(Experts)
    /\ HiddenDim \in Nat \ {0} /\ ChunkSize \in Nat \ {0}

ASSUME MoEAssumptionHolds == MoEAssumption

Rows    == 1..BatchSize
Neurons == 0..(HiddenDim - 1)
Pairs   == BatchSize * NUsed

VARIABLES
    computing,        \* is the node being computed?
    selected_experts, \* the routing: an expert for every row and index
    quantized,        \* has thread 0 quantised this node's input?
    current_neuron,   \* GlobalStates::current_neuron
    local_buf,        \* GlobalStates::local_buf, the sums of each thread
    output,           \* what has been added to the output
    pc,               \* where each thread is in forward
    pair,             \* its place in the two loops, i * n_expert_used + j
    beg,              \* local variable: the chunk it has drawn
    queued,           \* its AxpyBatch
    waits, inside     \* global_spin_barrier

nodeVars == <<computing, selected_experts>>
dataVars == <<quantized, current_neuron, local_buf, output>>
runVars  == <<pc, pair, beg, queued>>
syncVars == <<waits, inside>>
vars == <<nodeVars, dataVars, runVars, syncVars>>

Sync == INSTANCE Barrier

\* The first row of the batch, as the layer promises it: its routing, and
\* its summands once all threads are through the loops.
RowOf(r, bag) == [x \in {x \in BagToSet(bag) : x.row = r} |-> bag[x]]

MoE == INSTANCE MoELayer
         WITH Rows <- {1}, Blocks <- Neurons,
              expert_ids <- [r \in {1} |-> selected_experts[r]],
              output <- IF \A t \in Threads : pair[t] = Pairs
                        THEN RowOf(1, output) ELSE EmptyBag

Routings == [Rows -> MoE!Selections]

\* Row and expert of a place k in the loops.
RowAt(k)    == (k \div NUsed) + 1
IndexAt(k)  == (k % NUsed) + 1
ExpertAt(k) == selected_experts[RowAt(k)][IndexAt(k)]

\* What the k-th element of a tensor of shape [n_expert_used, n_tokens]
\* says: whose score it is.
ScoreAt(k) == <<RowAt(k), ExpertAt(k)>>

TypeOK ==
    /\ computing \in BOOLEAN
    /\ selected_experts \in Routings
    /\ quantized \in BOOLEAN
    /\ current_neuron \in Nat
    /\ \A t \in Threads : IsABag(local_buf[t]) /\ IsABag(queued[t])
    /\ IsABag(output)
    /\ pc \in [Threads -> {"node", "begin", "enter", "chunks", "compute", "flush",
                           "meet", "reduce", "leave", "end"}]
    /\ pair \in [Threads -> 0..Pairs]
    /\ beg \in [Threads -> 0..(HiddenDim - 1)]
    /\ waits \in [Threads -> 0..(3 * Pairs)]
    /\ inside \in SUBSET Threads

Init ==
    /\ computing = FALSE /\ selected_experts \in Routings
    /\ quantized = FALSE /\ current_neuron = 0
    /\ local_buf = [t \in Threads |-> EmptyBag] /\ output = EmptyBag
    /\ pc = [t \in Threads |-> "node"] /\ pair = [t \in Threads |-> 0]
    /\ beg = [t \in Threads |-> 0] /\ queued = [t \in Threads |-> EmptyBag]
    /\ Sync!Init

-----------------------------------------------------------------------------
\* A new graph reaches its MoE node; the buffers keep what they held.
StartNode(ids) ==
    /\ ~computing
    /\ computing' = TRUE /\ selected_experts' = ids
    /\ quantized' = FALSE /\ output' = EmptyBag
    /\ pc' = [t \in Threads |-> IF t = Main THEN "node" ELSE "begin"]
    /\ pair' = [t \in Threads |-> 0]
    /\ Sync!Restart
    /\ UNCHANGED <<current_neuron, local_buf, beg, queued>>

\* Thread 0 quantises every row; nobody waits for it here.
Quantize ==
    /\ computing /\ pc[Main] = "node"
    /\ quantized' = TRUE
    /\ pc' = [pc EXCEPT ![Main] = "begin"]
    /\ UNCHANGED <<nodeVars, current_neuron, local_buf, output, pair, beg,
                   queued, syncVars>>

\* Mutant: the counter is not reset.
BeginNoReset(t) ==
    /\ pc[t] = "begin"
    /\ local_buf' = [local_buf EXCEPT ![t] = EmptyBag]
    /\ Sync!Enter(t)
    /\ pc' = [pc EXCEPT ![t] = "enter"]
    /\ UNCHANGED <<nodeVars, quantized, current_neuron, output, pair, beg, queued>>

\* Mutant: the threads do not meet before they draw.
BeginNoBarrier(t) ==
    /\ pc[t] = "begin"
    /\ current_neuron' = IF t = Main THEN 0 ELSE current_neuron
    /\ local_buf' = [local_buf EXCEPT ![t] = EmptyBag]
    /\ pc' = [pc EXCEPT ![t] = "chunks"]
    /\ UNCHANGED <<nodeVars, quantized, output, pair, beg, queued, syncVars>>

\* forward of one pair: thread 0 resets the counter, every thread clears
\* its buffer, and all meet.
Begin(t) ==
    /\ pc[t] = "begin"
    /\ current_neuron' = IF t = Main THEN 0 ELSE current_neuron
    /\ local_buf' = [local_buf EXCEPT ![t] = EmptyBag]
    /\ Sync!Enter(t)
    /\ pc' = [pc EXCEPT ![t] = "enter"]
    /\ UNCHANGED <<nodeVars, quantized, output, pair, beg, queued>>

BeginChunks(t) ==
    /\ pc[t] = "enter"
    /\ Sync!Leave(t)
    /\ pc' = [pc EXCEPT ![t] = "chunks"]
    /\ UNCHANGED <<nodeVars, dataVars, pair, beg, queued>>

\* Mutant: add_fetch for fetch_add, the counter as it is afterwards.
DrawChunkAfter(t) ==
    /\ pc[t] = "chunks"
    /\ current_neuron' = current_neuron + ChunkSize
    /\ beg' = [beg EXCEPT ![t] = current_neuron + ChunkSize]
    /\ pc' = [pc EXCEPT ![t] = IF current_neuron < HiddenDim THEN "compute" ELSE "flush"]
    /\ UNCHANGED <<nodeVars, quantized, local_buf, output, pair, queued, syncVars>>

\* The fetch_add that draws a chunk, or finds that none is left.
DrawChunk(t) ==
    /\ pc[t] = "chunks"
    /\ current_neuron' = current_neuron + ChunkSize
    /\ \/ /\ current_neuron < HiddenDim
          /\ beg' = [beg EXCEPT ![t] = current_neuron]
          /\ pc' = [pc EXCEPT ![t] = "compute"]
       \/ /\ current_neuron >= HiddenDim
          /\ pc' = [pc EXCEPT ![t] = "flush"]
          /\ UNCHANGED beg
    /\ UNCHANGED <<nodeVars, quantized, local_buf, output, pair, queued, syncVars>>

\* forward_chunk: gate, up and down of the chunk's neurons on the quantised
\* row, collected in the AxpyBatch.
ComputeChunk(t) ==
    /\ pc[t] = "compute"
    /\ queued' = [queued EXCEPT ![t] = @ (+)
         SetToBag({[row |-> RowAt(pair[t]), expert |-> ExpertAt(pair[t]), block |-> n]
                     : n \in {n \in Neurons : beg[t] <= n /\ n < beg[t] + ChunkSize}})]
    /\ pc' = [pc EXCEPT ![t] = "chunks"]
    /\ UNCHANGED <<nodeVars, dataVars, pair, beg, syncVars>>

\* Mutant: what is left in the batch is not flushed.
FlushNothing(t) ==
    /\ pc[t] = "flush"
    /\ queued' = [queued EXCEPT ![t] = EmptyBag]
    /\ Sync!Enter(t)
    /\ pc' = [pc EXCEPT ![t] = "meet"]
    /\ UNCHANGED <<nodeVars, dataVars, pair, beg>>

\* Mutant: a thread with nothing to flush does not meet the others.
FlushOrSkip(t) ==
    /\ pc[t] = "flush"
    /\ local_buf' = [local_buf EXCEPT ![t] = @ (+) queued[t]]
    /\ queued' = [queued EXCEPT ![t] = EmptyBag]
    /\ IF queued[t] = EmptyBag
       THEN pc' = [pc EXCEPT ![t] = "reduce"] /\ UNCHANGED syncVars
       ELSE pc' = [pc EXCEPT ![t] = "meet"] /\ Sync!Enter(t)
    /\ UNCHANGED <<nodeVars, quantized, current_neuron, output, pair, beg>>

\* AxpyBatch::flush adds the batch to the thread's buffer; all meet.
Flush(t) ==
    /\ pc[t] = "flush"
    /\ local_buf' = [local_buf EXCEPT ![t] = @ (+) queued[t]]
    /\ queued' = [queued EXCEPT ![t] = EmptyBag]
    /\ Sync!Enter(t)
    /\ pc' = [pc EXCEPT ![t] = "meet"]
    /\ UNCHANGED <<nodeVars, quantized, current_neuron, output, pair, beg>>

EndChunks(t) ==
    /\ pc[t] = "meet"
    /\ Sync!Leave(t)
    /\ pc' = [pc EXCEPT ![t] = "reduce"]
    /\ UNCHANGED <<nodeVars, dataVars, pair, beg, queued>>

\* Everything the threads have added up for the current pair.
Sums == SumOfBuffers(local_buf)

\* The summands of a bag, weighted with the score s.
Weighted(bag, s) ==
    LET Weigh(x) == [row |-> x.row, expert |-> x.expert, block |-> x.block, score |-> s]
    IN  [y \in {Weigh(x) : x \in BagToSet(bag)} |->
           bag[[row |-> y.row, expert |-> y.expert, block |-> y.block]]]

\* The first expert of a row overwrites the row, the others add to it.
AddToRow(k, sums) ==
    output' = sums (+) [x \in {x \in BagToSet(output) :
                                 IndexAt(k) # 1 \/ x.row # RowAt(k)} |-> output[x]]

\* Mutant: nobody waits for thread 0 before the next pair.
ReduceNoBarrier(t) ==
    /\ pc[t] = "reduce"
    /\ IF t = Main
       THEN AddToRow(pair[t], Weighted(Sums, ScoreAt(pair[t] % NUsed)))
       ELSE UNCHANGED output
    /\ pair' = [pair EXCEPT ![t] = @ + 1]
    /\ pc' = [pc EXCEPT ![t] = IF pair[t] + 1 = Pairs THEN "end" ELSE "begin"]
    /\ UNCHANGED <<nodeVars, quantized, current_neuron, local_buf, beg, queued,
                   syncVars>>

\* Thread 0 adds the buffers of all threads to the row, weighted with
\* expert_weights[j]; all meet.
ReduceOutput(t) ==
    /\ pc[t] = "reduce"
    /\ IF t = Main
       THEN AddToRow(pair[t], Weighted(Sums, ScoreAt(pair[t] % NUsed)))
       ELSE UNCHANGED output
    /\ Sync!Enter(t)
    /\ pc' = [pc EXCEPT ![t] = "leave"]
    /\ UNCHANGED <<nodeVars, quantized, current_neuron, local_buf, pair, beg, queued>>

\* The next pair, or the end of both loops.
NextPair(t) ==
    /\ pc[t] = "leave"
    /\ Sync!Leave(t)
    /\ pair' = [pair EXCEPT ![t] = @ + 1]
    /\ pc' = [pc EXCEPT ![t] = IF pair[t] + 1 = Pairs THEN "end" ELSE "begin"]
    /\ UNCHANGED <<nodeVars, dataVars, beg, queued>>

\* ggml's barrier at the end of the node.
EndNode ==
    /\ computing
    /\ \A t \in Threads : pc[t] = "end"
    /\ computing' = FALSE
    /\ pc' = [t \in Threads |-> "node"]
    /\ UNCHANGED <<selected_experts, dataVars, pair, beg, queued, syncVars>>

Thread(t) ==
    \/ Begin(t) \/ BeginChunks(t) \/ DrawChunk(t) \/ ComputeChunk(t) \/ Flush(t)
    \/ EndChunks(t) \/ ReduceOutput(t) \/ NextPair(t)
    \/ t = Main /\ Quantize

Next ==
    \/ EndNode \/ \E ids \in Routings : StartNode(ids)
    \/ \E t \in Threads : Thread(t)

Spec == Init /\ [][Next]_vars

\* Every thread of the pool keeps running.
Fairness == WF_vars(EndNode) /\ \A t \in Threads : WF_vars(Thread(t))

FairSpec == Spec /\ Fairness

-----------------------------------------------------------------------------
(* Properties.                                                             *)

\* The barriers keep the phases of a pair apart.  The one after
\* quantize_row_q8_0 is not needed: no thread computes a chunk before thread
\* 0 has quantised the input.  And while thread 0 reads the buffers of all
\* threads, no thread is computing, none has summands left to flush, and none
\* has cleared its buffer for the next pair.
PhasesApart ==
    /\ \A t \in Threads : pc[t] = "compute" => quantized
    /\ pc[Main] = "reduce" =>
         \A t \in Threads : /\ pair[t] = pair[Main]
                            /\ pc[t] \in {"meet", "reduce", "leave"}
                            /\ queued[t] = EmptyBag

\* When the node ends, every row holds every neuron of every selected
\* expert exactly once: the shared counter hands out each chunk once, no
\* buffer is cleared or read too early, no row is overwritten.
SummandsExact ==
    (\A t \in Threads : pc[t] = "end") =>
        /\ \A x \in BagToSet(output) : output[x] = 1
        /\ \A r \in Rows, e \in Experts, n \in Neurons :
             Cardinality({x \in BagToSet(output) :
                            x.row = r /\ x.expert = e /\ x.block = n})
               = IF e \in Range(selected_experts[r]) THEN 1 ELSE 0

\* The first row of a batch, and so all of a batch of one row, is computed as
\* the layer promises.  The rows after it are not: they are weighted with the
\* scores of the first, although llama-graph.cpp gives the node weights of
\* shape "[n_expert_used, n_tokens]".
ComputesLayer == MoE!Spec

\* Every node ends: no thread is left behind at a barrier.
NodeEnds == computing ~> ~computing
=============================================================================
