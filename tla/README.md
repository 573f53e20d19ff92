# A TLA+ development of PowerInfer

PowerInfer runs large language models whose feed-forward layers are sparse. The
repository holds two engines:

- the **root engine** (`ggml.c`, `llama.cpp`): a fork of llama.cpp that computes
  only the neurons a predictor expects to fire, on CPU and GPU;
- **smallthinker**: a later vendored llama.cpp with PowerInfer's own code under
  `smallthinker/powerinfer/`, which runs mixture-of-experts models either with
  all weights in memory, or with the experts on disk behind a cache;

and a **PIM simulator** in Rust (`parse_histogram/`), which estimates how the
recorded sparsity would run on memory with processing units.

This directory models the parts that are concurrent or keep state over many
calls, checks them with TLC on small instances and proves the most important
results with TLAPS for every value of the constants.

## 1. Inventory

Paths are relative to `src/`; `PI/` stands for `smallthinker/powerinfer/`.

| Component | State | Operations | Modelled |
|---|---|---|---|
| Expert cache and IO worker: `PI/moe_sparse_pipeline/{expert_cache,iou}.cpp`, `PI/libaz/az/core/{lru,list}`, `powerinfer-disk-queue.hpp` | status, buffer and held-back tasks of each matrix, LRU list, bounded queue to the worker, request slots and counters of the io_uring | prefetch, fetch and promote in build_tasks, allocate_buffer, the worker loop, enqueue_read, submit, reap, the destructor | `ExpertCache`, `LRU` |
| Spin barrier: `PI/libaz/az/core/spin_barrier.cpp` | width and one counter | init, wait | `SpinBarrier`, `Barrier` |
| Task pipeline of a MoE layer: `PI/moe_sparse_pipeline/{pipeline,task}.cpp`, `PI/libaz/az/pipeline/` | task counts, queue, number of unfinished tasks, output buffers per thread, scores, the routing | build_tasks, schedule, run, on_finish, the completion callback, forward | `TaskPipeline`, `MoELayer` |
| Fused sparse MoE: `PI/fused_sparse_moe/fused_sparse_moe.cpp` | one chunk counter, one buffer per thread, the quantised input, the output | forward on every thread | `FusedSparseMoE`, `MoELayer` |
| CPU graph executor of the root engine: `ggml.c` | node_n, n_active, aic, the work buffer, the outputs | ggml_graph_compute_thread, the INIT and COMPUTE passes of the sparse operators | `ComputeGraph` (partly) |
| LM head: `PI/src/interface_host.cpp`, `PI/powerinfer-cpu/src/sparse_lmhead.cpp` | three counters in the work buffer, a global `std::barrier` of 256 parties | quantise, profile, dense product over the rows the profile admits | `LmHead`, `HostBarrier` |
| KV cache of the root engine: `llama.cpp` | ring of cells with position, pending shift and sequences, keys and values, head | decode with its search for a slot, clear, seq_rm, seq_cp, seq_keep, seq_shift, saving and loading the state | `KVCache`, `KVStore` |
| Memory of the compute graph: `ggml-alloc.c` | list of free blocks, counts of readers and views per tensor, addresses | measure, place a node, free, reset | `GraphAlloc` |
| PIM simulator: `parse_histogram/src/pim/` | accumulated cycles, a pending batch, a pending record, bank maps | compute_time, flush_batch, finish, merge, the mapping strategies | no |
| Other sparse FFN operators: `PI/powerinfer-cpu/src/` | as the fused MoE | as the fused MoE | no |
| Kernels, loading, graph building, GPU back ends, vendored code, tools | | | no, see section 8 |

### How the components interact

One token (or a small batch) goes through the layers of a graph. For a model with
its experts on disk every layer has three graph nodes:

1. `MOE_PIPELINE_PREFETCH`, on thread 0: `Pipeline::prefetch` asks the cache for
   up to `max_n_prefetch` matrices the router selects;
2. `MOE_PIPELINE_BUILD_TASKS`, on thread 0: `Pipeline::build_tasks` links the
   task graph of the layer, fetches or promotes every demanded matrix, and lets
   tasks whose matrix is still loading wait for it;
3. `MOE_PIPELINE_FORWARD`, on all threads: `Pipeline::forward` runs tasks from the
   shared queue until none is unfinished, between two waits on the spin barrier.

ggml's own barrier ends every node. Beside the compute threads runs one IO worker
per cache: it takes matrices from `io_queue`, prepares reads in the io_uring and,
when a read completes, sets the matrix to PRESENT and notifies its waiting tasks.
Client and worker share the matrices (a mutex each) and the bounded queue; worker
and kernel share the ring.

With all weights in memory there is one node per layer, `FusedSparseMoE::forward`,
on all threads, held together by three waits on the same spin barrier for each
pair of row and expert.

The last node for one token is the LM head with its profiler, four stages on all
threads with a barrier of its own between them.

The root engine has no pool: every `ggml_graph_compute` starts threads that walk
through the nodes; the last one to finish a node prepares the next. Around it,
`llama_decode` finds cells in the KV cache for its batch, builds the graph, lets
the graph allocator give each tensor a place, computes, and moves the ring on.

### What is hard, and what makes each part correct

- **Expert cache.** Three parties interleave, a fetch blocks on a full queue while
  it holds a matrix, the kernel completes reads in any order, and a buffer changes
  owner while the worker may be about to read its address. Correct means: a buffer
  has one owner; a load that has begun is somewhere on its way exactly once; the
  bytes of a read land in the buffer of the matrix that waits for them; a demanded
  matrix stays until its layer ends; every layer ends and the destructor returns.
- **Spin barrier.** The counter is never reset, so a thread can be in the next
  wait while another has not yet seen the end of this one.
- **Task pipeline.** A task's count is taken down by three kinds of actors:
  predecessors on any thread, `schedule`, and the IO worker. Correct means each
  task runs once, after all it reads is there, and the layer's output holds every
  summand once, whichever thread ran which task.
- **Fused MoE.** One global counter and global buffers are reused for every pair
  and every node; only barriers separate the uses.
- **LM head.** The barrier outlives the graph and is never reset, although the number
  of threads changes; thread 0 arrives for all that do not exist. The counters lie
  in memory that holds what an earlier node left there.
- **KV cache.** Edits of sequences leave work behind (shifts, freed cells with old
  keys, a head that points anywhere) that a later decode must take into account in
  the right order. A save keeps the cells before the head only, and whether keys are
  stored at all is up to the builder of the graph. Correct means that a row attends
  exactly the tokens of its sequence, at their present positions, and that a batch is
  refused only if there is no room. After some saves, and with some builders, the
  first of these does not hold (section 6).
- **Memory of the graph.** Two tensors may share bytes whenever nobody reads the one
  after the other is written; views and in-place operators make it hard to say
  who reads. The buffer is measured by another run of the same code.
- **Graph executor.** The work buffer and the row counter are reused by each node
  on the strength of a counter; a thread that aborts leaves the protocol early.

`PROJECT.json` lists the single hazards at their lines, with the properties that
cover them.

## 2. Modules

| Module | What it is |
|---|---|
| `LRU` | the LRU list as a sequence: `Add`, `Oldest`, `Evict`, `Promote` |
| `ExpertCache` | client thread, IO worker and kernel around the cache |
| `Barrier` | abstract: a thread leaves its k-th wait only when all have entered theirs |
| `SpinBarrier` | the counter of `spin_barrier.cpp`; implements `Barrier` |
| `MoELayer` | abstract: what a MoE layer computes, as a bag of summands |
| `BagSums` | the sum of the buffers of all threads, used by both MoE forwards |
| `TaskPipeline` | the task graph of a layer; uses `Barrier`, implements `MoELayer` |
| `FusedSparseMoE` | the fused forward; uses `Barrier`, implements `MoELayer` |
| `HostBarrier` | the `std::barrier` with a party count, and thread 0's stand-in arrivals |
| `LmHead` | the four stages of the LM head over `HostBarrier` |
| `ComputeGraph` | the graph executor of the root engine |
| `KVStore` | abstract: tokens at positions of sequences, and what a batch attends |
| `KVCache` | the ring of cells of `llama.cpp`; implements `KVStore` |
| `GraphAlloc` | the two allocators of `ggml-alloc.c`, from measuring to computing |
| `MC*` | the instances TLC checks, where a configuration alone does not say them (`FusedSparseMoE` needs none) |
| `*Proofs` | the theorems and their proofs |

The composition is by assume and guarantee. `TaskPipeline` and `FusedSparseMoE` use
the abstract `Barrier`, and `SpinBarrier` is proved to implement it.
`TaskPipeline` takes from the cache that a demanded matrix arrives and stays;
`ExpertCache` shows it as `LayerCompletes` and `ReleasedIsLoaded`.

### Granularity

An action is a stretch of code no other party can observe half done: up to the next
access to shared atomics, to a call that can block, or to the end of a critical
section. Numbers are abstracted to what the properties tell apart: a matrix's
bytes are the name of the matrix; an output is a bag of summands named by row,
expert, block and the score that weights it; the parts of a node's output are
rows, slices or shares.

Sequential consistency is an assumption of every module, not something the code
gives everywhere. The root engine's atomics use the default ordering, the cache
locks mutexes, and task counters and spin locks use acquire and release. Three places
load or add relaxed: the spinning load of `SpinBarrier::wait` (`spin_barrier.cpp:18`),
the wait for unfinished tasks (`libaz/az/pipeline/pipeline.cpp:32`) and the draws
of neurons (`fused_sparse_moe.cpp:218` and `:404`). The draws only need atomicity, since
barriers stand around them. The spinning load is also what should make the data of
the other threads visible; on x86 it does, on a weakly ordered CPU the language does not
promise it. What the modules show of a barrier's counting holds there too; what
they show of data read after a barrier does not carry over without a fence.

### ExpertCache

`status`, `data`, `pending` are the fields of `Matrix`; `lru`, `io_queue` those of
`ExpertCache`; `req_data_buf`, `req_pos`, `ring` those of `IOUring`, with `req_pos`
taken modulo the number of slots, which is how the code uses it. `client_pc`
is the place of the client in the graph, `touched` is a history variable: what the
layer has fetched or promoted so far.

| Actions | Code |
|---|---|
| `StartLayer`, `PrefetchAbsent`, `PrefetchCached`, `EndPrefetch` | `Pipeline::prefetch`: only absent matrices are fetched, cached ones are not promoted |
| `BuildAbsent`, `BuildCached`, `EndBuild` | the loop of `build_tasks` over the demanded matrices |
| `Push` | a fetch that has allocated its buffer and waits for room in `io_queue` |
| `EndForward` | `forward` has run all tasks: all demanded matrices have arrived |
| `DestroyPush`, `DestroyFree` | the destructor: exit signal, join, free |
| `IoPop`, `IoEnqueueRead`, `IoSubmit`, `IoWait`, `Reap`, `EndReap` | `io_worker_main` and `IOUring` |
| `Complete` | the kernel: submitted reads complete in any order |

`Speculative` says whether a prefetch may name matrices that its layer then does
not use. It is FALSE when the prefetch of a layer is given the layer's own routing:
token by token decoding of the SmallThinker graph. It is TRUE for
predicted experts, and where a layer drops rows after its prefetch.

### TaskPipeline

`n_prev_tasks`, `task_queue`, `n_unfinished_tasks` are the members of `Task` and
`TaskQueue`; `pending` is `Matrix::pending_tasks`; `loading` is the cache as the
tasks see it. `Examine*` is one visit of `build_tasks` to a matrix, under its
mutex; `Arrive` and `Release` are the completion callback, which notifies one task
after the other; `Pop`, the `Run*` actions, `Notify` and `Finish` are a worker's
loop; `EnterRun`, `BeginRun`, `EndRun`, `EndForward` and `ResetLayer` are `forward`
around it. `GateForwardTask` ignores the configured activation and always applies
ReLU, although `pipeline.cpp:150` knows a second one: values of activations are
outside the model.

### FusedSparseMoE

`current_neuron` and `local_buf` are `GlobalStates`. `Begin`, `BeginChunks`,
`DrawChunk`, `ComputeChunk`, `Flush`, `EndChunks`, `ReduceOutput`, `NextPair` are the
steps of `forward` for a pair; each barrier is a pair of steps, enter and leave.
`Quantize` is thread 0's first step, for which no barrier waits.

### ComputeGraph

`n_active`, `node_n`, `aic` are `ggml_compute_state_shared`, `work_data` is the node
whose quantised input is in the work buffer, `at` is each thread's local `node_n`.
`CheckAbort`, `Arrive`, `Serve`, `Activate`, `Publish`, `SeeNode` are
`ggml_graph_compute_thread`; `InitNode` is the INIT pass; `DrawRows` and
`ComputeRows` are `mul_mat_sparse`; `LoadSum` and `StoreSum` are the addition of a
thread's share in `axpy`, a load and a store of the same word. `Abort` is the
caller's callback, which may begin to return true at any time.

### LmHead and HostBarrier

`expected` and `phase` are the state of the `std::barrier`, `token` what `arrive`
returned to a thread; `barrier_count` is the field of that name in
`HostComputeParam`. `Quantize`, `NextStage`, `Draw`, `Compute` are
`powerinfer_host_lmhead_q4_0_f32_impl` with its two callees; `StartNode` begins a graph with any number of
threads, `EndNode` is ggml's barrier after the node. `waits` is a history variable.

### KVCache and KVStore

`pos`, `delta`, `seq_id` are the fields of `llama_kv_cell`, `head` and `has_shift` those of
`llama_kv_cache`; `kv` is the key of each cell, a token and the position it is rotated
to. `Wrap`, `Skip`, `Fail`, `Found` are the turns of the loop in
`llama_kv_cache_find_slot`; `Compute` is the graph, shift before store before
attention, and the update of the ring. `Clear` and the `Seq*` actions are the calls of
llama.h. `Resume` is a save in one process and a load in the next; it may happen
between any two calls, as in the code, which does not ask what a save leaves out.
`attended` is what the rows of the last batch have attended.

A save has the keys of the cells before the head and no pending shifts (`LeftOut` is
the rest), so a restart loses keys while the positions and sequences of their cells come
back. `lost` is a history variable: the cells in use whose key a save has left out. It
divides what can be said into two:

- `IsStore` is about the tokens that are not lost. `KVStore` has no ring, no head and no
  pending work, but a step `Restart` that may lose tokens. The mapping lets a cell be an
  entry of the store once its key is there and until a save leaves it out, and compares
  what rows attend outside the lost cells (`Shown`). A lost token may therefore be missing
  and may be shown as garbage; no other token may change, move, disappear or come back.
- `AttendsStored` is about all of them, and does not hold: it says that whatever a row
  attends was stored and stands at its position.

`TiesCopies` is the builder. `llm_build_kv_store` only creates the copies into the cache;
the lines that put them into the graph are commented out (`llama.cpp:4478-4479`). They are computed
only if the builder ties what it returns to the static `k_cpy` and `v_cpy`, which `llm_build_kqv` makes
sources of its reads. Of the builders whose keys are rotated, LLaMA (`:5091`) and Falcon
(`:5479`) do; Baichuan (`:5353`), Persimmon (`:5812`) and StableLM (`:6266`) drop them. OPT (`:5221`)
ties them and does not rotate its keys.

### GraphAlloc

A behaviour builds a graph tensor by tensor (`AddOp`, `AddView`), measures it
(`Measure`), then places (`Place`) and computes (`Compute`) it node by node, decode after
decode. `alloc` is `ggml_tallocr` with the `hash_node` of every tensor and its
`data` and `view_src`. `mem` says which tensor was last written to each byte of the buffer.
Sizes are in bytes; with an alignment of 2, a size of 1 or 3 is rounded up, and
the buffer may begin at an odd address. Operators write all of their bytes; those
that write through a view built with the graph (`ggml_cpy` into the KV cache) write
outside this buffer; views stand for them, although such a node, unlike a view, reads a tensor of
this buffer, and the model has no such read. A measurement that fails (too many free blocks) ends
the program in an assertion, so `Measure` is not enabled then.

## 3. Runs

| Run | Instance | Shows |
|---|---|---|
| `cache_exact` | 4 matrices, 3 buffers, queue and ring of 3, a layer of three matrices and one of one, exact prefetches | every safety property of the cache; every layer completes, the destructor returns |
| `cache_slot_reuse` | speculative prefetches | violated: a slow read loses its slot (section 6) |
| `cache_queued_victim` | speculative prefetches | violated: the victim of an eviction is still queued (section 6) |
| `spin_barrier` | 4 threads, 4 waits per graph | implements `Barrier`; whoever waits leaves |
| `task_pipeline` | 2 threads, 2 rows, 2 experts, one expert per row, 2 layers | counts, queue and inputs are exact; the layer is computed and ends |
| `fused_moe` | 3 threads, 2 rows with 2 experts, 3 neurons in chunks of 2 | the phases of a pair stay apart, every neuron enters its row once, the node ends |
| `lm_head` | up to 4 threads, a new number per graph, 4 parties, 3 blocks, 3 mask words, 6 rows in chunks of 4 | stages in order, threads return together, the node ends |
| `compute_graph` | 3 threads, every graph of 2 nodes over 5 kinds, 5 rows in chunks of 2, aborts | the serving thread is alone; inputs are ready; every thread ends |
| `compute_graph_axpy` | 2 threads, 1 node | violated: a share of a sum is lost (section 6) |
| `kv_cache` | a builder that ties the copies; 3 cells, 2 sequences, positions 0 and 1, batches of 1, 2 and 4 rows, shifts by -1, a restart at any time | implements `KVStore`; a batch is refused only if there is no room; decode returns |
| `kv_cache_resume` | the same instance | violated: a row attends a key the save has left out (section 6) |
| `graph_alloc` | every graph of 3 nodes over inputs of 3, 1 and 1 bytes or over a weight and an input, of 4 nodes over one input | the measured buffer suffices; no free block is needed; every node reads what was written for it |

### Why the bounds are enough

- Cache: with one matrix more than buffers every eviction path is taken; a queue
  and a ring of the size of the working set fill up and wrap around; the second
  kind of layer, of one matrix, makes room only at the end of the list, so the
  next layer finds its matrices partly evicted; the layers go on for ever, so every state a layer can leave behind is a state the next one
  starts from. The theorems of section 5 remove these bounds for safety.
- Spin barrier: 4 waits are enough for a thread to be one generation ahead of the
  others at every residue of the counter. The proof removes the bound.
- Task pipeline: two rows that select the same expert give a matrix with two waiting
  tasks, two that select different ones give two independent chains; two layers
  show what one leaves to the next.
  One thread can always be in `on_finish` while the other runs or sleeps and the IO
  worker releases tasks.
- Fused MoE: a third thread may find no chunk at all; 3 neurons in chunks of 2
  cut off the last chunk.
- Graph executor: two aborting threads and one that spins need 3 threads. Two nodes
  give each pair of kinds next to each other, and that is how far a thread can lag:
  node n + 1 is not prepared before all have finished node n.

- LM head: 4 parties stand for 256. What matters is that the number of threads is
  one, between, and equal to that of the parties, and that it changes between graphs while
  the barrier keeps its state; two phases are all a token has to tell apart, since
  nobody can be two phases behind. The proof removes all of these bounds.
- KV cache: three cells are the least in which a batch of two can fail although two
  cells are free, and fit only after the search wraps. A shift by -1 moves a token before the
  start, or onto the position of another, or leaves its delta in a cell that is used again. `MaxRot` bounds how far a shift
  may rotate a key, `MaxPos` the positions. With two positions and one direction
  several shifts of a living token do not add up before a decode; the proof, for all
  positions and distances, has them, and removes the other bounds.
- Graph allocator: three nodes over three inputs are the least with which a free
  list of two blocks and a used up last block meet, where a buffer without the slack of
  one alignment fails even at an aligned address; four nodes over one input give a
  view of a node that works in place on a view. Sources are one or two, named in the
  order they were built; every leaf is read, and at most one node that is not the last
  is not. `MAX_FREE_BLOCKS` (256) is out of reach of so few tensors. The proof removes
  the bounds except that of two sources.

`compute_graph` turns deadlock checking off because a graph ends; that all
threads end, none left behind, is `GraphEnds`. The violation runs of the cache do
so because they are about one state only.

## 4. Fairness

- Compute threads and the IO worker: weak fairness of each thread's steps. The
  threads spin or are woken by a condition variable, and the operating system runs
  every runnable thread. Nothing is assumed about who wins a race.
- The kernel: a submitted read completes at some time. Nothing is assumed about
  order. `cache_exact` assumes that reads succeed: `IOUring::reap` calls `abort()` on a
  read that fails or is short (`iou.cpp:66-69`).
- The client of the cache goes on with a layer it has begun. It need not begin
  another one, and it need not destroy the cache.
- Task pipeline: weak fairness of the step "some thread or the IO worker goes on", not of each
  thread, so that no property depends on who wins the spin locks.
- LM head: weak fairness of each thread; ggml's pool keeps its threads.
- KV cache: a decode that has begun is carried on; nobody has to decode.
- Nobody has to abort a graph.

## 5. What is proved

All theorems hold for every value of the constants under the named assumptions of
the modules (`CacheAssumption`, `SpinAssumption`, `PipelineAssumption` and `NoTaskAssumption`,
`MoEAssumption`, `GraphAssumption`, `HostAssumption`, `LmHeadAssumption`, `KVAssumption`,
`AllocAssumption` and `UnlimitedAssumption`),
which TLC evaluates in the runs. They say that sets are finite, that numbers are
positive where the code divides by them or indexes with them, that the value for
"no task" is not a task, and that no graph needs as much memory as the measuring
allocator owns (`SIZE_MAX/2`). The exceptions are named below.

Of the 40 properties of the passing runs, all that are invariants, action properties
or refinements are proved.

**ExpertCacheProofs.** The first part is about the LRU list: what `Add`, `Evict` and
`Promote` do to its members, its length and its order; if the matrices in a set lead
the list and the set is smaller than the list, the oldest matrix is not in the set.
`TypeCorrect` holds for all prefetches, speculative or not.
The others are for exact prefetches, that is with `Speculative = FALSE`. The safety
properties are not inductive; they follow from `ExactInv`, which has four parts:

- `Owners`: the LRU list is duplicate free and holds the owners of the buffers, which
  are numbered without a gap. This gives `BufferOwnership`.
- `Loads`: a loading matrix is in exactly one of four stations: blocked in push,
  queued, in the worker's hand, in the ring. This gives `LoadTracked`.
- `LayerInv`: what the layer has touched leads the LRU list, all that is loading is
  touched, and all that is touched is demanded. A layer demands no more than
  `WorkingSet <= Capacity` matrices, so while it has yet to fetch one, fewer than
  `Capacity` are touched, and the victim, the last of a full list, is untouched
  and hence loaded. This gives `EvictOnlyIdle` and `ReleasedIsLoaded`.
- `Requests`: each read goes to its matrix's buffer and has its slot to itself.
  The number of requests made after it (`Age`) and those that may still come
  (`Ahead`) together are fewer than the layer has matrices, and
  `WorkingSet <= QueueDepth` slots come round only after that. This gives
  `SlotNamesRequest`, `RingHasRoom` and `QueuedHasBuffer`.

The assumption `WorkingSet <= QueueDepth <= Capacity` is the code's: `config.hpp`
refuses a cache below `io_queue_depth` (512), and a layer demands at most
3 * 8 * 8 = 192 matrices. The findings show that it is needed.

**SpinBarrierProofs.** `Generations` proves the inductive invariant
`GenerationInv`: the counter splits into a generation and the number of threads that
have arrived in it; every thread is in this generation or the next.
`SpinBarrierIsBarrier` uses it for the refinement: a thread leaves only at the end
of its own generation.

**TaskPipelineProofs.** `TypeCorrect`, `CountsExactHolds`, `QueueExactHolds`,
`InputsReadyHolds` and `ComputesLayerHolds`, for any number of threads, rows, experts
and layers, any routing and any order of the disk. None of the properties is inductive; they
follow from `IInv`, proved in `Invariant`. Its seven parts need each other:

- `StageInv`: where a thread is in `forward` determines how often it has waited, and the
  barrier lets no thread be more than one wait ahead. So a thread in the run loop knows
  that thread 0 has scheduled the preprocess task.
- `HoldInv`: threads hold different tasks; the count of a task that is held or has run is
  zero and stays so. This is why no task is enqueued a second time.
- `LayerInv`: the count of each task is what it is owed (predecessors that have not told
  it, its own schedule, its matrix), the queue holds those with count zero that nobody has
  taken, the total counts the scheduled tasks that have not finished; between two layers all
  is empty. `TellFacts` is the heart of it: whoever takes a count down by one, for one
  reason that has gone away, keeps counts and queue exact. Build, release, notify and
  schedule are instances of it.
- `MatrixInv`: only tasks that read a matrix wait for it, all of them while it is on
  its way; when `build_tasks` ends it has visited the matrices of all tasks.
- `EndInv`: who leaves the run loop has read a total of zero. By then everything is
  scheduled (`StageInv`, `MatrixInv`), so every task is done, which makes the end of a layer
  safe for the next (`DoneFacts`).
- `DataInv`: since the preprocess task ran, the buffers hold the shares of disjoint sets of
  down tasks, together of exactly those that have run. The router selects an expert
  once per row, so different tasks have different shares, and when the reduce task
  runs, all have been added (`SumOfParts`). This gives the refinement of `MoELayer`.
- `TypeInv`: the types, with the waits unbounded.

**FusedSparseMoEProofs.** `TypeCorrect`, `PhasesApartHolds`, `SummandsExactHolds` and
`ComputesLayerHolds`, for any number of threads, rows, experts and neurons and any size of a chunk. `PlaceInv` says
what `StageInv` says above, for three waits per pair of row and expert. `ShareInv` says
that each thread has computed a set of neurons of its own of the current expert, that these
sets and the chunks in hand are disjoint, and that together they are the neurons below the counter; so the
buffers hold the whole expert when thread 0 adds them up, and the output
is the sum over the pairs done, each with the score `forward` gives it. The
refinement is for the first row: the others have the scores of the wrong row (section 6).
`SumOfParts`: buffers that hold disjoint sets of summands add up to
the union of the sets. The fold is unrolled to its recursive function, and that two functions
that satisfy the recursion are equal follows from the well-founded order of the finite
subsets, taken at a minimal set where they differ; no induction scheme is needed.
`TaskPipelineProofs` has the same lemma.

**ComputeGraphProofs.** `TypeCorrect` and `InputsReadyHolds`: the ranges include how far
`node_n` and `aic` run past the end. `InputsReady` needs an invariant that says what
the current node still lacks (rows in no thread's hands and below no counter, shares not added)
and that `n_active` counts exactly the threads that may still add it. `ServesAloneHolds`: for any number of threads, nodes and rows
and an abort at any time, the thread that prepares a node is alone. While nobody
has aborted, `n_active` counts the threads that have not finished the current
node. A thread that aborts never counts down, so afterwards `n_active` stays above
the number of threads that still will, and nobody serves again.

**LmHeadProofs.** `StagesStayInOrder` and `ThreadsReturnTogether`, for every number of threads
up to the number of parties and every history of graphs. The inductive invariant
says how many arrivals the current phase still misses: the parties less those of
the threads that have arrived in it, thread 0 counting for all absent ones. So the
phase ends exactly when the last thread of the graph arrives, and between graphs
the barrier is as new. On top of it, a thread in a stage has seen the end of every phase
before, each part of a stage is drawn once, and a drawn part is written before its
thread arrives.

**KVCacheProofs.** For every size of the cache, every set of batches, edits and shifts and
restarts at any time. `TypeCorrect` and `SearchIsComplete` hold for either kind of builder;
`CellsStayExact` and `CacheIsStore` assume one that ties the copies (`CopiesTied`), as without it
no key is ever stored. What `CacheIsStore` says of a restart is what `KVStore` says: the tokens
the save left out are gone, all others are as before. It says nothing of what the cells of the lost
tokens show until they are reused; that is the subject of `AttendsStored`, which is false.
The inductive invariant has the three parts of `CellsExact`, of which the one about keys is over the tokens
that are not lost (`Kept`). `SlotInv` says that the cells of a batch that has found its slot have
exactly the position and the sequences of their rows and are not lost, so that what `Compute` stores
makes them entries of the store. The rest is what the search knows: every run that begins at a cell it has passed holds a
used cell, and the count of tested cells covers the ring when it gives up.

**GraphAllocProofs.** `MeasureSufficesHolds`, `FreeIsUnneededHolds` and `ReadsIntactHolds`,
for every number of leafs and nodes, every set of sizes, alignment and number of free
blocks. A graph is any the model can build: nodes of at most two sources, in place or not,
views of anything. None of the three is inductive, and what measuring does is a fold over the
whole graph. Folds are unrolled as in `SumOfParts`, here to a sequence of states (`FoldPasses`),
and induction over that sequence is the least element of a set of numbers (`Induction`). The
argument has four parts:

- *One allocator.* `RoundInv` is what holds before the turn of each node. The free list is
  `Ordered`: inside the buffer, in order, with a gap between any two blocks, which is why
  the blocks a freed place touches are one interval (`JoinedBlock`) and joining them
  keeps the order (`GivenFacts`). Every tensor that had its turn has its `PlaceOf`, a view inside
  its root. `Counts`: `n_children` is exactly the number of reads to come, which is why the
  condition of `Reusable` means that the node is the only reader left (`OnlyRead`). `Views`:
  `n_views` is at least the number of views that are alive; it may be more, which is the harmless
  leak of section 6. `Kept`: there is a set of tensors whose memory is disjoint and not free, and
  it contains the root of everything that is still read (`Covers`). A node that works in
  place takes the memory of its source over, with the rounding of the root it came from
  (`Region`). `PlaceNodeRound` proves that a round which does not fail keeps all this, and that
  the node it placed is apart from what is read later (`NodeApart`).
- *Two allocators.* `Sim` relates the measuring allocator to the real one: all addresses are
  `RoundUp(base)` higher, all blocks but the last have equal sizes. Best fit asks for the
  sizes of the blocks before the last, so both choose alike (`BestFitSame`), as long as the
  last block is not used up, which would take it off the list. In the measuring allocator
  that is `UnlimitedAssumption`; in the real one it is `max_size` plus one alignment, which is the
  slack `llama_new_context_with_model` adds and the mutant of the run drops. One lemma per
  operation (`SimAlloc`, `SimFree`, `SimRelease`, `SimInPlace`, ...) leads to `TwinsAlways`: the real
  pass has not failed at any node.
- *The memory.* While nodes are computed, `Written` says that the root of everything still
  read holds its own bytes. `NodeApart` of the node that is computed keeps it
  (`ComputeWritten`).
- *The specification.* `IInv` says that the graph is well formed and that in a decode there are
  two passes, the measured and the real one, with `alloc` at its place in the second. The
  passes are rigid sequences, the operators that relate them read the variables `graph` and
  `start`; that they do not change when these do not is a lemma for each operator (`Same...`).

### Only model-checked

Liveness (all runs with `FairSpec`): liveness under fairness is out of the prover's
reach. The cache with speculative prefetches beyond
`TypeCorrect`: the findings show that the rest does not hold there. The
violated properties of section 6 are false and not proved.

## 6. Disagreements with the code

1. **Lost shares in axpy** (`compute_graph_axpy`). `ggml_compute_forward_mul_mat_axpy`
   and its q4_0 variant run on all threads, and each adds its share to the common
   output with `res[i] += tmp[i]` and no lock. Two threads that load the same
   value lose one share. The attention-head variant takes `g_axpy_head_lock` for
   the same addition.
2. **Slot reuse** (`cache_slot_reuse`). `enqueue_read` takes the next slot in turn
   without asking whether its request has completed. With speculative
   prefetches one slow read can be overtaken by `queue_depth` others; its completion
   then runs the callback of another matrix.
3. **Queued victim** (`cache_queued_victim`). `allocate_buffer` evicts whatever is
   oldest. A matrix that was prefetched and not demanded can be evicted while it
   waits in the queue, and the worker's assertion fails.

4. **Saves that leave keys out** (`kv_cache_resume`). `llama_copy_state_data` saves the
   keys and values of the first `kv_head` cells, the metadata of all cells, and no pending
   shifts. The head is 0 after `seq_cp` and once the ring is full, and a freed cell's index
   after `seq_rm`; whatever is in use from there on is attended after loading, although its
   key is not in the saved state. In TLC's trace two tokens are decoded, the
   first is removed, the state is saved and loaded, and the next row attends the second token,
   whose key is gone. llama.h
   says "Copies the state to the specified destination address", and
   `examples/save-load-state` expects the loaded context to go on as the saved one would.

Four more were seen while modelling and have no run.

- `FusedSparseMoE::forward` looks up the weights of a pair without the row
  (`fused_sparse_moe.cpp:507`): in a batch of several tokens every row is weighted with the
  scores of the first, although `llama-graph.cpp:987` gives the tensor a column for each token.
  The model does as the code does (`ReduceOutput`), so `ComputesLayer` is stated for the first row.
- The builders of section 2 that drop what `llm_build_kv_store` returns never write the
  cache, although the comment at `llama.cpp:4475` says "important: storing RoPE-ed version of K in
  the KV cache!" and the repository's README promises inference with llama.cpp's models "for
  compatibility purposes". With `TiesCopies = FALSE` in `KVCache_resume.cfg` the rows of the first
  batch violate `AttendsStored`. No result of section 5 about keys holds for these builders.
- When two threads abort a graph one after the other, each moves `node_n`, and a
  third that spins can step past the last node; if that is thread 0,
  `ggml_graph_compute` returns `GGML_EXIT_SUCCESS` although a node has not been
  computed. `InputsReady` is therefore stated for graphs that are not aborted. No
  caller in the repository sets a callback.
- `finish` of the PIM simulator (`simulate.rs:411`) adds a record that is left without a
  partner to a total in which it has been counted. The cap that
  `mapping.rs:155` rounds up lets slots fill unevenly where `capacity_slack` of 1.0 is
  documented as an even count. Neither file is modelled.

`GraphAlloc` shows one more that does no harm: when a node works in place on a view of
the first part of a tensor and has views of its own, the last of these gives back
only the part, and the rest of the tensor's memory is not used again in this graph.

## 7. Plan

1. A composition of `ExpertCache` with `TaskPipeline` in which the cache's arrival of
   a matrix is the one the tasks wait for.
2. `GraphAlloc` with a decode whose graph is smaller than the measured one.
3. `PimContext`: the accumulators of the simulator, `finish` and `merge`, against
   totals defined over the whole sequence of records.

## 8. What is not modelled, and why

The modules cover the code that is concurrent or keeps state from call to call, which is a
small part of the repository's lines: most of them are kernels for one processor or
device each, tables, vendored libraries and front ends.

- **Numeric kernels** and quantisation formats: sequential arithmetic on floats.
- **Parse sequences and several back ends of the graph allocator**: the call that would
  set `parse_seq` is commented out (`llama.cpp:10055`), and the engine uses one allocator.
- **Loading a state into a context in use**: `llama_set_state_data` does not clear the
  cells first.
- **Builders without rotation** (OPT, StarCoder, Refact, Bloom, MPT) in `KVCache`: their keys do not
  depend on positions, so what the module says of rotations does not apply to them. What
  section 6 says of missing copies does: all but OPT drop them. Also left out: `k_cpy` and `v_cpy` are static, and a builder that
  does not set them attaches what an earlier graph of another architecture left there.
- **More than two sources and copies out of the buffer** in `GraphAlloc`: `ggml_axpy` and
  `ggml_mul_mat_idx` have four sources; `ggml_cpy` into the KV cache reads a tensor of the
  buffer and has no place in it. Neither node is in the model.
- **A work buffer that is too small at the LM head** (`sparse_lmhead.cpp:293-295`): every thread
  returns an error before the first barrier; all see the same size, so none is left waiting.
- **More than 256 threads, or two contexts at once, at the LM head's barrier**: assumed
  away; the code does not test for it.
- **The PIM simulator**: sequential accounting over records, with no state another
  part could see.
- **Loading, graph building, tokenizers, converters, servers, examples**: sequential
  code or input and output. What the graph builders decide (which nodes, in which
  order, with which routing) is in the modules as their environment.
- **`ggml_graph_compute_thread_hybrid`**: compiled only with
  `GGML_USE_HYBRID_THREADING`, which no build file defines.
- **FINALIZE passes** of ggml: only a training operator has one.
- **GPU back ends**: their scheduling is the driver's.
- **`DiskBuffer`, the atomic queue**: no caller in the repository. The expert
  bundle writer is a sequential converter.
- **The other sparse FFN operators** of `powerinfer-cpu`: same pattern as the
  fused MoE; left for later.
- **Failing reads**: `IOUring::reap` aborts the program (`iou.cpp:66-69`), so no
  behaviour follows one. Failing allocations are not modelled either.

## 9. Running

    tlc -workers 2 -config ExpertCache_exact.cfg MCExpertCache
    tlapm ExpertCacheProofs.tla

and likewise for the other configurations and proof modules; `PROJECT.json` names
the module and configuration of every run, the mutant that breaks each property,
and the lines each definition stands for.
